---------------------------- MODULE DeviceConfigs ----------------------------
(***************************************************************************)
(* DeviceConfigManager: the device configurations in memory, the files     *)
(* they are kept in, and the protocol managers that are told of each       *)
(* device.  A configuration is an ArduinoJson document; asking a document  *)
(* for an object with to<JsonObject>() clears it, as<JsonObject>() would   *)
(* not.                                                                    *)
(***************************************************************************)
EXTENDS Naturals, FiniteSets

CONSTANTS
  DeviceId,     \* numbered in the order of the map
  Protocol,     \* the protocols a manager is registered for
  FileOf,       \* the file of each id: some characters become "_"
  Config        \* [device_id, protocol, valid, connects]

ASSUME ConfigAssumption ==
  /\ DeviceId \subseteq Nat /\ IsFiniteSet(DeviceId)
  /\ "" \notin Protocol
  /\ DOMAIN FileOf = DeviceId
  /\ Config \subseteq [device_id : DeviceId, protocol : Protocol,
                       valid : BOOLEAN, connects : BOOLEAN]

(* "{}", a file with nothing in it, and nothing at all. *)
Empty == [protocol |-> "", valid |-> FALSE]
Blank == [protocol |-> "unreadable"]
Absent == [protocol |-> "absent"]

File == {FileOf[d] : d \in DeviceId}

VARIABLES
  deviceConfigs,    \* the document of each id, Absent if it has none
  managed,          \* the devices each protocol manager was told of
  files             \* what each file holds

configVars == <<deviceConfigs, managed, files>>

ConfigTypeOK ==
  /\ deviceConfigs \in [DeviceId -> Config \cup {Empty, Absent}]
  /\ managed \in [Protocol -> SUBSET DeviceId]
  /\ files \in [File -> Config \cup {Empty, Blank, Absent}]

ConfigInit ==
  /\ deviceConfigs = [d \in DeviceId |-> Absent]
  /\ managed = [p \in Protocol |-> {}]
  /\ files = [f \in File |-> Absent]

hasDevice(d) == deviceConfigs[d] # Absent
Devices == {d \in DeviceId : hasDevice(d)}

(* to<JsonObject>(): what is left of a document after the call. *)
to(doc) == Empty

(* The getters look a field up in what the call has left. *)
getDeviceProtocol(d) == to(deviceConfigs[d]).protocol

validateDeviceConfig(c) == c.valid
------------------------------------------------------------------------------
(* As if a device that cannot be connected stayed in memory. *)
LoadedDocsAnyway(docs, c) ==
  IF ~validateDeviceConfig(c) THEN docs
  ELSE [docs EXCEPT ![c.device_id] = c]

(* What loadDevice makes of the documents and of the managers' tables when *)
(* it starts from docs and table: a device that cannot be connected loses  *)
(* its document, also one it had before.                                   *)
LoadedDocs(docs, c) ==
  IF ~validateDeviceConfig(c) THEN docs
  ELSE [docs EXCEPT ![c.device_id] = IF c.connects THEN c ELSE Absent]

Loads(c) == validateDeviceConfig(c) /\ c.connects
LoadedTable(table, c) ==
  IF Loads(c) THEN [table EXCEPT ![c.protocol] = @ \cup {c.device_id}]
              ELSE table

(* Outcomes of writing a file: done, not opened, opened and left empty. *)
Outcome == {"done", "closed", "blank"}
Stored(doc, old, outcome) ==
  CASE outcome = "done" -> doc
    [] outcome = "closed" -> old
    [] outcome = "blank" -> Blank

saveDevice(d, outcome) ==
  /\ hasDevice(d)
  /\ files' = [files EXCEPT ![FileOf[d]] =
                 Stored(deviceConfigs[d], @, outcome)]
  /\ UNCHANGED <<deviceConfigs, managed>>

(* In the order of the ids: of two with one file the last is kept. *)
saveAllDevices(outcome) ==
  /\ files' = [f \in File |->
       LET ids == {d \in Devices : FileOf[d] = f}
           last == CHOOSE d \in ids : \A e \in ids : e <= d
       IN  IF ids = {} THEN files[f]
           ELSE Stored(deviceConfigs[last], files[f], outcome)]
  /\ UNCHANGED <<deviceConfigs, managed>>

createDevice(c, outcome) ==
  /\ deviceConfigs' = LoadedDocs(deviceConfigs, c)
  /\ managed' = LoadedTable(managed, c)
  /\ files' = IF Loads(c)
              THEN [files EXCEPT ![FileOf[c.device_id]] =
                      Stored(c, @, outcome)]
              ELSE files

(* The manager the document names hears that the device goes. *)
Released(d) ==
  [p \in Protocol |->
     managed[p] \ (IF p = getDeviceProtocol(d) THEN {d} ELSE {})]

(* The old manager is looked up in the document to() has left.  When the   *)
(* new configuration is not accepted the old one is initialised again,     *)
(* from a document that is cleared once more.                              *)
updateDevice(d, c, outcome) ==
  LET asked == [deviceConfigs EXCEPT ![d] = to(@)]
      docs == LoadedDocs(asked, c)
      old == to(docs[d])
  IN  /\ hasDevice(d)
      /\ IF Loads(c)
         THEN /\ deviceConfigs' = docs
              /\ managed' = LoadedTable(Released(d), c)
              /\ files' = [files EXCEPT ![FileOf[d]] =
                             Stored(docs[d], @, outcome)]
         ELSE /\ deviceConfigs' = [docs EXCEPT ![d] = old]
              /\ managed' = IF old \in Config
                            THEN LoadedTable(Released(d), old)
                            ELSE Released(d)
              /\ UNCHANGED files

deleteDevice(d) ==
  /\ hasDevice(d)
  /\ managed' = Released(d)
  /\ files' = [files EXCEPT ![FileOf[d]] = Absent]
  /\ deviceConfigs' = [deviceConfigs EXCEPT ![d] = Absent]

(* readEndpoint, writeEndpoint, isDeviceOnline, the tests and every getter *)
(* begin with to<JsonObject>() on the document of the device, and find no  *)
(* manager.                                                                *)
Ask(d) ==
  /\ hasDevice(d)
  /\ deviceConfigs' = [deviceConfigs EXCEPT ![d] = to(@)]
  /\ UNCHANGED <<managed, files>>

(* getStatistics asks every device whether it is online. *)
getStatistics ==
  /\ deviceConfigs' = [d \in DeviceId |->
       IF hasDevice(d) THEN to(deviceConfigs[d]) ELSE Absent]
  /\ UNCHANGED <<managed, files>>

(* The hub starts: memory and managers are new, loadAllDevices gives every *)
(* file that can be read to loadDeviceFromFile, which clears the document  *)
(* it has read before it hands it on.                                      *)
Restart ==
  LET docs == {to(files[f]) : f \in {f \in File :
                                       files[f] \notin {Absent, Blank}}}
      loaded == {c \in docs : Loads(c)}
  IN  /\ deviceConfigs' = [d \in DeviceId |->
           IF \E c \in loaded : c.device_id = d
           THEN CHOOSE c \in loaded : c.device_id = d ELSE Absent]
      /\ managed' = [p \in Protocol |->
           {c.device_id : c \in {k \in loaded : k.protocol = p}}]
      /\ UNCHANGED files

ConfigNext ==
  \/ \E c \in Config, outcome \in Outcome :
       \/ createDevice(c, outcome)
       \/ \E d \in DeviceId : updateDevice(d, c, outcome)
  \/ \E d \in DeviceId, outcome \in Outcome : saveDevice(d, outcome)
  \/ \E outcome \in Outcome : saveAllDevices(outcome)
  \/ \E d \in DeviceId : deleteDevice(d) \/ Ask(d)
  \/ getStatistics
  \/ Restart

ConfigSpec == ConfigInit /\ [][ConfigNext]_configVars
------------------------------------------------------------------------------
(* loadDevice and updateDevice: every device in memory is one that some    *)
(* protocol manager was told of, however a load or an update of it failed. *)
KnownIsInitialised ==
  \A d \in Devices : \E p \in Protocol : d \in managed[p]

(* DeviceConfigManager.h:40 on loadAllDevices, "Load all from              *)
(* /config/devices/": a device whose configuration is in its file, whole   *)
(* and accepted before, is there again after a restart.                    *)
LoadsSaved ==
  [][Restart =>
       \A f \in File :
         files[f] \in Config /\ Loads(files[f]) =>
           deviceConfigs'[files[f].device_id] # Absent]_configVars
==============================================================================
