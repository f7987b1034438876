------------------------------ MODULE PlcStatus ------------------------------
(***************************************************************************)
(* The status block of a PLC program: it reads the name of an endpoint     *)
(* from the program's memory, shows whether the endpoint is online, and    *)
(* sets a trigger when that changes.                                       *)
(***************************************************************************)
CONSTANTS Endpoint, NoName

ASSUME StatusAssumption == NoName \notin Endpoint

VARIABLES
  isOnline,                  \* of each endpoint, FALSE if it is not known
  endpoint_name,             \* the input
  monitoredEndpoint, initialized, lastKnownStatus,
  is_online, on_online, on_offline    \* the outputs

memory == <<isOnline, endpoint_name>>
triggers == <<on_online, on_offline>>
statusVars ==
  <<memory, monitoredEndpoint, initialized, lastKnownStatus, is_online,
    triggers>>

StatusTypeOK ==
  /\ isOnline \in [Endpoint -> BOOLEAN]
  /\ endpoint_name \in Endpoint \cup {NoName}
  /\ monitoredEndpoint \in Endpoint \cup {NoName}
  /\ {initialized, lastKnownStatus} \subseteq BOOLEAN
  /\ {is_online, on_online, on_offline} \subseteq BOOLEAN

StatusInit ==
  /\ isOnline = [e \in Endpoint |-> FALSE]
  /\ endpoint_name \in Endpoint \cup {NoName}
  /\ monitoredEndpoint = NoName
  /\ initialized = FALSE /\ lastKnownStatus = FALSE
  /\ is_online = FALSE /\ on_online = FALSE /\ on_offline = FALSE
------------------------------------------------------------------------------
currentStatus == isOnline[endpoint_name]

(* As if a new endpoint were compared with the status of the one before. *)
SameAlways == initialized

SameEndpoint == initialized /\ endpoint_name = monitoredEndpoint

(* The triggers are reset only by a scan without a change: one that finds  *)
(* another change, another endpoint or no name leaves them as they are.    *)
updateTriggers ==
  \/ /\ ~SameEndpoint
     /\ UNCHANGED triggers
  \/ /\ SameEndpoint /\ currentStatus # lastKnownStatus
     /\ on_online' = (on_online \/ currentStatus)
     /\ on_offline' = (on_offline \/ ~currentStatus)
  \/ /\ SameEndpoint /\ currentStatus = lastKnownStatus
     /\ on_online' = FALSE /\ on_offline' = FALSE

StatusScan ==
  /\ endpoint_name # NoName
  /\ updateTriggers
  /\ monitoredEndpoint' = endpoint_name
  /\ initialized' = TRUE
  /\ lastKnownStatus' = currentStatus
  /\ is_online' = currentStatus
  /\ UNCHANGED memory

EndpointChanges ==
  /\ \E e \in Endpoint : isOnline' = [isOnline EXCEPT ![e] = ~@]
  /\ UNCHANGED <<endpoint_name, monitoredEndpoint, initialized,
                 lastKnownStatus, is_online, triggers>>

NameChanges ==
  /\ endpoint_name' \in (Endpoint \cup {NoName}) \ {endpoint_name}
  /\ UNCHANGED <<isOnline, monitoredEndpoint, initialized, lastKnownStatus,
                 is_online, triggers>>

StatusNext == StatusScan \/ EndpointChanges \/ NameChanges

StatusSpec == StatusInit /\ [][StatusNext]_statusVars
------------------------------------------------------------------------------
(* BlockStatusHandler ("Trigger set to true when device goes online"): a   *)
(* trigger is set in exactly the scans that find the same endpoint as the  *)
(* scan before, with another status than the program has been shown; the   *)
(* endpoint of another name, and a change while there is no name, set one  *)
(* only against what is shown of that endpoint.                            *)
TriggersOnChange ==
  [][StatusScan =>
       /\ ~on_online /\ on_online' <=>
            /\ endpoint_name = monitoredEndpoint /\ initialized
            /\ ~is_online /\ isOnline[endpoint_name] /\ ~on_online
       /\ ~on_offline /\ on_offline' <=>
            /\ endpoint_name = monitoredEndpoint /\ initialized
            /\ is_online /\ ~isOnline[endpoint_name] /\ ~on_offline]_statusVars
==============================================================================
