------------------------------- MODULE Modules -------------------------------
(***************************************************************************)
(* The module manager: which modules are registered, which the             *)
(* configuration enables, which run, and what the file remembers of it.    *)
(* Each call is made by one thread, and a module behaves like the only one *)
(* there is, MqttManager: initialize and stop succeed, start may fail.     *)
(***************************************************************************)
EXTENDS Naturals

CONSTANTS
  Module,         \* names
  Dependencies,   \* getCapabilities().dependencies of each
  CanDisable,     \* modules that may be disabled
  Compatible,     \* modules that fit the hardware
  SaveOutcomes    \* whether a save reaches the file

ASSUME ModulesAssumption ==
  /\ Dependencies \in [Module -> SUBSET Module]
  /\ CanDisable \subseteq Module /\ Compatible \subseteq Module
  /\ SaveOutcomes \subseteq BOOLEAN

(* Between two calls no module is ENABLED, STARTING or STOPPING. *)
State == {"DISABLED", "RUNNING", "ERROR"}
ModuleConfig == [enabled : BOOLEAN, autoStart : BOOLEAN]

(* A module without an entry counts as one with this entry. *)
Default == [enabled |-> TRUE, autoStart |-> TRUE]

VARIABLES
  modules,        \* registered modules
  moduleConfigs,  \* the configuration
  state,
  startable,      \* whether a module's settings let it start
  file            \* the modules /config/modules.json has enabled

modulesVars == <<modules, moduleConfigs, state, startable, file>>

ModulesTypeOK ==
  /\ modules \subseteq Module
  /\ moduleConfigs \in [Module -> ModuleConfig]
  /\ state \in [Module -> State]
  /\ startable \in [Module -> BOOLEAN]
  /\ file \subseteq Module

ModulesInit ==
  /\ modules = {}
  /\ moduleConfigs = [m \in Module |-> Default]
  /\ state = [m \in Module |-> "DISABLED"]
  /\ startable \in [Module -> BOOLEAN]
  /\ file = Module
------------------------------------------------------------------------------
isRunning(m) == state[m] = "RUNNING"
isModuleEnabled(m) == moduleConfigs[m].enabled
isModuleAutoStart(m) == moduleConfigs[m].autoStart

isHardwareCompatible(m) == m \in Compatible

checkDependencies(m) ==
  \A d \in Dependencies[m] : d \in modules /\ isModuleEnabled(d)

(* As if a dependent that is running already were passed over. *)
IdleDependents(m) ==
  {n \in modules :
     m \in Dependencies[n] /\ isModuleEnabled(n) /\ ~isRunning(n)}

getDependentModules(m) ==
  {n \in modules : m \in Dependencies[n] /\ isModuleEnabled(n)}

(* As if a start that fails were left where it was. *)
startHalf(m) == IF startable[m] THEN "RUNNING" ELSE "STARTING"

(* The state MqttManager's start() leaves it in. *)
start(m) == IF startable[m] THEN "RUNNING" ELSE "ERROR"

(* Initialised, which cannot be seen afterwards, and started. *)
Started(m) == IF isRunning(m) THEN "RUNNING" ELSE start(m)

(* A module that does not run keeps its ERROR. *)
Stopped(m) == IF isRunning(m) THEN "DISABLED" ELSE state[m]

setModuleEnabled(m, enabled) ==
  moduleConfigs' = [moduleConfigs EXCEPT ![m].enabled = enabled]

(* The whole configuration is written, or nothing. *)
saveConfiguration ==
  \E saved \in SaveOutcomes :
    file' = IF saved THEN {m \in Module : isModuleEnabled(m)'} ELSE file
------------------------------------------------------------------------------
(* A configuration kept from an earlier registration is used again. *)
registerModule(m) ==
  /\ m \notin modules
  /\ modules' = modules \cup {m}
  /\ UNCHANGED <<moduleConfigs, state, startable, file>>

unregisterModule(m) ==
  /\ m \in modules
  /\ state' = [state EXCEPT ![m] = Stopped(m)]
  /\ modules' = modules \ {m}
  /\ UNCHANGED <<moduleConfigs, startable, file>>

(* Initialised and started; an ERROR is started again as it is. *)
Enable(m) ==
  /\ state' = [state EXCEPT ![m] = Started(m)]
  /\ IF isRunning(m)' THEN setModuleEnabled(m, TRUE) /\ saveConfiguration
                      ELSE UNCHANGED <<moduleConfigs, file>>
  /\ UNCHANGED <<modules, startable>>

(* As if the module were started and the configuration left as it is. *)
EnableUnmarked(m) ==
  /\ m \in modules /\ isHardwareCompatible(m) /\ checkDependencies(m)
  /\ state' = [state EXCEPT ![m] = Started(m)]
  /\ UNCHANGED <<modules, moduleConfigs, startable, file>>

enableModule(m) ==
  /\ m \in modules /\ isHardwareCompatible(m) /\ checkDependencies(m)
  /\ Enable(m)

disableModule(m) ==
  /\ m \in modules /\ m \in CanDisable /\ getDependentModules(m) = {}
  /\ state' = [state EXCEPT ![m] = Stopped(m)]
  /\ setModuleEnabled(m, FALSE)
  /\ saveConfiguration
  /\ UNCHANGED <<modules, startable>>

(* Stops a running module and starts it again; starts one that is enabled. *)
(* Neither the dependencies nor the hardware are checked again.            *)
restartModule(m) ==
  /\ m \in modules
  /\ isRunning(m) \/ isModuleEnabled(m)
  /\ state' = [state EXCEPT ![m] = start(m)]
  /\ UNCHANGED <<modules, moduleConfigs, startable, file>>

(* No module's start depends on the start of another. *)
AutoStarts(m) ==
  /\ m \in modules /\ isModuleEnabled(m) /\ isModuleAutoStart(m)
  /\ isHardwareCompatible(m) /\ checkDependencies(m)

startAll ==
  /\ state' = [m \in Module |-> IF AutoStarts(m) THEN Started(m) ELSE state[m]]
  /\ UNCHANGED <<modules, moduleConfigs, startable, file>>

stopAll ==
  /\ state' = [m \in Module |-> IF m \in modules THEN Stopped(m) ELSE state[m]]
  /\ UNCHANGED <<modules, moduleConfigs, startable, file>>

setModuleAutoStart(m) ==
  /\ m \in modules
  /\ \E autoStart \in BOOLEAN :
       moduleConfigs' = [moduleConfigs EXCEPT ![m].autoStart = autoStart]
  /\ UNCHANGED <<modules, state, startable, file>>

(* configure(), a certificate appears or is lost. *)
configure(m) ==
  /\ startable' = [startable EXCEPT ![m] = ~@]
  /\ UNCHANGED <<modules, moduleConfigs, state, file>>

(* The hub loses power and comes back: initialize() reads no file. *)
Reboot ==
  /\ modules' = {}
  /\ moduleConfigs' = [m \in Module |-> Default]
  /\ state' = [m \in Module |-> "DISABLED"]
  /\ UNCHANGED <<startable, file>>

ModulesNext ==
  \/ \E m \in Module :
       \/ registerModule(m) \/ unregisterModule(m)
       \/ enableModule(m) \/ disableModule(m) \/ restartModule(m)
       \/ setModuleAutoStart(m) \/ configure(m)
  \/ startAll \/ stopAll
  \/ Reboot

ModulesSpec == ModulesInit /\ [][ModulesNext]_modulesVars
------------------------------------------------------------------------------
(* disableModule ("Disable and stop a module"): whatever is registered,    *)
(* removed, restarted and saved in between, a module that runs is          *)
(* registered and enabled in the configuration.                            *)
RunningIsEnabled ==
  \A m \in Module : isRunning(m) => m \in modules /\ isModuleEnabled(m)

(* getDependentModules: as long as no module is unregistered, no call      *)
(* takes an enabled dependency away from a module that keeps running,      *)
(* although disableModule asks what is configured and not what runs.       *)
KeepsDependencies ==
  [][\A m \in Module :
       /\ isRunning(m) /\ isRunning(m)'
       /\ checkDependencies(m)
       /\ modules \subseteq modules'
       => checkDependencies(m)']_modulesVars
==============================================================================
