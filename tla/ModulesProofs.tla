---------------------------- MODULE ModulesProofs ----------------------------
(* What the module manager keeps, for any modules and dependencies. *)
EXTENDS Modules, TLAPS

ModulesInv == ModulesTypeOK /\ RunningIsEnabled

(* The state a start or a stop leaves is one of the three. *)
LEMMA StartStopType ==
  ASSUME ModulesTypeOK, NEW m \in Module
  PROVE  Started(m) \in State /\ Stopped(m) \in State
BY DEF ModulesTypeOK, Started, start, Stopped, State, isRunning

LEMMA ModulesInitInv == ModulesInit => ModulesInv
BY ModulesAssumption
   DEF ModulesInit, ModulesInv, ModulesTypeOK, RunningIsEnabled, isRunning,
       isModuleEnabled, State, ModuleConfig, Default

LEMMA EnabledType ==
  ASSUME ModulesTypeOK, NEW m \in Module, NEW enabled \in BOOLEAN,
         setModuleEnabled(m, enabled)
  PROVE  moduleConfigs' \in [Module -> ModuleConfig]
BY DEF ModulesTypeOK, ModuleConfig, setModuleEnabled

LEMMA SaveType ==
  ASSUME ModulesTypeOK, saveConfiguration
  PROVE  file' \subseteq Module
<1>1. PICK saved \in SaveOutcomes :
        file' = IF saved THEN {m \in Module : isModuleEnabled(m)'} ELSE file
  BY DEF saveConfiguration
<1>2. QED
  BY <1>1 DEF ModulesTypeOK

(* A module that is running after enabling m is m itself, which is now     *)
(* enabled, or was running before.                                         *)
LEMMA EnableInv ==
  ASSUME ModulesInv, NEW m \in Module, enableModule(m)
  PROVE  ModulesInv'
<1> USE DEF ModulesInv, enableModule, Enable
<1>1. state' \in [Module -> State]
  BY StartStopType DEF ModulesTypeOK
<1>2. /\ moduleConfigs' \in [Module -> ModuleConfig]
      /\ file' \subseteq Module
  <2>1. CASE isRunning(m)'
    BY <2>1, EnabledType, SaveType
  <2>2. CASE ~isRunning(m)'
    BY <2>2 DEF ModulesTypeOK
  <2>3. QED BY <2>1, <2>2
<1>3. ASSUME NEW n \in Module, isRunning(n)'
      PROVE  n \in modules' /\ isModuleEnabled(n)'
  <2>1. CASE n = m
    BY <1>3, <2>1
       DEF ModulesTypeOK, ModuleConfig, setModuleEnabled, isModuleEnabled,
           isRunning
  <2>2. CASE n # m
    <3>1. isRunning(n)
      BY <1>3, <2>2 DEF ModulesTypeOK, isRunning
    <3>2. moduleConfigs'[n] = moduleConfigs[n]
      BY <2>2 DEF ModulesTypeOK, setModuleEnabled
    <3>3. QED
      BY <3>1, <3>2 DEF RunningIsEnabled, isModuleEnabled
  <2>3. QED BY <2>1, <2>2
<1>4. QED BY <1>1, <1>2, <1>3 DEF ModulesTypeOK, RunningIsEnabled

LEMMA DisableInv ==
  ASSUME ModulesInv, NEW m \in Module, disableModule(m)
  PROVE  ModulesInv'
<1> USE DEF ModulesInv, disableModule
<1>1. ModulesTypeOK'
  BY StartStopType, EnabledType, SaveType DEF ModulesTypeOK
<1>2. ASSUME NEW n \in Module, isRunning(n)'
      PROVE  isRunning(n) /\ n # m
  BY <1>2 DEF ModulesTypeOK, Stopped, isRunning
<1>3. QED
  BY <1>1, <1>2
     DEF RunningIsEnabled, isModuleEnabled, setModuleEnabled, ModulesTypeOK

(* One step per call. *)
LEMMA ModulesNextInv == ModulesInv /\ [ModulesNext]_modulesVars => ModulesInv'
<1> SUFFICES ASSUME ModulesInv, [ModulesNext]_modulesVars PROVE ModulesInv'
  OBVIOUS
<1> USE DEF ModulesInv
<1>1. ASSUME NEW m \in Module, registerModule(m) PROVE ModulesInv'
  BY <1>1 DEF registerModule, ModulesTypeOK, RunningIsEnabled, isRunning,
              isModuleEnabled
<1>2. ASSUME NEW m \in Module, unregisterModule(m) PROVE ModulesInv'
  BY <1>2, StartStopType
     DEF unregisterModule, ModulesTypeOK, RunningIsEnabled, isRunning,
         isModuleEnabled, Stopped
<1>3. ASSUME NEW m \in Module, enableModule(m) PROVE ModulesInv'
  BY <1>3, EnableInv
<1>4. ASSUME NEW m \in Module, disableModule(m) PROVE ModulesInv'
  BY <1>4, DisableInv
<1>5. ASSUME NEW m \in Module, restartModule(m) PROVE ModulesInv'
  BY <1>5 DEF restartModule, start, ModulesTypeOK, RunningIsEnabled, isRunning,
              isModuleEnabled, State
<1>6. ASSUME NEW m \in Module, setModuleAutoStart(m) PROVE ModulesInv'
  BY <1>6 DEF setModuleAutoStart, ModulesTypeOK, RunningIsEnabled, isRunning,
              isModuleEnabled, ModuleConfig
<1>7. ASSUME NEW m \in Module, configure(m) PROVE ModulesInv'
  BY <1>7 DEF configure, ModulesTypeOK, RunningIsEnabled, isRunning,
              isModuleEnabled
<1>8. CASE startAll
  BY <1>8, StartStopType
     DEF startAll, AutoStarts, ModulesTypeOK, RunningIsEnabled, isRunning,
         isModuleEnabled
<1>9. CASE stopAll
  BY <1>9, StartStopType
     DEF stopAll, ModulesTypeOK, RunningIsEnabled, isRunning, isModuleEnabled,
         Stopped
<1>10. CASE Reboot
  BY <1>10 DEF Reboot, ModulesTypeOK, RunningIsEnabled, isRunning,
               isModuleEnabled, State, ModuleConfig, Default
<1>11. CASE UNCHANGED modulesVars
  BY <1>11 DEF modulesVars, ModulesTypeOK, RunningIsEnabled, isRunning,
               isModuleEnabled
<1>12. QED
  BY <1>1, <1>2, <1>3, <1>4, <1>5, <1>6, <1>7, <1>8, <1>9, <1>10, <1>11
     DEF ModulesNext

LEMMA ModulesSpecInv == ModulesSpec => []ModulesInv
BY ModulesInitInv, ModulesNextInv, PTL DEF ModulesSpec

(* The types of the manager's state and its file. *)
THEOREM ModulesTypeCorrect == ModulesSpec => []ModulesTypeOK
BY ModulesSpecInv, PTL DEF ModulesInv

(* A module that runs is registered and enabled in the configuration,      *)
(* whichever calls came before.                                            *)
THEOREM ModulesRunEnabled == ModulesSpec => []RunningIsEnabled
BY ModulesSpecInv, PTL DEF ModulesInv

(* A step that removes no module either leaves the configuration of the    *)
(* dependencies of m enabled, or disables one that nobody needs.           *)
LEMMA DependenciesStep ==
  ASSUME ModulesInv, [ModulesNext]_modulesVars, NEW m \in Module,
         isRunning(m), isRunning(m)', checkDependencies(m),
         modules \subseteq modules'
  PROVE  checkDependencies(m)'
<1>1. m \in modules /\ isModuleEnabled(m)
  BY DEF ModulesInv, RunningIsEnabled
<1> SUFFICES ASSUME NEW d \in Dependencies[m]
             PROVE  isModuleEnabled(d)'
  BY DEF checkDependencies
<1>2. d \in Module /\ d \in modules /\ isModuleEnabled(d)
  BY ModulesAssumption DEF checkDependencies
<1>3. ASSUME NEW n \in Module, disableModule(n) PROVE isModuleEnabled(d)'
  <2>1. n # d
    BY <1>1, <1>2, <1>3 DEF disableModule, getDependentModules
  <2>2. QED
    BY <1>2, <1>3, <2>1
       DEF disableModule, setModuleEnabled, isModuleEnabled, ModulesInv,
           ModulesTypeOK
<1>4. ASSUME NEW n \in Module, enableModule(n) PROVE isModuleEnabled(d)'
  BY <1>2, <1>4
     DEF enableModule, Enable, setModuleEnabled, isModuleEnabled, ModulesInv,
         ModulesTypeOK, ModuleConfig
<1>5. ASSUME NEW n \in Module, setModuleAutoStart(n)
      PROVE  isModuleEnabled(d)'
  BY <1>2, <1>5
     DEF setModuleAutoStart, isModuleEnabled, ModulesInv, ModulesTypeOK,
         ModuleConfig
<1>6. CASE Reboot
  BY <1>6 DEF Reboot, isRunning
<1>7. CASE UNCHANGED moduleConfigs
  BY <1>2, <1>7 DEF isModuleEnabled
<1>8. QED
  BY <1>3, <1>4, <1>5, <1>6, <1>7
     DEF ModulesNext, modulesVars, registerModule, unregisterModule,
         restartModule, configure, startAll, stopAll

(* No call but the removal of a module takes a dependency away from one    *)
(* that keeps running.                                                     *)
THEOREM ModulesKeepDependencies == ModulesSpec => KeepsDependencies
<1>1. ModulesInv /\ [ModulesNext]_modulesVars =>
        [\A m \in Module :
           /\ isRunning(m) /\ isRunning(m)'
           /\ checkDependencies(m)
           /\ modules \subseteq modules'
           => checkDependencies(m)']_modulesVars
  BY DependenciesStep
<1>2. QED
  BY <1>1, ModulesSpecInv, PTL DEF ModulesSpec, KeepsDependencies
==============================================================================
