------------------------------ MODULE PlcEngine ------------------------------
(***************************************************************************)
(* What PlcEngine promises a caller that issues one command at a time: a   *)
(* map of named programs, each STOPPED, RUNNING or PAUSED, and an engine   *)
(* that runs while some program needs it.  Every handler is one atomic     *)
(* step.  PlcTasks refines this module with the threads that really call   *)
(* the handlers; IOEvents composes it with the event triggers.             *)
(***************************************************************************)
EXTENDS Naturals

CONSTANT Program   \* the names programs may be loaded under

VARIABLES
  state,           \* state of each program, "absent" if not in the map
  engine           \* currentEngineState

engineVars == <<state, engine>>

ProgState == {"STOPPED", "RUNNING", "PAUSED"}

EngineTypeOK ==
  /\ state \in [Program -> ProgState \cup {"absent"}]
  /\ engine \in {"STOPPED", "RUNNING"}

Loaded == {p \in Program : state[p] # "absent"}

(* No program of the map keeps the engine busy. *)
AllStopped == \A p \in Loaded : state[p] = "STOPPED"

EngineInit ==
  /\ state = [p \in Program |-> "absent"]
  /\ engine = "STOPPED"
------------------------------------------------------------------------------
(* A configuration that does not parse or configure changes nothing: the   *)
(* half-built PlcProgram is dropped before it reaches the map.             *)
loadProgram(p) ==
  /\ p \notin Loaded
  /\ state' = [state EXCEPT ![p] = "STOPPED"]
  /\ UNCHANGED engine

(* PlcProgram::run returns at once for a RUNNING program; the engine is    *)
(* started either way.                                                     *)
runProgram(p) ==
  /\ p \in Loaded
  /\ state' = [state EXCEPT ![p] = "RUNNING"]
  /\ engine' = "RUNNING"

(* PlcProgram::pause accepts a STOPPED program too, and leaves the engine  *)
(* as it is.                                                               *)
pauseProgram(p) ==
  /\ p \in Loaded
  /\ state' = [state EXCEPT ![p] = "PAUSED"]
  /\ UNCHANGED engine

stopProgram(p) ==
  /\ p \in Loaded
  /\ state' = [state EXCEPT ![p] = "STOPPED"]
  /\ engine' = IF AllStopped' THEN "STOPPED" ELSE engine

deleteProgram(p) ==
  /\ state[p] = "STOPPED"
  /\ state' = [state EXCEPT ![p] = "absent"]
  /\ UNCHANGED engine

(* ESP.restart, a panic or a power cut: programs live in RAM only. *)
restartEsp ==
  /\ state' = [p \in Program |-> "absent"]
  /\ engine' = "STOPPED"

EngineNext ==
  \/ \E p \in Program :
       \/ loadProgram(p)
       \/ runProgram(p)
       \/ pauseProgram(p)
       \/ stopProgram(p)
       \/ deleteProgram(p)
  \/ restartEsp

EngineSpec == EngineInit /\ [][EngineNext]_engineVars
------------------------------------------------------------------------------
(* A RUNNING program always has the engine running behind it: no order of  *)
(* run, stop and delete of other programs takes the engine away from it.   *)
RunningNeedsEngine ==
  (\E p \in Program : state[p] = "RUNNING") => engine = "RUNNING"

(* The engine runs only for a program that still needs it: stopping the    *)
(* last one stops the engine, and delete cannot remove the last user.      *)
EngineNeedsProgram ==
  engine = "RUNNING" => ~AllStopped
==============================================================================
