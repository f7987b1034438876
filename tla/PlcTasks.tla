------------------------------- MODULE PlcTasks ------------------------------
(***************************************************************************)
(* PlcEngine as it is called: without a lock, from three kinds of thread.  *)
(*   hub   EspHub::loop on the Arduino loop task: scans every program on   *)
(*         each round, and issues the commands that arrive over MQTT or    *)
(*         come from an event trigger;                                     *)
(*   web   the AsyncTCP task that serves POST /plc_command;                *)
(*   task  plcEngineTask, created and deleted by the engine, scans only.   *)
(* A handler is cut where another core can get in between two accesses to  *)
(* shared state: the map, a program's state, the engine state and the      *)
(* task handle.  A scan is cut at every program of every phase.            *)
(***************************************************************************)
EXTENDS Naturals

CONSTANTS
  NumPrograms,   \* program names, numbered in the order of the map's keys
  Commander,     \* the threads that issue run, pause, stop and delete
  TaskId,        \* handles of engine tasks (bounds the tasks alive at once)
  NULL           \* no task

ASSUME ConstantsAssumption ==
  /\ NumPrograms \in Nat
  /\ Commander \subseteq {"hub", "web"}
  /\ NULL \notin TaskId
  /\ {"hub", "web"} \cap TaskId = {}

Program == 1 .. NumPrograms
Thread == {"hub", "web"} \cup TaskId
Scanner == {"hub"} \cup TaskId

VARIABLES
  state, engine,   \* as in PlcEngine
  handle,          \* plcEngineTaskHandle
  alive,           \* the engine tasks FreeRTOS still schedules
  pc,              \* where each thread is
  at,              \* the program its handler names or its iterator is on
  stale            \* has the object it points at been erased?

vars == <<state, engine, handle, alive, pc, at, stale>>

Engine == INSTANCE PlcEngine

Phase == {"READ", "EXECUTE", "WRITE"}
ScanPC == Phase \cup {"EVAL"}   \* EVAL: inside PlcProgram::evaluate
RunPC == {"run", "init", "engine", "start", "create"}
StopPC == {"stop", "check", "halt", "kill", "clear"}
DeletePC == {"delete", "erase"}
PC == {"idle", "dead", "pause"} \cup ScanPC \cup RunPC \cup StopPC \cup DeletePC

TypeOK ==
  /\ Engine!EngineTypeOK
  /\ handle \in TaskId \cup {NULL}
  /\ alive \subseteq TaskId
  /\ pc \in [Thread -> PC]
  /\ at \in [Thread -> 0 .. NumPrograms]
  /\ stale \in [Thread -> BOOLEAN]

Init ==
  /\ Engine!EngineInit
  /\ handle = NULL
  /\ alive = {}
  /\ pc = [t \in Thread |-> "idle"]
  /\ at = [t \in Thread |-> 0]
  /\ stale = [t \in Thread |-> FALSE]
------------------------------------------------------------------------------
(* The map's iterator: the programs a loop standing on k has yet to visit, *)
(* and the next of them.                                                   *)
After(k) == {p \in Engine!Loaded : p > k}
IsNext(q, k) == q \in After(k) /\ \A p \in After(k) : q <= p

(* As if the iterator were moved on before it is used. *)
PointNext(t, k) ==
  /\ at' = [at EXCEPT ![t] = k + 1]
  /\ stale' = [stale EXCEPT ![t] = FALSE]

(* Thread t's iterator or program pointer moves to k, a live object. *)
Point(t, k) ==
  /\ at' = [at EXCEPT ![t] = k]
  /\ stale' = [stale EXCEPT ![t] = FALSE]

(* Thread t goes on to the next step of its handler; back at "idle" it     *)
(* points at nothing.                                                      *)
Move(t, from, to, k) ==
  /\ pc[t] = from
  /\ pc' = [pc EXCEPT ![t] = to]
  /\ Point(t, k)

Goto(t, from, to) ==
  /\ pc[t] = from
  /\ pc' = [pc EXCEPT ![t] = to]
  /\ IF to = "idle" THEN Point(t, 0) ELSE UNCHANGED <<at, stale>>

SetState(p, s) == state' = [state EXCEPT ![p] = s]

(* An assignment through a program pointer: lost if the object is gone. *)
Assign(t, s) == IF stale[t] THEN UNCHANGED state ELSE SetState(at[t], s)
------------------------------------------------------------------------------
(* evaluateAllPrograms: three passes over the map, each asking every       *)
(* program again whether it is RUNNING.                                    *)
NextPhase(phase) ==
  CASE phase = "READ" -> "EXECUTE"
    [] phase = "EXECUTE" -> "WRITE"
    [] phase = "WRITE" -> "idle"

(* As if EspHub::loop left the scanning to the engine task. *)
ScanBeginTaskOnly(t) ==
  /\ t \in alive
  /\ Move(t, "idle", "READ", 0)
  /\ UNCHANGED <<state, engine, handle, alive>>

ScanBegin(t) ==
  /\ t = "hub" \/ t \in alive
  /\ Move(t, "idle", "READ", 0)
  /\ UNCHANGED <<state, engine, handle, alive>>

ScanVisit(t) ==
  /\ pc[t] \in Phase
  /\ \E q \in Program :
       /\ IsNext(q, at[t])
       /\ LET evaluate == state[q] = "RUNNING" /\ pc[t] = "EXECUTE"
          IN  Move(t, pc[t], IF evaluate THEN "EVAL" ELSE pc[t], q)
  /\ UNCHANGED <<state, engine, handle, alive>>

(* The last block of the program has been evaluated. *)
ScanEvaluated(t) ==
  /\ Goto(t, "EVAL", "EXECUTE")
  /\ UNCHANGED <<state, engine, handle, alive>>

ScanPhaseEnd(t) ==
  /\ pc[t] \in Phase
  /\ After(at[t]) = {}
  /\ Move(t, pc[t], NextPhase(pc[t]), 0)
  /\ UNCHANGED <<state, engine, handle, alive>>

Scan(t) == ScanBegin(t) \/ ScanVisit(t) \/ ScanEvaluated(t) \/ ScanPhaseEnd(t)
------------------------------------------------------------------------------
(* Every handler first asks the map for the name; an unknown one returns.  *)
(* Delete is a command of the hub thread only.                             *)
Call(t, p) ==
  /\ p \in Engine!Loaded
  /\ \E handler \in {"run", "pause", "stop"}
                    \cup (IF t = "hub" THEN {"delete"} ELSE {}) :
       Move(t, "idle", handler, p)
  /\ UNCHANGED <<state, engine, handle, alive>>

(* loadProgram runs on the hub thread; the new object is published by the  *)
(* insertion into the map.                                                 *)
Load(p) ==
  /\ pc["hub"] = "idle"
  /\ p \notin Engine!Loaded
  /\ SetState(p, "STOPPED")
  /\ UNCHANGED <<engine, handle, alive, pc, at, stale>>

(* PlcProgram::run: nothing to do for a RUNNING program.  A name erased    *)
(* since the lookup leaves a null pointer: no step but a restart.          *)
RunCheck(t) ==
  /\ ~stale[t]
  /\ Goto(t, "run", IF state[at[t]] = "RUNNING" THEN "engine" ELSE "init")
  /\ UNCHANGED <<state, engine, handle, alive>>

RunInit(t) ==   \* executeInitBlock, then currentState = RUNNING
  /\ Goto(t, "init", "engine")
  /\ Assign(t, "RUNNING")
  /\ UNCHANGED <<engine, handle, alive>>

(* As if runProgram did not ask whether the engine is running. *)
RunEngineAlways(t) ==
  /\ Goto(t, "engine", "start")
  /\ UNCHANGED <<state, engine, handle, alive>>

RunEngine(t) ==
  /\ Goto(t, "engine", IF engine = "STOPPED" THEN "start" ELSE "idle")
  /\ UNCHANGED <<state, engine, handle, alive>>

RunStart(t) ==
  /\ Goto(t, "start", "create")
  /\ engine' = "RUNNING"
  /\ UNCHANGED <<state, handle, alive>>

(* xTaskCreatePinnedToCore may fail for want of memory; the result is not  *)
(* looked at.                                                              *)
RunCreate(t) ==
  /\ Goto(t, "create", "idle")
  /\ \/ \E h \in TaskId \ alive : handle' = h /\ alive' = alive \cup {h}
     \/ UNCHANGED <<handle, alive>>
  /\ UNCHANGED <<state, engine>>

Pause(t) ==
  /\ Goto(t, "pause", "idle")
  /\ Assign(t, "PAUSED")
  /\ UNCHANGED <<engine, handle, alive>>

(* As if stopProgram did not look at the other programs. *)
StopMarkAlone(t) ==
  /\ ~stale[t]
  /\ Move(t, "stop", "halt", 0)
  /\ SetState(at[t], "STOPPED")
  /\ UNCHANGED <<engine, handle, alive>>

StopMark(t) ==
  /\ ~stale[t]
  /\ Move(t, "stop", "check", 0)
  /\ SetState(at[t], "STOPPED")
  /\ UNCHANGED <<engine, handle, alive>>

(* As if a PAUSED program counted as stopped. *)
StopCheckRunningOnly(t) ==
  /\ \/ /\ After(at[t]) = {}
        /\ Goto(t, "check", "halt")
     \/ \E q \in Program :
          /\ IsNext(q, at[t])
          /\ IF state[q] # "RUNNING" THEN Move(t, "check", "check", q)
                                     ELSE Goto(t, "check", "idle")
  /\ UNCHANGED <<state, engine, handle, alive>>

(* The allStopped loop, one program at a time. *)
StopCheck(t) ==
  /\ \/ /\ After(at[t]) = {}
        /\ Goto(t, "check", "halt")
     \/ \E q \in Program :
          /\ IsNext(q, at[t])
          /\ IF state[q] = "STOPPED" THEN Move(t, "check", "check", q)
                                     ELSE Goto(t, "check", "idle")
  /\ UNCHANGED <<state, engine, handle, alive>>

(* As if the task were not deleted before its handle is cleared. *)
StopHaltKeepsTask(t) ==
  /\ Goto(t, "halt", IF engine = "STOPPED" THEN "idle" ELSE "clear")
  /\ UNCHANGED <<state, engine, handle, alive>>

(* As if the handle were deleted without a test for NULL. *)
StopHaltUntested(t) ==
  /\ Goto(t, "halt", IF engine = "STOPPED" THEN "idle" ELSE "kill")
  /\ UNCHANGED <<state, engine, handle, alive>>

StopHalt(t) ==
  /\ Goto(t, "halt", IF engine = "STOPPED" THEN "idle"
                     ELSE IF handle = NULL THEN "clear" ELSE "kill")
  /\ UNCHANGED <<state, engine, handle, alive>>

(* The victim stops wherever it is.  vTaskDelete(NULL) deletes the caller: *)
(* the handle may have been cleared since it was tested.                   *)
StopKill(t) ==
  /\ pc[t] = "kill"
  /\ alive' = alive \ {handle}
  /\ LET killed(f, g, v) == [u \in Thread |->
            IF u = t THEN g ELSE IF u = handle THEN v ELSE f[u]]
     IN  /\ pc' = killed(pc, IF handle = NULL THEN "dead" ELSE "clear", "idle")
         /\ at' = killed(at, 0, 0)
         /\ stale' = killed(stale, FALSE, FALSE)
  /\ UNCHANGED <<state, engine, handle>>

StopClear(t) ==
  /\ Goto(t, "clear", "idle")
  /\ handle' = NULL
  /\ engine' = "STOPPED"
  /\ UNCHANGED <<state, alive>>

(* As if a program could be deleted in any state. *)
DeleteUnchecked(t) ==
  /\ Goto(t, "delete", "erase")
  /\ UNCHANGED <<state, engine, handle, alive>>

DeleteCheck(t) ==
  /\ Goto(t, "delete", IF state[at[t]] = "STOPPED" THEN "erase" ELSE "idle")
  /\ UNCHANGED <<state, engine, handle, alive>>

(* Whoever stands on the erased program is left with a dangling pointer. *)
DeleteErase(t) ==
  /\ pc[t] = "erase"
  /\ pc' = [pc EXCEPT ![t] = "idle"]
  /\ at' = [at EXCEPT ![t] = 0]
  /\ SetState(at[t], "absent")
  /\ stale' = [u \in Thread |-> u # t /\ (stale[u] \/ at[u] = at[t])]
  /\ UNCHANGED <<engine, handle, alive>>

Handler(t) ==
  \/ RunCheck(t) \/ RunInit(t) \/ RunEngine(t) \/ RunStart(t) \/ RunCreate(t)
  \/ Pause(t)
  \/ StopMark(t) \/ StopCheck(t) \/ StopHalt(t) \/ StopKill(t) \/ StopClear(t)
  \/ DeleteCheck(t) \/ DeleteErase(t)

(* A restart on command, a power cut, or the panic that ends the use of a  *)
(* dangling pointer.  The map and the tasks live in RAM.                   *)
Restart ==
  /\ state' = [p \in Program |-> "absent"]
  /\ engine' = "STOPPED"
  /\ handle' = NULL
  /\ alive' = {}
  /\ pc' = [t \in Thread |-> "idle"]
  /\ at' = [t \in Thread |-> 0]
  /\ stale' = [t \in Thread |-> FALSE]

Next ==
  \/ \E t \in Scanner : Scan(t)
  \/ \E p \in Program : Load(p)
  \/ \E t \in Commander : Handler(t) \/ \E p \in Program : Call(t, p)
  \/ Restart

Spec == Init /\ [][Next]_vars

(* Every thread gets the processor again and again: the loop task and the  *)
(* engine tasks run at equal priority and the latter sleep 10 ms a round.  *)
(* Each round of EspHub::loop scans before and after the commands of that  *)
(* round, so a stream of commands cannot keep the hub from scanning; what  *)
(* can is MqttManager::reconnect, which waits in the loop of a root node   *)
(* until the broker answers: the broker is assumed to be there.            *)
Fairness ==
  /\ \A t \in Scanner : WF_vars(Scan(t)) /\ SF_vars(ScanBegin(t))
  /\ \A t \in Commander : WF_vars(Handler(t))

FairSpec == Spec /\ Fairness
------------------------------------------------------------------------------
(* Comment of runProgram: "Start the global PLC engine task if not already *)
(* running".  At most one engine task is ever alive.                       *)
OneEngineTask == \A s, t \in alive : s = t

(* The handle names the one task that is alive, also between the steps of  *)
(* a handler: only a stop that has killed the task still holds it.         *)
HandleIsTheTask ==
  alive = IF handle = NULL \/ \E t \in Commander : pc[t] = "clear"
          THEN {} ELSE {handle}

(* A task is alive only while the engine state says RUNNING.  (The reverse *)
(* fails: the creation of the task may have failed.)                       *)
TaskMeansRunning == alive # {} => engine = "RUNNING"

(* stopProgram never passes a cleared handle to vTaskDelete, which would   *)
(* delete the calling task.                                                *)
NobodyDeletesItself == \A t \in Commander : pc[t] # "dead"

(* A program that stays RUNNING is evaluated again and again, by the hub   *)
(* or by an engine task, even when the task could not be created.          *)
RunningIsEvaluated ==
  \A p \in Program :
    state[p] = "RUNNING" ~>
      state[p] # "RUNNING" \/ \E t \in Scanner : pc[t] = "EVAL" /\ at[t] = p

(* With one commanding thread the handlers look atomic.  A run takes       *)
(* effect when the program turns RUNNING, a stop when the program turns    *)
(* STOPPED: the engine state that the rest of the handler will write.      *)
engineSeen ==
  IF \E t \in Commander : pc[t] \in {"engine", "start"} THEN "RUNNING"
  ELSE IF /\ \E t \in Commander : pc[t] \in {"check", "halt", "kill", "clear"}
          /\ Engine!AllStopped
       THEN "STOPPED"
  ELSE engine

AtomicEngine == INSTANCE PlcEngine WITH engine <- engineSeen
HandlersLookAtomic == AtomicEngine!EngineSpec
RunningHasEngine == AtomicEngine!RunningNeedsEngine
EngineHasWork == AtomicEngine!EngineNeedsProgram
==============================================================================
