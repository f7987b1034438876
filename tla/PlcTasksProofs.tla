---------------------------- MODULE PlcTasksProofs ---------------------------
(***************************************************************************)
(* Proofs about PlcTasks, for any number of programs and of task handles:  *)
(* type correctness with any set of commanding threads, and, when a single *)
(* thread commands, the inductive invariant IInv, the safety properties it *)
(* implies, and that the cut-up handlers implement the atomic ones of      *)
(* PlcEngine.                                                              *)
(***************************************************************************)
EXTENDS PlcTasks, TLAPS

SoleCommander == \E c \in {"hub", "web"} : Commander = {c}

(* What the commanding thread c may rely on at each point of a handler. *)
CommandInv(c) ==
  /\ ~stale[c]
  /\ pc[c] # "dead"
  /\ pc[c] \in {"run", "init", "pause", "stop", "delete", "erase"}
       => at[c] \in Engine!Loaded
  /\ pc[c] = "erase" => state[at[c]] = "STOPPED"
  /\ pc[c] \in {"engine", "start", "create"}
       => at[c] \in Program /\ state[at[c]] = "RUNNING"
  /\ pc[c] = "start" => engine = "STOPPED"
  /\ pc[c] = "create" => engine = "RUNNING" /\ handle = NULL
  /\ pc[c] = "check" =>
       \A p \in Program : p <= at[c] => state[p] \in {"absent", "STOPPED"}
  /\ pc[c] \in {"halt", "kill", "clear"} => Engine!AllStopped
  /\ pc[c] \in {"kill", "clear"} => engine = "RUNNING"
  /\ pc[c] = "kill" => handle # NULL

(* How programs, engine state, handle and task agree, and how far a        *)
(* handler under way lets them differ.                                     *)
EngineInv(c) ==
  /\ (\E p \in Program : state[p] = "RUNNING")
       => engine = "RUNNING" \/ pc[c] \in {"engine", "start"}
  /\ engine = "RUNNING"
       => ~Engine!AllStopped \/ pc[c] \in {"check", "halt", "kill", "clear"}
  /\ engine = "STOPPED" => handle = NULL
  /\ alive = IF handle = NULL \/ pc[c] = "clear" THEN {} ELSE {handle}

IInv == TypeOK /\ \A c \in Commander : CommandInv(c) /\ EngineInv(c)
------------------------------------------------------------------------------
(* Steps of a thread only move that thread's control and pointer. *)
LEMMA MoveType ==
  ASSUME TypeOK, NEW t \in Thread, NEW from, NEW to \in PC,
         NEW k \in 0 .. NumPrograms, Move(t, from, to, k)
  PROVE  /\ pc' \in [Thread -> PC]
         /\ at' \in [Thread -> 0 .. NumPrograms]
         /\ stale' \in [Thread -> BOOLEAN]
BY DEF TypeOK, Move, Point

LEMMA GotoType ==
  ASSUME TypeOK, NEW t \in Thread, NEW from, NEW to \in PC, Goto(t, from, to)
  PROVE  /\ pc' \in [Thread -> PC]
         /\ at' \in [Thread -> 0 .. NumPrograms]
         /\ stale' \in [Thread -> BOOLEAN]
<1>1. 0 \in 0 .. NumPrograms
  BY ConstantsAssumption
<1>2. CASE to = "idle"
  BY <1>1, <1>2 DEF TypeOK, Goto, Point
<1>3. CASE to # "idle"
  BY <1>3 DEF TypeOK, Goto
<1>4. QED
  BY <1>2, <1>3

LEMMA AssignType ==
  ASSUME TypeOK, NEW t \in Thread, NEW s \in Engine!ProgState, Assign(t, s)
  PROVE  state' \in [Program -> Engine!ProgState \cup {"absent"}]
BY DEF TypeOK, Engine!EngineTypeOK, Assign, SetState

(* TypeOK holds of every behaviour, whoever commands. *)
LEMMA TypeStep == TypeOK /\ [Next]_vars => TypeOK'
<1> SUFFICES ASSUME TypeOK, [Next]_vars PROVE TypeOK'
  OBVIOUS
<1> USE ConstantsAssumption
<1>1. ASSUME NEW t \in Scanner, Scan(t) PROVE TypeOK'
  <2> t \in Thread
    BY DEF Scanner, Thread
  <2>1. CASE ScanBegin(t)
    <3>1. 0 \in 0 .. NumPrograms /\ "READ" \in PC
      BY DEF PC, ScanPC, Phase
    <3>2. QED
      BY <2>1, <3>1, MoveType DEF ScanBegin, TypeOK, Engine!EngineTypeOK
  <2>2. CASE ScanVisit(t)
    <3> PICK q \in Program : Move(t, pc[t], IF state[q] = "RUNNING" /\ pc[t] = "EXECUTE" THEN "EVAL" ELSE pc[t], q)
      BY <2>2 DEF ScanVisit
    <3>1. q \in 0 .. NumPrograms /\ pc[t] \in PC /\ "EVAL" \in PC
      BY DEF TypeOK, Program, PC, ScanPC
    <3>2. QED
      BY <2>2, <3>1, MoveType DEF ScanVisit, TypeOK, Engine!EngineTypeOK
  <2>3. CASE ScanEvaluated(t)
    BY <2>3, GotoType DEF ScanEvaluated, TypeOK, Engine!EngineTypeOK, PC, ScanPC, Phase
  <2>4. CASE ScanPhaseEnd(t)
    <3>1. NextPhase(pc[t]) \in PC /\ pc[t] \in PC
      BY <2>4 DEF ScanPhaseEnd, NextPhase, PC, ScanPC, Phase
    <3>2. 0 \in 0 .. NumPrograms
      OBVIOUS
    <3>3. QED
      BY <2>4, <3>1, <3>2, MoveType DEF ScanPhaseEnd, TypeOK, Engine!EngineTypeOK
  <2>5. QED
    BY <1>1, <2>1, <2>2, <2>3, <2>4 DEF Scan
<1>2. ASSUME NEW p \in Program, Load(p) PROVE TypeOK'
  BY <1>2 DEF Load, SetState, TypeOK, Engine!EngineTypeOK, Engine!ProgState
<1>3. ASSUME NEW t \in Commander, Handler(t) PROVE TypeOK'
  <2> t \in Thread
    BY DEF Thread
  <2>1. CASE RunCheck(t)
    BY <2>1, GotoType DEF RunCheck, TypeOK, Engine!EngineTypeOK, PC, RunPC
  <2>2. CASE RunInit(t)
    BY <2>2, GotoType, AssignType DEF RunInit, TypeOK, Engine!EngineTypeOK, PC, RunPC, Engine!ProgState
  <2>3. CASE RunEngine(t)
    BY <2>3, GotoType DEF RunEngine, TypeOK, Engine!EngineTypeOK, PC, RunPC
  <2>4. CASE RunStart(t)
    BY <2>4, GotoType DEF RunStart, TypeOK, Engine!EngineTypeOK, PC, RunPC
  <2>5. CASE RunCreate(t)
    <3>1. handle' \in TaskId \cup {NULL} /\ alive' \subseteq TaskId
      BY <2>5 DEF RunCreate, TypeOK
    <3>2. QED
      BY <2>5, <3>1, GotoType DEF RunCreate, TypeOK, Engine!EngineTypeOK, PC
  <2>6. CASE Pause(t)
    BY <2>6, GotoType, AssignType DEF Pause, TypeOK, Engine!EngineTypeOK, PC, Engine!ProgState
  <2>7. CASE StopMark(t)
    <3>1. 0 \in 0 .. NumPrograms /\ "check" \in PC
      BY DEF PC, StopPC
    <3>2. state' \in [Program -> Engine!ProgState \cup {"absent"}]
      BY <2>7 DEF StopMark, SetState, TypeOK, Engine!EngineTypeOK, Engine!ProgState
    <3>3. QED
      BY <2>7, <3>1, <3>2, MoveType DEF StopMark, TypeOK, Engine!EngineTypeOK
  <2>8. CASE StopCheck(t)
    <3>1. CASE Goto(t, "check", "halt")
      BY <2>8, <3>1, GotoType DEF StopCheck, TypeOK, Engine!EngineTypeOK, PC, StopPC
    <3>2. CASE Goto(t, "check", "idle")
      BY <2>8, <3>2, GotoType DEF StopCheck, TypeOK, Engine!EngineTypeOK, PC
    <3>3. ASSUME NEW q \in Program, Move(t, "check", "check", q) PROVE TypeOK'
      <4>1. q \in 0 .. NumPrograms /\ "check" \in PC
        BY DEF Program, PC, StopPC
      <4>2. QED
        BY <2>8, <3>3, <4>1, MoveType DEF StopCheck, TypeOK, Engine!EngineTypeOK
    <3>4. QED
      BY <2>8, <3>1, <3>2, <3>3 DEF StopCheck
  <2>9. CASE StopHalt(t)
    BY <2>9, GotoType DEF StopHalt, TypeOK, Engine!EngineTypeOK, PC, StopPC
  <2>10. CASE StopKill(t)
    <3> {"dead", "clear", "idle"} \subseteq PC
      BY DEF PC, StopPC
    <3> 0 \in 0 .. NumPrograms
      OBVIOUS
    <3>1. pc' \in [Thread -> PC]
      BY <2>10 DEF StopKill, TypeOK
    <3>2. at' \in [Thread -> 0 .. NumPrograms]
      BY <2>10 DEF StopKill, TypeOK
    <3>3. stale' \in [Thread -> BOOLEAN]
      BY <2>10 DEF StopKill, TypeOK
    <3>4. QED
      BY <2>10, <3>1, <3>2, <3>3 DEF StopKill, TypeOK, Engine!EngineTypeOK
  <2>11. CASE StopClear(t)
    BY <2>11, GotoType DEF StopClear, TypeOK, Engine!EngineTypeOK, PC
  <2>12. CASE DeleteCheck(t)
    BY <2>12, GotoType DEF DeleteCheck, TypeOK, Engine!EngineTypeOK, PC, DeletePC
  <2>13. CASE DeleteErase(t)
    <3> 0 \in 0 .. NumPrograms /\ "idle" \in PC
      BY DEF PC
    <3>1. stale' \in [Thread -> BOOLEAN]
      BY <2>13 DEF DeleteErase, TypeOK
    <3>2. state' \in [Program -> Engine!ProgState \cup {"absent"}]
      BY <2>13 DEF DeleteErase, SetState, TypeOK, Engine!EngineTypeOK
    <3>3. QED
      BY <2>13, <3>1, <3>2 DEF DeleteErase, TypeOK, Engine!EngineTypeOK
  <2>14. QED
    BY <1>3, <2>1, <2>2, <2>3, <2>4, <2>5, <2>6, <2>7, <2>8, <2>9, <2>10, <2>11,
       <2>12, <2>13 DEF Handler
<1>4. ASSUME NEW t \in Commander, NEW p \in Program, Call(t, p) PROVE TypeOK'
  <2>1. PICK h \in {"run", "pause", "stop", "delete"} : Move(t, "idle", h, p)
    BY <1>4 DEF Call
  <2>2. h \in PC /\ p \in 0 .. NumPrograms /\ t \in Thread
    BY DEF PC, RunPC, StopPC, DeletePC, Program, Thread
  <2>3. QED
    BY <1>4, <2>1, <2>2, MoveType DEF Call, TypeOK, Engine!EngineTypeOK
<1>5. CASE Restart
  BY <1>5 DEF Restart, TypeOK, Engine!EngineTypeOK, PC
<1>6. CASE UNCHANGED vars
  BY <1>6 DEF vars, TypeOK, Engine!EngineTypeOK
<1>7. QED
  BY <1>1, <1>2, <1>3, <1>4, <1>5, <1>6 DEF Next

(* Every variable keeps its type in every behaviour, for any set of        *)
(* commanding threads: no interleaving of the unlocked handlers leaves an  *)
(* undefined program state, engine state or handle.                        *)
THEOREM TypeCorrect == Spec => []TypeOK
<1>1. Init => TypeOK
  BY ConstantsAssumption DEF Init, Engine!EngineInit, TypeOK, Engine!EngineTypeOK, PC
<1>2. QED
  BY <1>1, TypeStep, PTL DEF Spec
------------------------------------------------------------------------------
(* From here on one thread, c, issues all commands. *)
LEMMA ScanLocal ==
  ASSUME TypeOK, NEW c \in {"hub", "web"}, ~stale[c], NEW t \in Scanner, Scan(t)
  PROVE  /\ UNCHANGED <<state, engine, handle, alive>>
         /\ \/ pc'[c] = pc[c] /\ at'[c] = at[c] /\ stale'[c] = stale[c]
            \/ /\ pc[c] \in ScanPC \cup {"idle"}
               /\ pc'[c] \in ScanPC \cup {"idle"}
               /\ ~stale'[c]
<1> c \in Thread /\ t \in Thread
  BY DEF Scanner, Thread
<1>1. UNCHANGED <<state, engine, handle, alive>>
  BY DEF Scan, ScanBegin, ScanVisit, ScanEvaluated, ScanPhaseEnd
<1>2. CASE t # c
  <2>1. pc'[c] = pc[c] /\ at'[c] = at[c] /\ stale'[c] = stale[c]
    BY <1>2 DEF Scan, ScanBegin, ScanVisit, ScanEvaluated, ScanPhaseEnd, Move, Goto,
       Point, TypeOK
  <2>2. QED
    BY <1>1, <2>1
<1>3. CASE t = c
  <2>1. pc[c] \in ScanPC \cup {"idle"}
    BY <1>3 DEF Scan, ScanBegin, ScanVisit, ScanEvaluated, ScanPhaseEnd, Move, Goto, ScanPC
  <2>2. pc'[c] \in ScanPC \cup {"idle"}
    <3>1. CASE ScanBegin(t)
      BY <1>3, <3>1 DEF ScanBegin, Move, TypeOK, ScanPC, Phase
    <3>2. CASE ScanVisit(t)
      BY <1>3, <2>1, <3>2 DEF ScanVisit, Move, TypeOK, ScanPC, Phase
    <3>3. CASE ScanEvaluated(t)
      BY <1>3, <3>3 DEF ScanEvaluated, Goto, TypeOK, ScanPC, Phase
    <3>4. CASE ScanPhaseEnd(t)
      BY <1>3, <3>4 DEF ScanPhaseEnd, Move, NextPhase, TypeOK, ScanPC, Phase
    <3>5. QED
      BY <3>1, <3>2, <3>3, <3>4 DEF Scan
  <2>3. ~stale'[c]
    BY <1>3 DEF Scan, ScanBegin, ScanVisit, ScanEvaluated, ScanPhaseEnd, Move, Goto,
       Point, TypeOK
  <2>4. QED
    BY <1>1, <2>1, <2>2, <2>3
<1>4. QED
  BY <1>2, <1>3

LEMMA ScanKeepsInv ==
  ASSUME TypeOK, NEW c \in {"hub", "web"}, CommandInv(c), EngineInv(c),
         NEW t \in Scanner, Scan(t)
  PROVE  CommandInv(c)' /\ EngineInv(c)'
<1>1. ~stale[c]
  BY DEF CommandInv
<1>2. QED
  BY <1>1, ScanLocal DEF CommandInv, EngineInv, Engine!Loaded, Engine!AllStopped,
     ScanPC, Phase

LEMMA HandlerKeepsInv ==
  ASSUME TypeOK, NEW c \in {"hub", "web"}, Commander = {c},
         CommandInv(c), EngineInv(c), Handler(c)
  PROVE  CommandInv(c)' /\ EngineInv(c)'
<1> c \in Thread
  BY DEF Thread
<1> USE DEF Engine!Loaded, Engine!AllStopped, CommandInv, EngineInv
<1>1. CASE RunCheck(c)
  <2>1. /\ pc[c] = "run" /\ at'[c] = at[c] /\ ~stale'[c]
        /\ pc'[c] = IF state[at[c]] = "RUNNING" THEN "engine" ELSE "init"
    BY <1>1 DEF RunCheck, Goto, TypeOK
  <2>2. UNCHANGED <<state, engine, handle, alive>>
    BY <1>1 DEF RunCheck
  <2>3. QED
    BY <2>1, <2>2
<1>2. CASE RunInit(c)
  <2>1. pc[c] = "init" /\ pc'[c] = "engine" /\ at'[c] = at[c] /\ ~stale'[c]
    BY <1>2 DEF RunInit, Goto, TypeOK
  <2>2. state' = [state EXCEPT ![at[c]] = "RUNNING"]
    BY <1>2 DEF RunInit, Assign, SetState
  <2>3. at[c] \in Program /\ state'[at[c]] = "RUNNING"
    BY <2>1, <2>2 DEF TypeOK, Engine!EngineTypeOK
  <2>4. UNCHANGED <<engine, handle, alive>>
    BY <1>2 DEF RunInit
  <2>5. QED
    BY <2>1, <2>3, <2>4
<1>3. CASE RunEngine(c)
  <2>1. /\ pc[c] = "engine" /\ ~stale'[c]
        /\ \/ engine = "STOPPED" /\ pc'[c] = "start" /\ at'[c] = at[c]
           \/ engine = "RUNNING" /\ pc'[c] = "idle"
    BY <1>3 DEF RunEngine, Goto, Point, TypeOK, Engine!EngineTypeOK
  <2>2. UNCHANGED <<state, engine, handle, alive>>
    BY <1>3 DEF RunEngine
  <2>3. QED
    BY <2>1, <2>2
<1>4. CASE RunStart(c)
  <2>1. pc[c] = "start" /\ pc'[c] = "create" /\ at'[c] = at[c] /\ ~stale'[c]
    BY <1>4 DEF RunStart, Goto, TypeOK
  <2>2. engine' = "RUNNING" /\ UNCHANGED <<state, handle, alive>>
    BY <1>4 DEF RunStart
  <2>3. QED
    BY <2>1, <2>2
<1>5. CASE RunCreate(c)
  <2>1. pc[c] = "create" /\ pc'[c] = "idle" /\ ~stale'[c]
    BY <1>5 DEF RunCreate, Goto, Point, TypeOK
  <2>2. alive = {} /\ handle = NULL /\ engine = "RUNNING"
    BY <2>1
  <2>3. \/ handle' \in TaskId /\ alive' = {handle'}
        \/ handle' = NULL /\ alive' = {}
    BY <1>5, <2>2 DEF RunCreate
  <2>4. UNCHANGED <<state, engine>>
    BY <1>5 DEF RunCreate
  <2>5. alive' = IF handle' = NULL \/ pc'[c] = "clear" THEN {} ELSE {handle'}
    BY <2>1, <2>3, ConstantsAssumption
  <2>6. QED
    BY <2>1, <2>2, <2>4, <2>5
<1>6. CASE Pause(c)
  <2>1. pc[c] = "pause" /\ pc'[c] = "idle" /\ ~stale'[c]
    BY <1>6 DEF Pause, Goto, Point, TypeOK
  <2>2. state' = [state EXCEPT ![at[c]] = "PAUSED"]
    BY <1>6 DEF Pause, Assign, SetState
  <2>3. at[c] \in Program /\ state'[at[c]] = "PAUSED"
    BY <2>1, <2>2 DEF TypeOK, Engine!EngineTypeOK
  <2>4. \A p \in Program : state'[p] = "RUNNING" => state[p] = "RUNNING"
    BY <2>2 DEF TypeOK, Engine!EngineTypeOK
  <2>5. UNCHANGED <<engine, handle, alive>>
    BY <1>6 DEF Pause
  <2>6. QED
    BY <2>1, <2>3, <2>4, <2>5
<1>7. CASE StopMark(c)
  <2>1. pc[c] = "stop" /\ pc'[c] = "check" /\ at'[c] = 0 /\ ~stale'[c]
    BY <1>7 DEF StopMark, Move, Point, TypeOK
  <2>2. \A p \in Program : state'[p] = IF p = at[c] THEN "STOPPED" ELSE state[p]
    BY <1>7 DEF StopMark, SetState, TypeOK, Engine!EngineTypeOK
  <2>3. UNCHANGED <<engine, handle, alive>>
    BY <1>7 DEF StopMark
  <2>4. \A p \in Program : ~(p <= at'[c])
    BY <2>1 DEF Program
  <2>5. QED
    BY <2>1, <2>2, <2>3, <2>4
<1>8. CASE StopCheck(c)
  <2>0. UNCHANGED <<state, engine, handle, alive>> /\ pc[c] = "check"
    BY <1>8 DEF StopCheck, Goto, Move
  <2>1. CASE After(at[c]) = {} /\ Goto(c, "check", "halt")
    <3>1. pc'[c] = "halt" /\ ~stale'[c]
      BY <2>1 DEF Goto, TypeOK
    <3>2. Engine!AllStopped
      <4>1. \A p \in Program : p \in Engine!Loaded => p <= at[c]
        BY <2>1 DEF After, Program, TypeOK
      <4>2. QED
        BY <2>0, <4>1
    <3>3. QED
      BY <2>0, <3>1, <3>2
  <2>2. ASSUME NEW q \in Program, IsNext(q, at[c]), state[q] = "STOPPED",
               Move(c, "check", "check", q)
        PROVE  CommandInv(c)' /\ EngineInv(c)'
    <3>1. pc'[c] = "check" /\ at'[c] = q /\ ~stale'[c]
      BY <2>2 DEF Move, Point, TypeOK
    <3>2. \A p \in Program : p <= q => state[p] \in {"absent", "STOPPED"}
      <4> SUFFICES ASSUME NEW p \in Program, p <= q, state[p] # "absent"
                   PROVE  state[p] = "STOPPED"
        OBVIOUS
      <4>1. CASE p \in After(at[c])
        <5>1. q <= p
          BY <2>2, <4>1 DEF IsNext
        <5>2. p = q
          BY <5>1 DEF Program
        <5>3. QED
          BY <2>2, <5>2
      <4>2. CASE p \notin After(at[c])
        <5>1. p <= at[c]
          BY <4>2 DEF After, Program, TypeOK
        <5>2. QED
          BY <2>0, <5>1
      <4>3. QED
        BY <4>1, <4>2
    <3>3. QED
      BY <2>0, <3>1, <3>2
  <2>3. ASSUME NEW q \in Program, IsNext(q, at[c]), state[q] # "STOPPED",
               Goto(c, "check", "idle")
        PROVE  CommandInv(c)' /\ EngineInv(c)'
    <3>1. pc'[c] = "idle" /\ ~stale'[c]
      BY <2>3 DEF Goto, Point, TypeOK
    <3>2. ~Engine!AllStopped
      BY <2>3 DEF IsNext, After
    <3>3. QED
      BY <2>0, <3>1, <3>2
  <2>4. QED
    BY <1>8, <2>1, <2>2, <2>3 DEF StopCheck
<1>9. CASE StopHalt(c)
  <2>1. /\ pc[c] = "halt" /\ ~stale'[c]
        /\ \/ engine = "STOPPED" /\ pc'[c] = "idle"
           \/ engine = "RUNNING" /\ handle = NULL /\ pc'[c] = "clear"
           \/ engine = "RUNNING" /\ handle # NULL /\ pc'[c] = "kill"
    BY <1>9 DEF StopHalt, Goto, Point, TypeOK, Engine!EngineTypeOK
  <2>2. UNCHANGED <<state, engine, handle, alive>>
    BY <1>9 DEF StopHalt
  <2>3. QED
    BY <2>1, <2>2
<1>10. CASE StopKill(c)
  <2>1. pc[c] = "kill"
    BY <1>10 DEF StopKill
  <2>2. handle \in TaskId /\ handle # c
    BY <2>1, ConstantsAssumption DEF TypeOK
  <2>3. alive' = {} /\ UNCHANGED <<state, engine, handle>>
    BY <1>10, <2>1, <2>2 DEF StopKill
  <2>4. pc'[c] = "clear" /\ ~stale'[c]
    BY <1>10, <2>1, <2>2 DEF StopKill
  <2>5. QED
    BY <2>1, <2>3, <2>4
<1>11. CASE StopClear(c)
  <2>1. pc[c] = "clear" /\ pc'[c] = "idle" /\ ~stale'[c]
    BY <1>11 DEF StopClear, Goto, Point, TypeOK
  <2>2. handle' = NULL /\ engine' = "STOPPED" /\ UNCHANGED <<state, alive>>
    BY <1>11 DEF StopClear
  <2>3. QED
    BY <2>1, <2>2
<1>12. CASE DeleteCheck(c)
  <2>1. /\ pc[c] = "delete" /\ ~stale'[c]
        /\ \/ pc'[c] = "erase" /\ state[at[c]] = "STOPPED" /\ at'[c] = at[c]
           \/ pc'[c] = "idle"
    BY <1>12 DEF DeleteCheck, Goto, Point, TypeOK
  <2>2. UNCHANGED <<state, engine, handle, alive>>
    BY <1>12 DEF DeleteCheck
  <2>3. QED
    BY <2>1, <2>2
<1>13. CASE DeleteErase(c)
  <2>1. pc[c] = "erase" /\ pc'[c] = "idle" /\ ~stale'[c]
    BY <1>13 DEF DeleteErase, TypeOK
  <2>2. \A p \in Program : state'[p] = IF p = at[c] THEN "absent" ELSE state[p]
    BY <1>13 DEF DeleteErase, SetState, TypeOK, Engine!EngineTypeOK
  <2>3. UNCHANGED <<engine, handle, alive>>
    BY <1>13 DEF DeleteErase
  <2>4. QED
    BY <2>1, <2>2, <2>3
<1>14. QED
  BY <1>1, <1>2, <1>3, <1>4, <1>5, <1>6, <1>7, <1>8, <1>9, <1>10, <1>11, <1>12, <1>13
     DEF Handler

(* IInv is inductive when one thread commands. *)
LEMMA InvStep == SoleCommander /\ IInv /\ [Next]_vars => IInv'
<1> SUFFICES ASSUME SoleCommander, IInv, [Next]_vars PROVE IInv'
  OBVIOUS
<1>1. PICK c \in {"hub", "web"} : Commander = {c}
  BY DEF SoleCommander
<1>2. TypeOK /\ CommandInv(c) /\ EngineInv(c) /\ c \in Thread
  BY <1>1 DEF IInv, Thread
<1>3. TypeOK'
  BY <1>2, TypeStep
<1> SUFFICES CommandInv(c)' /\ EngineInv(c)'
  BY <1>1, <1>3 DEF IInv
<1>4. ASSUME NEW t \in Scanner, Scan(t) PROVE CommandInv(c)' /\ EngineInv(c)'
  BY <1>2, <1>4, ScanKeepsInv
<1>5. ASSUME NEW p \in Program, Load(p) PROVE CommandInv(c)' /\ EngineInv(c)'
  <2>1. state[p] = "absent" /\ UNCHANGED <<engine, handle, alive, pc, at, stale>>
    BY <1>5 DEF Load, Engine!Loaded
  <2>2. \A q \in Program : state'[q] = IF q = p THEN "STOPPED" ELSE state[q]
    BY <1>2, <1>5 DEF Load, SetState, TypeOK, Engine!EngineTypeOK
  <2>3. CommandInv(c)'
    BY <1>2, <2>1, <2>2 DEF CommandInv, Engine!Loaded, Engine!AllStopped
  <2>4. EngineInv(c)'
    BY <1>2, <2>1, <2>2 DEF EngineInv, Engine!Loaded, Engine!AllStopped
  <2>5. QED
    BY <2>3, <2>4
<1>6. CASE Handler(c)
  BY <1>1, <1>2, <1>6, HandlerKeepsInv
<1>7. ASSUME NEW p \in Program, Call(c, p) PROVE CommandInv(c)' /\ EngineInv(c)'
  <2>1. /\ p \in Engine!Loaded /\ pc[c] = "idle"
        /\ UNCHANGED <<state, engine, handle, alive>>
    BY <1>7 DEF Call, Move
  <2>2. pc'[c] \in {"run", "pause", "stop", "delete"} /\ at'[c] = p /\ ~stale'[c]
    BY <1>2, <1>7 DEF Call, Move, Point, TypeOK
  <2>3. QED
    BY <1>2, <2>1, <2>2 DEF CommandInv, EngineInv, Engine!Loaded, Engine!AllStopped
<1>8. CASE Restart
  BY <1>2, <1>8 DEF Restart, CommandInv, EngineInv, Engine!Loaded, Engine!AllStopped
<1>9. CASE UNCHANGED vars
  BY <1>2, <1>9 DEF vars, CommandInv, EngineInv, Engine!Loaded, Engine!AllStopped
<1>10. QED
  BY <1>1, <1>4, <1>5, <1>6, <1>7, <1>8, <1>9 DEF Next

LEMMA InvInit == SoleCommander /\ Init => IInv
<1> SUFFICES ASSUME SoleCommander, Init PROVE IInv
  OBVIOUS
<1>1. TypeOK
  BY ConstantsAssumption DEF Init, Engine!EngineInit, TypeOK, Engine!EngineTypeOK, PC
<1>2. ASSUME NEW c \in Commander PROVE CommandInv(c) /\ EngineInv(c)
  BY <1>2, ConstantsAssumption
     DEF Init, Engine!EngineInit, CommandInv, EngineInv, Engine!Loaded, Engine!AllStopped,
         Thread
<1>3. QED
  BY <1>1, <1>2 DEF IInv

(* What one commanding thread may rely on at every point of its handlers. *)
THEOREM Inductive == SoleCommander => (Spec => []IInv)
<1> SUFFICES ASSUME SoleCommander PROVE Spec => []IInv
  OBVIOUS
<1>1. IInv /\ [Next]_vars => IInv'
  BY InvStep
<1>2. Init => IInv
  BY InvInit
<1>3. QED
  BY <1>1, <1>2, PTL DEF Spec
------------------------------------------------------------------------------
(* With one commanding thread the handle names the one task that is alive, *)
(* except for the stop that has just killed it: no order of commands leaks *)
(* a task or leaves a handle to a dead one.                                *)
THEOREM HandleCorrect == SoleCommander => (Spec => []HandleIsTheTask)
<1> SUFFICES ASSUME SoleCommander PROVE Spec => []HandleIsTheTask
  OBVIOUS
<1>1. IInv => HandleIsTheTask
  BY DEF SoleCommander, IInv, EngineInv, HandleIsTheTask
<1>2. QED
  BY <1>1, Inductive, PTL

(* With one commanding thread no task outlives the engine state that       *)
(* stopProgram resets after it has deleted the task.                       *)
THEOREM TaskNeedsEngine == SoleCommander => (Spec => []TaskMeansRunning)
<1> SUFFICES ASSUME SoleCommander PROVE Spec => []TaskMeansRunning
  OBVIOUS
<1>1. IInv => TaskMeansRunning
  BY DEF SoleCommander, IInv, CommandInv, EngineInv, TaskMeansRunning, TypeOK,
     Engine!EngineTypeOK
<1>2. QED
  BY <1>1, Inductive, PTL

(* With one commanding thread stopProgram never calls vTaskDelete(NULL).   *)
THEOREM NoSelfDelete == SoleCommander => (Spec => []NobodyDeletesItself)
<1> SUFFICES ASSUME SoleCommander PROVE Spec => []NobodyDeletesItself
  OBVIOUS
<1>1. IInv => NobodyDeletesItself
  BY DEF SoleCommander, IInv, CommandInv, NobodyDeletesItself
<1>2. QED
  BY <1>1, Inductive, PTL

(* What engineSeen is when c issues all commands. *)
LEMMA Seen ==
  ASSUME NEW c, Commander = {c}
  PROVE  engineSeen =
           IF pc[c] \in {"engine", "start"} THEN "RUNNING"
           ELSE IF pc[c] \in {"check", "halt", "kill", "clear"} /\ Engine!AllStopped
                THEN "STOPPED" ELSE engine
BY DEF engineSeen

(* With one commanding thread a RUNNING program has the engine running     *)
(* behind it, at the points where the handlers take effect.                *)
THEOREM RunningEngine == SoleCommander => (Spec => []RunningHasEngine)
<1> SUFFICES ASSUME SoleCommander PROVE Spec => []RunningHasEngine
  OBVIOUS
<1>1. IInv => RunningHasEngine
  <2> SUFFICES ASSUME IInv PROVE RunningHasEngine
    OBVIOUS
  <2>1. PICK c \in {"hub", "web"} : Commander = {c}
    BY DEF SoleCommander
  <2>2. CommandInv(c) /\ EngineInv(c)
    BY <2>1 DEF IInv
  <2>3. QED
    BY <2>1, <2>2, Seen DEF EngineInv, RunningHasEngine, AtomicEngine!RunningNeedsEngine,
       Engine!AllStopped, Engine!Loaded
<1>2. QED
  BY <1>1, Inductive, PTL

(* With one commanding thread the engine runs only while a program needs   *)
(* it: the last stop takes it down whatever ran before.                    *)
THEOREM EngineUsed == SoleCommander => (Spec => []EngineHasWork)
<1> SUFFICES ASSUME SoleCommander PROVE Spec => []EngineHasWork
  OBVIOUS
<1>1. IInv => EngineHasWork
  <2> SUFFICES ASSUME IInv PROVE EngineHasWork
    OBVIOUS
  <2>1. PICK c \in {"hub", "web"} : Commander = {c}
    BY DEF SoleCommander
  <2>2. CommandInv(c) /\ EngineInv(c)
    BY <2>1 DEF IInv
  <2>3. QED
    BY <2>1, <2>2, Seen DEF CommandInv, EngineInv, EngineHasWork,
       AtomicEngine!EngineNeedsProgram, Engine!AllStopped, Engine!Loaded,
       AtomicEngine!AllStopped, AtomicEngine!Loaded
<1>2. QED
  BY <1>1, Inductive, PTL
------------------------------------------------------------------------------
(* The handlers of c, cut up as they are, take effect in one step each.    *)
LEMMA HandlerImplements ==
  ASSUME TypeOK, NEW c \in {"hub", "web"}, Commander = {c},
         CommandInv(c), EngineInv(c), Handler(c)
  PROVE  AtomicEngine!EngineNext \/ UNCHANGED <<state, engineSeen>>
<1> DEFINE Sees(e, k, all) ==
      IF k \in {"engine", "start"} THEN "RUNNING"
      ELSE IF k \in {"check", "halt", "kill", "clear"} /\ all THEN "STOPPED" ELSE e
<1>0. /\ engineSeen = Sees(engine, pc[c], Engine!AllStopped)
      /\ engineSeen' = Sees(engine', pc'[c], Engine!AllStopped')
  BY DEF engineSeen
<1> c \in Thread
  BY DEF Thread
<1> USE DEF CommandInv, EngineInv, Engine!Loaded
<1>1. CASE RunCheck(c)
  <2>1. /\ pc[c] = "run" /\ UNCHANGED <<state, engine>>
        /\ pc'[c] = IF state[at[c]] = "RUNNING" THEN "engine" ELSE "init"
    BY <1>1 DEF RunCheck, Goto, TypeOK
  <2>2. QED
    BY <1>0, <2>1
<1>2. CASE RunInit(c)
  <2>1. pc[c] = "init" /\ pc'[c] = "engine" /\ ~stale[c]
    BY <1>2 DEF RunInit, Goto, TypeOK
  <2>2. state' = [state EXCEPT ![at[c]] = "RUNNING"]
    BY <1>2, <2>1 DEF RunInit, Assign, SetState
  <2>3. at[c] \in Program /\ state[at[c]] # "absent"
    BY <2>1
  <2>4. AtomicEngine!runProgram(at[c])
    BY <1>0, <2>1, <2>2, <2>3 DEF AtomicEngine!runProgram, AtomicEngine!Loaded
  <2>5. QED
    BY <2>3, <2>4 DEF AtomicEngine!EngineNext
<1>3. CASE RunEngine(c)
  <2>1. /\ pc[c] = "engine" /\ UNCHANGED <<state, engine>>
        /\ pc'[c] = "start" \/ (pc'[c] = "idle" /\ engine = "RUNNING")
    <3>1. pc[c] = "engine" /\ UNCHANGED <<state, engine>>
      BY <1>3 DEF RunEngine, Goto
    <3>2. pc'[c] = IF engine = "STOPPED" THEN "start" ELSE "idle"
      BY <1>3 DEF RunEngine, Goto, TypeOK
    <3>3. QED
      BY <3>1, <3>2 DEF TypeOK, Engine!EngineTypeOK
  <2>2. QED
    BY <1>0, <2>1
<1>4. CASE RunStart(c)
  <2>1. pc[c] = "start" /\ pc'[c] = "create" /\ engine' = "RUNNING" /\ state' = state
    BY <1>4 DEF RunStart, Goto, TypeOK
  <2>2. QED
    BY <1>0, <2>1
<1>5. CASE RunCreate(c)
  <2>1. pc[c] = "create" /\ pc'[c] = "idle" /\ UNCHANGED <<state, engine>>
    BY <1>5 DEF RunCreate, Goto, TypeOK
  <2>2. QED
    BY <1>0, <2>1
<1>6. CASE Pause(c)
  <2>1. pc[c] = "pause" /\ pc'[c] = "idle" /\ ~stale[c] /\ engine' = engine
    BY <1>6 DEF Pause, Goto, TypeOK
  <2>2. state' = [state EXCEPT ![at[c]] = "PAUSED"]
    BY <1>6, <2>1 DEF Pause, Assign, SetState
  <2>3. at[c] \in Program /\ state[at[c]] # "absent"
    BY <2>1
  <2>4. AtomicEngine!pauseProgram(at[c])
    BY <1>0, <2>1, <2>2, <2>3 DEF AtomicEngine!pauseProgram, AtomicEngine!Loaded
  <2>5. QED
    BY <2>3, <2>4 DEF AtomicEngine!EngineNext
<1>7. CASE StopMark(c)
  <2>1. pc[c] = "stop" /\ pc'[c] = "check" /\ engine' = engine
    BY <1>7 DEF StopMark, Move, TypeOK
  <2>2. state' = [state EXCEPT ![at[c]] = "STOPPED"]
    BY <1>7 DEF StopMark, SetState
  <2>3. at[c] \in Program /\ state[at[c]] # "absent"
    BY <2>1
  <2>4. Engine!AllStopped' = AtomicEngine!AllStopped'
    BY DEF Engine!AllStopped, AtomicEngine!AllStopped, AtomicEngine!Loaded
  <2>5. AtomicEngine!stopProgram(at[c])
    BY <1>0, <2>1, <2>2, <2>3, <2>4 DEF AtomicEngine!stopProgram, AtomicEngine!Loaded
  <2>6. QED
    BY <2>3, <2>5 DEF AtomicEngine!EngineNext
<1>8. CASE StopCheck(c)
  <2>1. /\ pc[c] = "check" /\ UNCHANGED <<state, engine>>
        /\ pc'[c] \in {"check", "halt"} \/ (pc'[c] = "idle" /\ ~Engine!AllStopped)
    <3>0. UNCHANGED <<state, engine>>
      BY <1>8 DEF StopCheck
    <3>1. CASE After(at[c]) = {} /\ Goto(c, "check", "halt")
      BY <3>0, <3>1 DEF Goto, TypeOK
    <3>2. ASSUME NEW q \in Program, Move(c, "check", "check", q)
          PROVE  pc[c] = "check" /\ pc'[c] = "check"
      BY <3>2 DEF Move, TypeOK
    <3>3. ASSUME NEW q \in Program, IsNext(q, at[c]), state[q] # "STOPPED",
                 Goto(c, "check", "idle")
          PROVE  pc[c] = "check" /\ pc'[c] = "idle" /\ ~Engine!AllStopped
      <4>1. ~Engine!AllStopped
        BY <3>3 DEF IsNext, After, Engine!AllStopped
      <4>2. pc[c] = "check" /\ pc'[c] = "idle"
        BY <3>3 DEF Goto, TypeOK
      <4>3. QED
        BY <4>1, <4>2
    <3>4. QED
      BY <1>8, <3>0, <3>1, <3>2, <3>3 DEF StopCheck
  <2>2. Engine!AllStopped' = Engine!AllStopped
    BY <2>1 DEF Engine!AllStopped
  <2>3. QED
    BY <1>0, <2>1, <2>2
<1>9. CASE StopHalt(c)
  <2>1. /\ pc[c] = "halt" /\ UNCHANGED <<state, engine>>
        /\ pc'[c] \in {"clear", "kill"} \/ (pc'[c] = "idle" /\ engine = "STOPPED")
    <3>1. pc[c] = "halt" /\ UNCHANGED <<state, engine>>
      BY <1>9 DEF StopHalt, Goto
    <3>2. pc'[c] = IF engine = "STOPPED" THEN "idle"
                   ELSE IF handle = NULL THEN "clear" ELSE "kill"
      BY <1>9 DEF StopHalt, Goto, TypeOK
    <3>3. QED
      BY <3>1, <3>2
  <2>2. Engine!AllStopped' = Engine!AllStopped
    BY <2>1 DEF Engine!AllStopped
  <2>3. QED
    BY <1>0, <2>1, <2>2
<1>10. CASE StopKill(c)
  <2>1. pc[c] = "kill" /\ pc'[c] = "clear" /\ UNCHANGED <<state, engine>>
    BY <1>10 DEF StopKill
  <2>2. Engine!AllStopped' = Engine!AllStopped
    BY <2>1 DEF Engine!AllStopped
  <2>3. QED
    BY <1>0, <2>1, <2>2
<1>11. CASE StopClear(c)
  <2>1. pc[c] = "clear" /\ pc'[c] = "idle" /\ engine' = "STOPPED" /\ state' = state
    BY <1>11 DEF StopClear, Goto, TypeOK
  <2>2. QED
    BY <1>0, <2>1
<1>12. CASE DeleteCheck(c)
  <2>1. /\ pc[c] = "delete" /\ pc'[c] \in {"erase", "idle"}
        /\ UNCHANGED <<state, engine>>
    BY <1>12 DEF DeleteCheck, Goto, TypeOK
  <2>2. QED
    BY <1>0, <2>1
<1>13. CASE DeleteErase(c)
  <2>1. pc[c] = "erase" /\ pc'[c] = "idle" /\ engine' = engine
    BY <1>13 DEF DeleteErase, TypeOK
  <2>2. state' = [state EXCEPT ![at[c]] = "absent"]
    BY <1>13 DEF DeleteErase, SetState
  <2>3. at[c] \in Program /\ state[at[c]] = "STOPPED"
    BY <2>1
  <2>4. AtomicEngine!deleteProgram(at[c])
    BY <1>0, <2>1, <2>2, <2>3 DEF AtomicEngine!deleteProgram
  <2>5. QED
    BY <2>3, <2>4 DEF AtomicEngine!EngineNext
<1>14. QED
  BY <1>1, <1>2, <1>3, <1>4, <1>5, <1>6, <1>7, <1>8, <1>9, <1>10, <1>11, <1>12, <1>13
     DEF Handler

LEMMA StepImplements ==
  ASSUME SoleCommander, IInv, [Next]_vars
  PROVE  AtomicEngine!EngineNext \/ UNCHANGED <<state, engineSeen>>
<1>1. PICK c \in {"hub", "web"} : Commander = {c}
  BY DEF SoleCommander
<1>2. TypeOK /\ CommandInv(c) /\ EngineInv(c) /\ c \in Thread
  BY <1>1 DEF IInv, Thread
<1>3. ASSUME NEW t \in Scanner, Scan(t) PROVE UNCHANGED <<state, engineSeen>>
  <2>1. ~stale[c]
    BY <1>2 DEF CommandInv
  <2>2. UNCHANGED <<state, engine>>
    BY <1>2, <1>3, <2>1, ScanLocal
  <2>3. pc'[c] = pc[c] \/ {pc[c], pc'[c]} \subseteq ScanPC \cup {"idle"}
    BY <1>2, <1>3, <2>1, ScanLocal
  <2>4. QED
    BY <1>1, <2>2, <2>3
       DEF engineSeen, ScanPC, Phase, Engine!AllStopped, Engine!Loaded
<1>4. ASSUME NEW p \in Program, Load(p) PROVE AtomicEngine!EngineNext
  <2>1. /\ state[p] = "absent" /\ UNCHANGED <<engine, pc>>
        /\ state' = [state EXCEPT ![p] = "STOPPED"]
    BY <1>4 DEF Load, SetState, Engine!Loaded
  <2>2. Engine!AllStopped' = Engine!AllStopped
    BY <1>2, <2>1 DEF Engine!AllStopped, Engine!Loaded, TypeOK, Engine!EngineTypeOK
  <2>3. engineSeen' = engineSeen
    BY <2>1, <2>2 DEF engineSeen
  <2>4. AtomicEngine!loadProgram(p)
    BY <2>1, <2>3 DEF AtomicEngine!loadProgram, AtomicEngine!Loaded
  <2>5. QED
    BY <2>4 DEF AtomicEngine!EngineNext
<1>5. CASE Handler(c)
  BY <1>1, <1>2, <1>5, HandlerImplements
<1>6. ASSUME NEW p \in Program, Call(c, p) PROVE UNCHANGED <<state, engineSeen>>
  <2>1. pc[c] = "idle" /\ UNCHANGED <<state, engine>>
    BY <1>6 DEF Call, Move
  <2>2. pc'[c] \in {"run", "pause", "stop", "delete"}
    BY <1>2, <1>6 DEF Call, Move, TypeOK
  <2>3. QED
    BY <1>1, <2>1, <2>2 DEF engineSeen
<1>7. ASSUME Restart PROVE AtomicEngine!EngineNext
  <2>1. pc'[c] = "idle" /\ engine' = "STOPPED" /\ state' = [p \in Program |-> "absent"]
    BY <1>2, <1>7 DEF Restart
  <2>2. engineSeen' = "STOPPED"
    BY <1>1, <2>1 DEF engineSeen
  <2>3. QED
    BY <2>1, <2>2 DEF AtomicEngine!EngineNext, AtomicEngine!restartEsp
<1>8. CASE UNCHANGED vars
  BY <1>8 DEF vars, engineSeen, Engine!AllStopped, Engine!Loaded
<1>9. QED
  BY <1>1, <1>3, <1>4, <1>5, <1>6, <1>7, <1>8 DEF Next

(* With one commanding thread the unlocked, interrupted handlers implement *)
(* the atomic PlcEngine, whatever the scanning tasks do in between.        *)
THEOREM Refinement == SoleCommander => (Spec => HandlersLookAtomic)
<1> SUFFICES ASSUME SoleCommander PROVE Spec => HandlersLookAtomic
  OBVIOUS
<1>1. Init => AtomicEngine!EngineInit
  BY ConstantsAssumption
     DEF SoleCommander, Init, Engine!EngineInit, AtomicEngine!EngineInit, engineSeen,
         Engine!AllStopped, Engine!Loaded, Thread
<1>2. IInv /\ [Next]_vars => [AtomicEngine!EngineNext]_(AtomicEngine!engineVars)
  BY StepImplements DEF AtomicEngine!engineVars
<1>3. QED
  BY <1>1, <1>2, Inductive, PTL DEF Spec, HandlersLookAtomic, AtomicEngine!EngineSpec
==============================================================================
