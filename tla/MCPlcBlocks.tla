----------------------------- MODULE MCPlcBlocks -----------------------------
(* A program with one block: a timer, a counter or latch, a sequencer, a   *)
(* status block or one without a state; or the ring of the event history   *)
(* alone.  What is not there stands still.                                 *)
EXTENDS PlcTimers, PlcCounters, PlcSequencer, PlcStatus, PlcFunctions,
        EventHistory

VARIABLE block_type

MCPV == {-1, 0, 1, 3}
MCTimeouts == <<2, 0, 1>>

BlocksTypeOK ==
  /\ block_type \in {"timer", "counter", "sequencer", "status", "function",
                    "history"}
  /\ TypeOK
  /\ CountersTypeOK
  /\ SequencerTypeOK
  /\ StatusTypeOK
  /\ FunctionsTypeOK
  /\ HistoryTypeOK

NoTimer == kind = "TON" /\ preset_time = 0 /\ in = FALSE /\ millis = 0
NoCounter == counter = "CTU" /\ pv = 0
NoSequencer == now = 0 /\ step_start_time = [s \in Steps |-> 0]
NoStatus == endpoint_name = NoName
NoFunction == function = "NOT" /\ input_vars = <<FALSE>>

BlocksInit ==
  /\ block_type \in {"timer", "counter", "sequencer", "status", "function",
                     "history"}
  /\ block_type = "timer" \/ NoTimer
  /\ block_type = "counter" \/ NoCounter
  /\ block_type = "sequencer" \/ NoSequencer
  /\ block_type = "status" \/ NoStatus
  /\ block_type = "function" \/ NoFunction
  /\ Init /\ CountersInit /\ SequencerInit /\ StatusInit /\ FunctionsInit
  /\ HistoryInit

BlocksNext ==
  /\ UNCHANGED block_type
  /\ \/ block_type = "timer" /\ Next
     \/ block_type # "timer" /\ UNCHANGED vars
  /\ \/ block_type = "counter" /\ CountersNext
     \/ block_type # "counter" /\ UNCHANGED counterVars
  /\ \/ block_type = "sequencer" /\ SequencerNext
     \/ block_type # "sequencer" /\ UNCHANGED sequencerVars
  /\ \/ block_type = "status" /\ StatusNext
     \/ block_type # "status" /\ UNCHANGED statusVars
  /\ \/ block_type = "function" /\ FunctionsNext
     \/ block_type # "function" /\ UNCHANGED functionVars
  /\ \/ block_type = "history" /\ HistoryNext
     \/ block_type # "history" /\ UNCHANGED historyVars

blocksVars ==
  <<block_type, vars, counterVars, sequencerVars, statusVars,
    functionVars, historyVars>>

(* TON, TOF and TP keep their time: the output follows the input after the *)
(* preset time and no earlier, falls after it, or lasts that long.         *)
TimersKeepTime == OnDelay /\ OffDelay /\ Pulse

BlocksSpec == BlocksInit /\ [][BlocksNext]_blocksVars
==============================================================================
