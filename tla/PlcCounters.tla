----------------------------- MODULE PlcCounters -----------------------------
(***************************************************************************)
(* The counter blocks of a PLC program, up (CTU), down (CTD) and both ways *)
(* (CTUD), and its latches (SR, RS).  The count is a variable of the       *)
(* program's memory and outlives the block's own state, the level of the   *)
(* inputs at the last scan.                                                *)
(***************************************************************************)
EXTENDS Integers

CONSTANTS
  PV,         \* preset values, an int16: some may be negative
  MaxCount    \* the largest int16, 32767 in the code

ASSUME CountersAssumption ==
  /\ MaxCount \in Nat
  /\ PV \subseteq -(MaxCount + 1) .. MaxCount

VARIABLES
  counter,                        \* which block it is
  cu, cd, load, reset, pv,        \* its inputs; a latch is set by cu
  cv, qu, qd,                     \* its outputs; a latch has qu
  last_cu_state, last_cd_state,
  base, net, ups                  \* (history) see below

inputs == <<cu, cd, load, reset, pv>>
outputs == <<cv, qu, qd>>
lastState == <<last_cu_state, last_cd_state>>
history == <<base, net, ups>>
counterVars == <<counter, inputs, outputs, lastState, history>>

(* History: the count at the last reset or load; of the pulses since, those *)
(* up that met a count below the preset less those down that met one above *)
(* zero; and all those up, as far as a count can tell.                     *)
CountersTypeOK ==
  /\ counter \in {"CTU", "CTD", "CTUD", "SR", "RS"}
  /\ {cu, cd, load, reset} \subseteq BOOLEAN /\ pv \in PV
  /\ cv \in -(MaxCount + 1) .. MaxCount
  /\ {qu, qd} \subseteq BOOLEAN
  /\ {last_cu_state, last_cd_state} \subseteq BOOLEAN
  /\ base \in PV \cup {0}
  /\ net \in Int
  /\ ups \in 0 .. MaxCount

CountersInit ==
  /\ counter \in {"CTU", "CTD", "CTUD", "SR", "RS"}
  /\ cu = FALSE /\ cd = FALSE /\ load = FALSE /\ reset = FALSE
  /\ pv \in PV
  /\ cv = 0 /\ qu = FALSE /\ qd = FALSE
  /\ last_cu_state = FALSE /\ last_cd_state = FALSE
  /\ base = 0 /\ net = 0 /\ ups = 0
------------------------------------------------------------------------------
(* As if every scan with the input high were a pulse. *)
Level(input, lastInput) == input

Edge(input, lastInput) == input /\ ~lastInput

Up(pulse, c) == IF pulse /\ c < pv THEN c + 1 ELSE c
Down(pulse, c) == IF pulse /\ c > 0 THEN c - 1 ELSE c

upPulse == Edge(cu, last_cu_state)
downPulse == Edge(cd, last_cd_state)

CTU ==
  /\ cv' = IF reset THEN 0 ELSE Up(upPulse, cv)
  /\ qu' = (cv' >= pv)
  /\ last_cu_state' = cu
  /\ UNCHANGED <<qd, last_cd_state>>

(* A negative preset is loaded as it is, and then never reads as empty. *)
CTD ==
  /\ cv' = IF load THEN pv ELSE Down(downPulse, cv)
  /\ qd' = (cv' = 0)
  /\ last_cd_state' = cd
  /\ UNCHANGED <<qu, last_cu_state>>

CTUD ==
  /\ cv' = IF reset THEN 0
           ELSE IF load THEN pv
           ELSE Down(downPulse, Up(upPulse, cv))
  /\ qu' = (cv' >= pv) /\ qd' = (cv' <= 0)
  /\ last_cu_state' = cu /\ last_cd_state' = cd

SR ==
  /\ qu' = (~reset /\ (cu \/ qu))
  /\ UNCHANGED <<cv, qd, lastState>>

RS ==
  /\ qu' = (cu \/ (~reset /\ qu))
  /\ UNCHANGED <<cv, qd, lastState>>

evaluateCounter ==
  \/ counter = "CTU" /\ CTU
  \/ counter = "CTD" /\ CTD
  \/ counter = "CTUD" /\ CTUD
  \/ counter = "SR" /\ SR
  \/ counter = "RS" /\ RS

(* The pulses of each direction in this scan, as the block has the input:  *)
(* a pulse up below the preset counts, and then a pulse down above zero.   *)
PulseUp == counter # "CTD" /\ cu /\ ~last_cu_state
PulseDown == counter # "CTU" /\ cd /\ ~last_cd_state
Ups == IF PulseUp /\ cv < pv THEN 1 ELSE 0
Downs == IF PulseDown /\ cv + Ups > 0 THEN 1 ELSE 0

Latch == counter \in {"SR", "RS"}
Emptied == counter # "CTD" /\ reset
Loaded == counter # "CTU" /\ load /\ ~Emptied

CounterScan ==
  /\ evaluateCounter
  /\ \/ Latch /\ UNCHANGED history
     \/ /\ ~Latch /\ (Emptied \/ Loaded)
        /\ base' = (IF Emptied THEN 0 ELSE pv)
        /\ net' = 0 /\ ups' = 0
     \/ /\ ~Latch /\ ~Emptied /\ ~Loaded
        /\ net' = net + Ups - Downs
        /\ ups' = IF PulseUp /\ ups < MaxCount THEN ups + 1 ELSE ups
        /\ UNCHANGED base
  /\ UNCHANGED <<counter, inputs>>

(* New readings, or other blocks of the program, before the next scan. *)
CounterInput ==
  /\ \/ cu' = ~cu /\ UNCHANGED <<cd, load, reset, pv>>
     \/ cd' = ~cd /\ UNCHANGED <<cu, load, reset, pv>>
     \/ load' = ~load /\ UNCHANGED <<cu, cd, reset, pv>>
     \/ reset' = ~reset /\ UNCHANGED <<cu, cd, load, pv>>
     \/ pv' \in PV \ {pv} /\ UNCHANGED <<cu, cd, load, reset>>
  /\ UNCHANGED <<counter, outputs, lastState, history>>

CountersNext == CounterScan \/ CounterInput

CountersSpec == CountersInit /\ [][CountersNext]_counterVars
------------------------------------------------------------------------------
(* BlockCTU, BlockCTD, BlockCTUD: each pulse is counted once, however many *)
(* scans it lasts and whatever becomes of the preset in between; but a     *)
(* pulse up that finds the count at the preset or above, even with a pulse *)
(* down in the same scan, and a pulse down that finds it at zero or below  *)
(* are not, so that the count stays where it is.                           *)
CountsPulses == cv = base + net

(* test_counter_blocks.cpp:63-69, "Count 4 (Above PV)", with a preset of   *)
(* 3: an up counter goes on counting pulses when it has reached its        *)
(* preset, as far as an int16 goes.                                        *)
CountsAbovePV == counter = "CTU" => cv >= ups
==============================================================================
