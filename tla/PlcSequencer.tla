---------------------------- MODULE PlcSequencer -----------------------------
(***************************************************************************)
(* The sequencer block of a PLC program: in each scan it carries out the   *)
(* actions of its step, which it leaves for the next one, and the last one *)
(* for the first, when the step's condition holds or its timeout is over.  *)
(***************************************************************************)
EXTENDS Integers, Sequences

CONSTANTS
  Timeouts,   \* the timeout of each step, 0 for none
  Clock,      \* millis() counts modulo this
  MaxPause    \* bound on the time between two scans

(* A scan comes before millis() laps a running timeout. *)
ASSUME SequencerAssumption ==
  /\ Timeouts \in Seq(Nat) /\ Len(Timeouts) > 0
  /\ Clock \in Nat /\ MaxPause \in Nat
  /\ \A i \in DOMAIN Timeouts : Timeouts[i] + 2 * MaxPause < Clock

VARIABLES
  current_step, step_start_time,   \* of each step
  condition,                  \* the condition variable of the current step
  done, active,               \* outputs
  now, pause,                 \* millis() and the time since the last scan
  age, clean                  \* (history) see below

sequencerVars ==
  <<current_step, step_start_time, condition, done, active, now, pause,
    age, clean>>

Steps == DOMAIN Timeouts
Ages == 0 .. Clock

(* History: the time since the first scan of the current step, Clock if it *)
(* has had none, and the steps that were left, or first found, without a   *)
(* start time.                                                             *)
SequencerTypeOK ==
  /\ current_step \in Steps
  /\ step_start_time \in [Steps -> 0 .. Clock - 1]
  /\ {condition, done, active} \subseteq BOOLEAN
  /\ now \in 0 .. Clock - 1
  /\ pause \in 0 .. MaxPause
  /\ age \in Ages
  /\ clean \subseteq Steps

(* configure() leaves the start times of the steps as it finds them in     *)
(* memory: 0 or anything else.                                             *)
SequencerInit ==
  /\ current_step = 1
  /\ step_start_time \in [Steps -> 0 .. Clock - 1]
  /\ condition = FALSE /\ done = FALSE /\ active = FALSE
  /\ now \in 0 .. Clock - 1
  /\ pause = 0
  /\ age = Clock /\ clean = {s \in Steps : step_start_time[s] = 0}
------------------------------------------------------------------------------
(* The first scan of a step notes the time; a time of 0 is not noted. *)
Begun(s) ==
  IF step_start_time[s] = 0 THEN now ELSE step_start_time[s]
Elapsed(s) == (now + Clock - Begun(s)) % Clock

TimedOut(s) == Timeouts[s] > 0 /\ Elapsed(s) >= Timeouts[s]
Leaves(s) == condition \/ TimedOut(s)

Following(s) == IF s = Len(Timeouts) THEN 1 ELSE s + 1

(* As if a step kept its start time when it is left. *)
RestartNever(s) ==
  step_start_time' =
    [step_start_time EXCEPT ![s] = IF Timeouts[s] > 0 THEN Begun(s) ELSE @]

Restart(s) ==
  step_start_time' =
    [step_start_time EXCEPT ![s] = IF Leaves(s) THEN 0
                              ELSE IF Timeouts[s] > 0 THEN Begun(s)
                              ELSE @]

Sequence ==
  LET s == current_step
  IN  /\ Restart(s)
      /\ current_step' = IF Leaves(s) THEN Following(s) ELSE s
      /\ done' = (Leaves(s) /\ Following(s) = 1)
      /\ active' = ~done'

(* What a program sees of it when a step is left; the only step of a       *)
(* sequence follows itself.                                                *)
StepEnds == current_step' # current_step \/ done'

(* The actions of the step come first and may change the condition. *)
SequencerScan ==
  /\ Sequence
  /\ pause' = 0
  /\ IF StepEnds
       THEN age' = Clock /\ clean' = clean \cup {current_step}
       ELSE age' = (IF age = Clock THEN 0 ELSE age) /\ UNCHANGED clean
  /\ UNCHANGED <<condition, now>>

ConditionChanges ==
  /\ condition' = ~condition
  /\ UNCHANGED <<current_step, step_start_time, done, active, now, pause,
                 age, clean>>

(* A step is not watched for longer than the clock goes round. *)
SequencerTick ==
  /\ pause < MaxPause
  /\ pause' = pause + 1
  /\ now' = (now + 1) % Clock
  /\ age' = IF age < Clock - 1 THEN age + 1 ELSE age
  /\ UNCHANGED <<current_step, step_start_time, condition, done, active,
                 clean>>

SequencerNext == SequencerScan \/ ConditionChanges \/ SequencerTick

SequencerSpec == SequencerInit /\ [][SequencerNext]_sequencerVars
------------------------------------------------------------------------------
(* SequencerStep ("Timeout for this step"): a step whose turn began        *)
(* without a start time, and whose condition does not hold, is left once   *)
(* its timeout has passed since its first scan, wherever millis() stands,  *)
(* and at most the time between two scans later if that first scan was at  *)
(* millis() = 0.  This holds from every step's second turn on, and of the  *)
(* first turn only if configure() found a 0 in memory.                     *)
StepTimeout ==
  [][SequencerScan /\ current_step \in clean /\ ~condition =>
       LET timeout == Timeouts[current_step]
           since == IF age = Clock THEN 0 ELSE age
       IN  /\ StepEnds => timeout > 0 /\ since >= timeout
           /\ timeout > 0 /\ since >= timeout + MaxPause => StepEnds
       ]_sequencerVars
==============================================================================
