------------------------------ MODULE PlcTimers ------------------------------
(***************************************************************************)
(* The timer blocks of a PLC program: on delay (TON), off delay (TOF) and  *)
(* pulse (TP).  A block only sees its input and millis() when a scan       *)
(* evaluates it; between two scans the input may change any number of      *)
(* times, and the program may be paused.                                   *)
(***************************************************************************)
EXTENDS Naturals

CONSTANTS
  Preset,   \* preset or pulse times a block may be configured with
  Wrap,     \* millis() counts modulo this
  MaxGap    \* bound on the time between two scans

(* A scan comes before millis() laps a running timer. *)
ASSUME TimersAssumption ==
  /\ Wrap \in Nat /\ MaxGap \in Nat
  /\ Preset \subseteq Nat
  /\ \A p \in Preset : p + MaxGap < Wrap

VARIABLES
  kind, preset_time,           \* the block, as configured
  in,                          \* its input variable
  q, et,                       \* its output variables
  timing, start_time, last_input_state,
  millis,
  gap,                         \* time since the last scan
  high, rose, fell             \* (history) see below

block == <<kind, preset_time>>
state == <<q, et, timing, start_time, last_input_state>>
vars == <<block, in, state, millis, gap, high, rose, fell>>

(* History: the time since a scan first saw the input high and every scan  *)
(* since, since a scan saw it rise, and since a scan saw it fall.  Long    *)
(* ago and never are Wrap.                                                 *)
Age == 0 .. Wrap
Older(a) == IF a < Wrap THEN a + 1 ELSE Wrap

TypeOK ==
  /\ kind \in {"TON", "TOF", "TP"}
  /\ preset_time \in Preset
  /\ {in, q, timing, last_input_state} \subseteq BOOLEAN
  /\ start_time \in 0 .. Wrap - 1
  /\ millis \in 0 .. Wrap - 1
  /\ et \in 0 .. preset_time
  /\ gap \in 0 .. MaxGap
  /\ {high, rose, fell} \subseteq Age

Init ==
  /\ kind \in {"TON", "TOF", "TP"}
  /\ preset_time \in Preset
  /\ in \in BOOLEAN
  /\ q = FALSE /\ et = 0
  /\ timing = FALSE /\ start_time = 0 /\ last_input_state = FALSE
  /\ millis \in 0 .. Wrap - 1
  /\ gap = 0
  /\ high = 0 /\ rose = Wrap /\ fell = Wrap
------------------------------------------------------------------------------
Since(t) == (millis + Wrap - t) % Wrap

Rising == in /\ ~last_input_state
Falling == ~in /\ last_input_state

(* The common shape: an edge (re)starts the timer, and a running timer     *)
(* shows how far it has come.                                              *)
Started(edge) == IF edge THEN millis ELSE start_time
Over(edge) == Since(Started(edge)) >= preset_time

(* As if the elapsed time were not cut at the preset. *)
ShownUncut(edge) == Since(Started(edge))

Shown(edge) == IF Over(edge) THEN preset_time ELSE Since(Started(edge))

(* As if a low input did not stop the timer. *)
TONKeepsTiming ==
  LET edge == in /\ ~timing
  IN  /\ timing' = (timing \/ in)
      /\ start_time' = Started(edge)
      /\ q' = (in /\ (q \/ Over(edge)))
      /\ et' = IF in THEN Shown(edge) ELSE 0
      /\ UNCHANGED last_input_state

TON ==
  LET edge == in /\ ~timing
  IN  /\ timing' = in
      /\ start_time' = Started(edge)
      /\ q' = (in /\ (q \/ Over(edge)))
      /\ et' = IF in THEN Shown(edge) ELSE 0
      /\ UNCHANGED last_input_state

(* A rising edge does not stop the timer, and its end switches q off even  *)
(* if the input has come back.                                             *)
TOF ==
  LET running == timing \/ Falling
  IN  /\ timing' = (running /\ ~Over(Falling))
      /\ start_time' = Started(Falling)
      /\ q' = IF running THEN ~Over(Falling) ELSE in
      /\ et' = IF running THEN Shown(Falling) ELSE 0
      /\ last_input_state' = in

(* A rising edge during the pulse starts it again. *)
TP ==
  LET running == timing \/ Rising
  IN  /\ timing' = (running /\ ~Over(Rising))
      /\ start_time' = Started(Rising)
      /\ q' = ((q \/ Rising) /\ ~(running /\ Over(Rising)))
      /\ et' = IF running THEN Shown(Rising) ELSE 0
      /\ last_input_state' = in

evaluate ==
  \/ kind = "TON" /\ TON
  \/ kind = "TOF" /\ TOF
  \/ kind = "TP" /\ TP

(* What the scans have seen; a TON has its own last input in timing. *)
last == IF kind = "TON" THEN timing ELSE last_input_state

Scan ==
  /\ evaluate
  /\ gap' = 0
  /\ high' = IF in /\ last THEN high ELSE 0
  /\ rose' = IF in /\ ~last THEN 0 ELSE rose
  /\ fell' = IF ~in /\ last THEN 0 ELSE fell
  /\ UNCHANGED <<block, in, millis>>

(* A new reading of the input, or another block writes the variable. *)
InputChanges ==
  /\ in' = ~in
  /\ UNCHANGED <<block, state, millis, gap, high, rose, fell>>

Tick ==
  /\ gap < MaxGap
  /\ gap' = gap + 1
  /\ millis' = (millis + 1) % Wrap
  /\ high' = Older(high) /\ rose' = Older(rose) /\ fell' = Older(fell)
  /\ UNCHANGED <<block, in, state>>

Next == Scan \/ InputChanges \/ Tick

Spec == Init /\ [][Next]_vars
------------------------------------------------------------------------------
(* BlockTON ("Timer ON Delay"): a scan switches q on exactly when every    *)
(* scan for the preset time has seen the input high, wherever millis()     *)
(* stands, and keeps it on when millis() laps the start time.              *)
OnDelay == [][Scan /\ kind = "TON" => (q' <=> in /\ high' >= preset_time)]_vars

(* BlockTOF ("Timer OFF Delay"): q never falls sooner than the preset time *)
(* after the last falling edge a scan saw, and with the input low it does  *)
(* not stay on longer.                                                     *)
OffDelay ==
  [][Scan /\ kind = "TOF" => /\ q' \/ fell' >= preset_time
                             /\ q' => in \/ fell' < preset_time]_vars

(* BlockTP ("Pulse Timer"): q is on for the pulse time after the last      *)
(* rising edge a scan saw, and at no other time.                           *)
Pulse == [][Scan /\ kind = "TP" => (q' <=> rose' < preset_time)]_vars
==============================================================================
