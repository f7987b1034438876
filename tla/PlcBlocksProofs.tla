--------------------------- MODULE PlcBlocksProofs ---------------------------
(***************************************************************************)
(* The blocks, for any presets, timeouts and endpoints, any range of       *)
(* millis() and any widths of the integers: timers and steps keep their    *)
(* time, counters count each pulse once, the triggers of the status block  *)
(* follow changes, and the blocks without a state write what their names   *)
(* say.                                                                    *)
(***************************************************************************)
EXTENDS MCPlcBlocks, FiniteSetTheorems, WellFoundedInduction, TLAPS

(* A remainder where at most one lap is to be added or taken away. *)
LEMMA Lap ==
  ASSUME NEW N \in Nat \ {0}, NEW x \in -(N - 1) .. 2 * N - 1
  PROVE  /\ x % N = IF x < 0 THEN x + N ELSE IF x < N THEN x ELSE x - N
         /\ x % N \in 0 .. N - 1
OBVIOUS

(* Readings of a clock that wraps at N: the ticks from t to m, and what    *)
(* one tick more makes of them.                                            *)
LEMMA Laps ==
  ASSUME NEW N \in Nat \ {0}, NEW m \in 0 .. N - 1, NEW t \in 0 .. N - 1
  PROVE  /\ (m + N - t) % N = IF t <= m THEN m - t ELSE m + N - t
         /\ (m + N - t) % N \in 0 .. N - 1
<1> DEFINE x == m + N - t
<1>1. x \in -(N - 1) .. 2 * N - 1 /\ (x < N <=> ~(t <= m)) /\ ~(x < 0)
      /\ x - N = m - t
  OBVIOUS
<1>2. /\ x % N = IF x < 0 THEN x + N ELSE IF x < N THEN x ELSE x - N
      /\ x % N \in 0 .. N - 1
  <2> HIDE DEF x
  <2> QED BY <1>1, Lap
<1>3. QED BY <1>1, <1>2

LEMMA Ticks ==
  ASSUME NEW N \in Nat \ {0}, NEW m \in 0 .. N - 1
  PROVE  /\ (m + 1) % N = IF m + 1 < N THEN m + 1 ELSE 0
         /\ (m + 1) % N \in 0 .. N - 1
<1> DEFINE x == m + 1
<1>1. x \in -(N - 1) .. 2 * N - 1 /\ x \in 1 .. N
  OBVIOUS
<1>2. /\ x % N = IF x < 0 THEN x + N ELSE IF x < N THEN x ELSE x - N
      /\ x % N \in 0 .. N - 1
  <2> HIDE DEF x
  <2> QED BY <1>1, Lap
<1>3. QED BY <1>1, <1>2

LEMMA TickLaps ==
  ASSUME NEW N \in Nat \ {0}, NEW m \in 0 .. N - 1, NEW t \in 0 .. N - 1,
         NEW n, n = (m + 1) % N, (m + N - t) % N < N - 1
  PROVE  (n + N - t) % N = ((m + N - t) % N) + 1
<1>1. n = (IF m + 1 < N THEN m + 1 ELSE 0) /\ n \in 0 .. N - 1
  BY Ticks
<1>2. (m + N - t) % N = IF t <= m THEN m - t ELSE m + N - t
  BY Laps
<1>3. (n + N - t) % N = IF t <= n THEN n - t ELSE n + N - t
  BY <1>1, Laps
<1>4. QED BY <1>1, <1>2, <1>3
------------------------------------------------------------------------------
(* Timers.  While a timer runs, its start time is as long ago as the edge  *)
(* it has seen; a TON that is still off and a TOF or TP that still runs    *)
(* have not been scanned since the preset time was over.  One that does    *)
(* not run has been stopped by it, or was never started.                   *)
TONInv ==
  kind = "TON" =>
    /\ timing /\ ~q => Since(start_time) = high /\ high < preset_time + gap
    /\ q => timing /\ high >= preset_time

TOFInv ==
  kind = "TOF" =>
    /\ timing => Since(start_time) = fell /\ fell < preset_time + gap
    /\ ~timing => fell >= preset_time

TPInv ==
  kind = "TP" =>
    /\ timing => Since(start_time) = rose /\ rose < preset_time + gap
    /\ ~timing => rose >= preset_time
    /\ q <=> timing

TimerInv == TypeOK /\ TONInv /\ TOFInv /\ TPInv

(* The facts of TypeOK, one by one. *)
LEMMA TimerTypes ==
  ASSUME TypeOK
  PROVE  /\ kind \in {"TON", "TOF", "TP"} /\ preset_time \in Preset
         /\ preset_time \in Nat /\ preset_time + MaxGap < Wrap
         /\ Wrap \in Nat \ {0} /\ MaxGap \in Nat
         /\ in \in BOOLEAN /\ q \in BOOLEAN /\ timing \in BOOLEAN
         /\ last_input_state \in BOOLEAN
         /\ start_time \in 0 .. Wrap - 1 /\ millis \in 0 .. Wrap - 1
         /\ et \in 0 .. preset_time /\ gap \in 0 .. MaxGap
         /\ high \in 0 .. Wrap /\ rose \in 0 .. Wrap /\ fell \in 0 .. Wrap
<1>1. kind \in {"TON", "TOF", "TP"} /\ preset_time \in Preset
  BY DEF TypeOK
<1>2. /\ preset_time \in Nat /\ preset_time + MaxGap < Wrap
      /\ Wrap \in Nat \ {0} /\ MaxGap \in Nat
  BY <1>1, TimersAssumption
<1>3. /\ in \in BOOLEAN /\ q \in BOOLEAN /\ timing \in BOOLEAN
      /\ last_input_state \in BOOLEAN
  BY DEF TypeOK
<1>4. /\ start_time \in 0 .. Wrap - 1 /\ millis \in 0 .. Wrap - 1
      /\ et \in 0 .. preset_time /\ gap \in 0 .. MaxGap
  BY DEF TypeOK
<1>5. high \in 0 .. Wrap /\ rose \in 0 .. Wrap /\ fell \in 0 .. Wrap
  BY DEF TypeOK, Age
<1>6. QED BY <1>1, <1>2, <1>3, <1>4, <1>5

(* What a scan reads of the clock is in range, and an edge just seen is    *)
(* zero ticks ago.                                                         *)
LEMMA ReadClock ==
  ASSUME TypeOK, NEW edge \in BOOLEAN
  PROVE  /\ Started(edge) \in 0 .. Wrap - 1
         /\ Since(Started(edge)) \in 0 .. Wrap - 1
         /\ edge => Since(Started(edge)) = 0
         /\ ~edge => Started(edge) = start_time
         /\ Over(edge) \in BOOLEAN
         /\ Over(edge) <=> Since(Started(edge)) >= preset_time
         /\ Shown(edge) \in 0 .. preset_time
<1> USE TimerTypes
<1>1. Started(edge) \in 0 .. Wrap - 1
  BY DEF Started
<1>2. millis + Wrap - Started(edge) \in -(Wrap - 1) .. 2 * Wrap - 1
  BY <1>1
<1>3. Since(Started(edge)) \in 0 .. Wrap - 1
  BY <1>2, Lap DEF Since
<1>4. ASSUME edge
      PROVE  Since(Started(edge)) = 0
  <2>1. Started(edge) = millis /\ millis + Wrap - millis = Wrap
    BY <1>4 DEF Started
  <2>2. Wrap % Wrap = 0
    BY Lap
  <2>3. QED BY <2>1, <2>2 DEF Since
<1>5. Shown(edge) \in 0 .. preset_time
  BY <1>3 DEF Shown, Over
<1>6. QED BY <1>1, <1>3, <1>4, <1>5 DEF Started, Over

(* What a scan leaves alone and what every kind of timer makes of its      *)
(* history.                                                                *)
LEMMA TimerScanHistory ==
  ASSUME TypeOK, Scan
  PROVE  /\ kind' = kind /\ preset_time' = preset_time /\ in' = in
         /\ millis' = millis /\ gap' = 0
         /\ high' = (IF in /\ last THEN high ELSE 0)
         /\ rose' = (IF in /\ ~last THEN 0 ELSE rose)
         /\ fell' = (IF ~in /\ last THEN 0 ELSE fell)
         /\ high' \in Age /\ rose' \in Age /\ fell' \in Age
         /\ \A t \in 0 .. Wrap - 1 : Since(t)' = Since(t)
<1> USE TimerTypes
<1>1. /\ kind' = kind /\ preset_time' = preset_time /\ in' = in
      /\ millis' = millis /\ gap' = 0
      /\ high' = (IF in /\ last THEN high ELSE 0)
      /\ rose' = (IF in /\ ~last THEN 0 ELSE rose)
      /\ fell' = (IF ~in /\ last THEN 0 ELSE fell)
  BY DEF Scan, block
<1>2. high' \in Age /\ rose' \in Age /\ fell' \in Age
  BY <1>1 DEF Age
<1>3. QED BY <1>1, <1>2 DEF Since

(* The state a scan leaves has the types of the state it found. *)
LEMMA TimerScanTypes ==
  ASSUME TypeOK, Scan,
         timing' \in BOOLEAN, q' \in BOOLEAN, last_input_state' \in BOOLEAN,
         start_time' \in 0 .. Wrap - 1, et' \in 0 .. preset_time
  PROVE  TypeOK'
<1>1. /\ kind' \in {"TON", "TOF", "TP"} /\ preset_time' \in Preset
      /\ in' \in BOOLEAN
      /\ millis' \in 0 .. Wrap - 1 /\ gap' \in 0 .. MaxGap
      /\ et' \in 0 .. preset_time'
  BY TimerTypes, TimerScanHistory
<1>2. {in', q', timing', last_input_state'} \subseteq BOOLEAN
  BY <1>1
<1>3. {high', rose', fell'} \subseteq Age
  BY TimerScanHistory
<1>4. QED BY <1>1, <1>2, <1>3 DEF TypeOK

LEMMA TONScan ==
  ASSUME TimerInv, Scan, kind = "TON"
  PROVE  TimerInv' /\ (q' <=> in /\ high' >= preset_time)
<1> USE TimerTypes DEF TimerInv
<1> DEFINE edge == in /\ ~timing
<1>1. /\ timing' = in /\ start_time' = Started(edge)
      /\ q' = (in /\ (q \/ Over(edge)))
      /\ et' = IF in THEN Shown(edge) ELSE 0
      /\ last_input_state' = last_input_state
  BY DEF Scan, evaluate, TON
<1>2. edge \in BOOLEAN
  OBVIOUS
<1>3. /\ Started(edge) \in 0 .. Wrap - 1
      /\ edge => Since(Started(edge)) = 0
      /\ ~edge => Started(edge) = start_time
      /\ Over(edge) \in BOOLEAN
      /\ Over(edge) <=> Since(Started(edge)) >= preset_time
      /\ Shown(edge) \in 0 .. preset_time
      /\ Since(Started(edge)) \in 0 .. Wrap - 1
  BY <1>2, ReadClock
<1> HIDE DEF edge
<1>4. TypeOK'
  BY <1>1, <1>3, TimerScanTypes
<1>5. high' = IF in /\ timing THEN high ELSE 0
  BY TimerScanHistory DEF last
<1>6. ASSUME in
      PROVE  q \/ high' = Since(Started(edge))
  <2>1. CASE timing
    <3>1. ~edge
      BY <2>1 DEF edge
    <3>2. q \/ Since(start_time) = high
      BY <2>1 DEF TONInv
    <3>3. QED BY <1>3, <1>5, <1>6, <2>1, <3>1, <3>2
  <2>2. CASE ~timing
    <3>1. edge
      BY <1>6, <2>2 DEF edge
    <3>2. QED BY <1>3, <1>5, <2>2, <3>1
  <2>3. QED BY <2>1, <2>2
<1>7. q => timing /\ high >= preset_time
  BY DEF TONInv
<1>8. q' <=> in /\ high' >= preset_time
  BY <1>1, <1>3, <1>5, <1>6, <1>7
<1>9. TONInv'
  <2>1. Since(start_time)' = Since(Started(edge))
    BY <1>1, <1>3, TimerScanHistory DEF Since
  <2>2. CASE in /\ ~q'
    <3>1. ~q /\ high' = Since(Started(edge)) /\ high' < preset_time
      BY <1>1, <1>3, <1>5, <1>6, <1>8, <2>2
    <3>2. QED BY <2>1, <2>2, <3>1, TimerScanHistory DEF TONInv
  <2>3. CASE in /\ q'
    BY <1>1, <1>8, <2>3, TimerScanHistory DEF TONInv
  <2>4. CASE ~in
    BY <1>1, <2>4 DEF TONInv
  <2>5. QED BY <2>2, <2>3, <2>4
<1>10. TOFInv' /\ TPInv'
  BY TimerScanHistory DEF TOFInv, TPInv
<1>11. QED BY <1>4, <1>8, <1>9, <1>10

LEMMA TOFScan ==
  ASSUME TimerInv, Scan, kind = "TOF"
  PROVE  /\ TimerInv'
         /\ q' \/ fell' >= preset_time
         /\ q' => in \/ fell' < preset_time
<1> USE TimerTypes DEF TimerInv
<1> DEFINE edge == Falling
<1>1. /\ timing' = ((timing \/ edge) /\ ~Over(edge)) /\ start_time' = Started(edge)
      /\ q' = IF (timing \/ edge) THEN ~Over(edge) ELSE in
      /\ et' = IF (timing \/ edge) THEN Shown(edge) ELSE 0
      /\ last_input_state' = in
  BY DEF Scan, evaluate, TOF
<1>2. edge \in BOOLEAN /\ (edge <=> ~in /\ last)
  BY DEF Falling, last
<1>3. /\ Started(edge) \in 0 .. Wrap - 1
      /\ edge => Since(Started(edge)) = 0
      /\ ~edge => Started(edge) = start_time
      /\ Over(edge) \in BOOLEAN
      /\ Over(edge) <=> Since(Started(edge)) >= preset_time
      /\ Shown(edge) \in 0 .. preset_time
      /\ Since(Started(edge)) \in 0 .. Wrap - 1
  BY <1>2, ReadClock
<1> HIDE DEF edge
<1>4. TypeOK'
  <2>1. /\ timing' \in BOOLEAN /\ q' \in BOOLEAN /\ last_input_state' \in BOOLEAN
        /\ start_time' \in 0 .. Wrap - 1
    BY <1>1, <1>2, <1>3
  <2>2. et' \in 0 .. preset_time
    BY <1>1, <1>3
  <2>3. QED BY <2>1, <2>2, TimerScanTypes
<1>5. fell' = IF edge THEN 0 ELSE fell
  BY <1>2, TimerScanHistory
<1>6. (timing \/ edge) => fell' = Since(Started(edge))
  BY <1>2, <1>3, <1>5 DEF TOFInv
<1>7. ~(timing \/ edge) => fell' >= preset_time
  BY <1>5 DEF TOFInv
<1>8. /\ q' \/ fell' >= preset_time
      /\ q' => in \/ fell' < preset_time
  BY <1>1, <1>2, <1>3, <1>6, <1>7
<1>9. TOFInv'
  <2>1. Since(start_time)' = Since(Started(edge))
    BY <1>1, <1>3, TimerScanHistory DEF Since
  <2>2. CASE timing'
    <3>1. fell' = Since(start_time)' /\ fell' < preset_time
      BY <1>1, <1>2, <1>3, <1>6, <2>1, <2>2
    <3>2. QED BY <2>2, <3>1, TimerScanHistory DEF TOFInv
  <2>3. CASE ~timing'
    <3>1. fell' >= preset_time
      BY <1>1, <1>2, <1>3, <1>6, <1>7, <2>3
    <3>2. QED BY <2>3, <3>1, TimerScanHistory DEF TOFInv
  <2>4. QED BY <2>2, <2>3
<1>10. TONInv' /\ TPInv'
  BY TimerScanHistory DEF TONInv, TPInv
<1>11. QED BY <1>4, <1>8, <1>9, <1>10

LEMMA TPScan ==
  ASSUME TimerInv, Scan, kind = "TP"
  PROVE  TimerInv' /\ (q' <=> rose' < preset_time)
<1> USE TimerTypes DEF TimerInv
<1> DEFINE edge == Rising
<1>1. /\ timing' = ((timing \/ edge) /\ ~Over(edge)) /\ start_time' = Started(edge)
      /\ q' = ((q \/ edge) /\ ~((timing \/ edge) /\ Over(edge)))
      /\ et' = IF (timing \/ edge) THEN Shown(edge) ELSE 0
      /\ last_input_state' = in
  BY DEF Scan, evaluate, TP
<1>2. edge \in BOOLEAN /\ (edge <=> in /\ ~last)
  BY DEF Rising, last
<1>3. /\ Started(edge) \in 0 .. Wrap - 1
      /\ edge => Since(Started(edge)) = 0
      /\ ~edge => Started(edge) = start_time
      /\ Over(edge) \in BOOLEAN
      /\ Over(edge) <=> Since(Started(edge)) >= preset_time
      /\ Shown(edge) \in 0 .. preset_time
      /\ Since(Started(edge)) \in 0 .. Wrap - 1
  BY <1>2, ReadClock
<1> HIDE DEF edge
<1>4. TypeOK'
  <2>1. /\ timing' \in BOOLEAN /\ q' \in BOOLEAN /\ last_input_state' \in BOOLEAN
        /\ start_time' \in 0 .. Wrap - 1
    BY <1>1, <1>2, <1>3
  <2>2. et' \in 0 .. preset_time
    BY <1>1, <1>3
  <2>3. QED BY <2>1, <2>2, TimerScanTypes
<1>5. rose' = IF edge THEN 0 ELSE rose
  BY <1>2, TimerScanHistory
<1>6. (timing \/ edge) => rose' = Since(Started(edge))
  BY <1>2, <1>3, <1>5 DEF TPInv
<1>7. ~(timing \/ edge) => rose' >= preset_time
  BY <1>5 DEF TPInv
<1>8. q' <=> timing'
  BY <1>1, <1>2, <1>3 DEF TPInv
<1>9. timing' <=> rose' < preset_time
  <2>1. rose' \in 0 .. Wrap
    BY TimerScanHistory DEF Age
  <2>2. CASE timing \/ edge
    <3>1. timing' <=> ~Over(edge)
      BY <1>1, <2>2
    <3>2. QED BY <1>3, <1>6, <2>2, <3>1
  <2>3. CASE ~(timing \/ edge)
    <3>1. ~timing'
      BY <1>1, <2>3
    <3>2. QED BY <1>7, <2>1, <2>3, <3>1
  <2>4. QED BY <2>2, <2>3
<1>10. TPInv'
  <2>1. Since(start_time)' = Since(Started(edge))
    BY <1>1, <1>3, TimerScanHistory DEF Since
  <2>2. CASE timing'
    BY <1>1, <1>6, <1>8, <1>9, <2>1, <2>2, TimerScanHistory DEF TPInv
  <2>3. CASE ~timing'
    BY <1>8, <1>9, <2>3, TimerScanHistory DEF TPInv, Age
  <2>4. QED BY <2>2, <2>3
<1>11. TONInv' /\ TOFInv'
  BY TimerScanHistory DEF TONInv, TOFInv
<1>12. QED BY <1>4, <1>8, <1>9, <1>10, <1>11

(* A tick makes everything one older; what is younger than the clock's     *)
(* range is not lapped.                                                    *)
LEMMA TimerTick ==
  ASSUME TimerInv, Tick
  PROVE  TimerInv'
<1>0. /\ TypeOK /\ preset_time \in Nat /\ preset_time + MaxGap < Wrap
      /\ Wrap \in Nat \ {0} /\ MaxGap \in Nat
      /\ q \in BOOLEAN /\ timing \in BOOLEAN
      /\ start_time \in 0 .. Wrap - 1 /\ millis \in 0 .. Wrap - 1
      /\ gap \in 0 .. MaxGap
      /\ high \in 0 .. Wrap /\ rose \in 0 .. Wrap /\ fell \in 0 .. Wrap
  BY TimerTypes DEF TimerInv
<1>1. /\ kind' = kind /\ preset_time' = preset_time /\ in' = in
      /\ timing' = timing /\ start_time' = start_time /\ q' = q /\ et' = et
      /\ last_input_state' = last_input_state
      /\ gap < MaxGap /\ gap' = gap + 1 /\ millis' = (millis + 1) % Wrap
      /\ high' = Older(high) /\ rose' = Older(rose) /\ fell' = Older(fell)
  BY DEF Tick, block, state
<1>2. millis' \in 0 .. Wrap - 1
  BY <1>0, <1>1, Ticks
<1>3. /\ high' \in 0 .. Wrap /\ rose' \in 0 .. Wrap /\ fell' \in 0 .. Wrap
      /\ high < Wrap => high' = high + 1
      /\ rose < Wrap => rose' = rose + 1
      /\ fell < Wrap => fell' = fell + 1
      /\ high' >= high /\ rose' >= rose /\ fell' >= fell
  BY <1>0, <1>1 DEF Older
<1>4. Since(start_time) < Wrap - 1 =>
        Since(start_time)' = Since(start_time) + 1
  BY <1>0, <1>1, TickLaps DEF Since
<1>5. TypeOK'
  <2>1. {in', q', timing', last_input_state'} \subseteq BOOLEAN
    BY <1>0, <1>1 DEF TypeOK
  <2>2. {high', rose', fell'} \subseteq Age
    BY <1>3 DEF Age
  <2>3. gap' \in 0 .. MaxGap
    BY <1>0, <1>1
  <2>4. QED BY <1>0, <1>1, <1>2, <2>1, <2>2, <2>3 DEF TypeOK
<1>6. TONInv'
  <2>1. TONInv
    BY DEF TimerInv
  <2>2. CASE kind = "TON" /\ timing /\ ~q
    <3>1. Since(start_time) = high /\ high < preset_time + gap
      BY <2>1, <2>2 DEF TONInv
    <3>2. Since(start_time)' = high' /\ high' < preset_time + gap'
      BY <1>0, <1>1, <1>3, <1>4, <3>1
    <3>3. QED BY <1>1, <2>2, <3>2 DEF TONInv
  <2>3. CASE kind = "TON" /\ q
    <3>1. timing /\ high >= preset_time
      BY <2>1, <2>3 DEF TONInv
    <3>2. high' >= preset_time
      BY <1>0, <1>3, <3>1
    <3>3. QED BY <1>1, <2>3, <3>1, <3>2 DEF TONInv
  <2>4. QED BY <1>0, <1>1, <2>2, <2>3 DEF TONInv
<1>7. TOFInv'
  <2>1. TOFInv
    BY DEF TimerInv
  <2>2. CASE kind = "TOF" /\ timing
    <3>1. Since(start_time) = fell /\ fell < preset_time + gap
      BY <2>1, <2>2 DEF TOFInv
    <3>2. Since(start_time)' = fell' /\ fell' < preset_time + gap'
      BY <1>0, <1>1, <1>3, <1>4, <3>1
    <3>3. QED BY <1>1, <2>2, <3>2 DEF TOFInv
  <2>3. CASE kind = "TOF" /\ ~timing
    <3>1. fell >= preset_time
      BY <2>1, <2>3 DEF TOFInv
    <3>2. fell' >= preset_time
      BY <1>0, <1>3, <3>1
    <3>3. QED BY <1>1, <2>3, <3>2 DEF TOFInv
  <2>4. QED BY <1>1, <2>2, <2>3 DEF TOFInv
<1>8. TPInv'
  <2>1. TPInv
    BY DEF TimerInv
  <2>2. CASE kind = "TP" /\ timing
    <3>1. Since(start_time) = rose /\ rose < preset_time + gap /\ q
      BY <2>1, <2>2 DEF TPInv
    <3>2. Since(start_time)' = rose' /\ rose' < preset_time + gap'
      BY <1>0, <1>1, <1>3, <1>4, <3>1
    <3>3. QED BY <1>1, <2>2, <3>1, <3>2 DEF TPInv
  <2>3. CASE kind = "TP" /\ ~timing
    <3>1. rose >= preset_time /\ ~q
      BY <2>1, <2>3 DEF TPInv
    <3>2. rose' >= preset_time
      BY <1>0, <1>3, <3>1
    <3>3. QED BY <1>1, <2>3, <3>1, <3>2 DEF TPInv
  <2>4. QED BY <1>1, <2>2, <2>3 DEF TPInv
<1>9. QED BY <1>5, <1>6, <1>7, <1>8 DEF TimerInv

LEMMA TimerInit == Init => TimerInv
<1> SUFFICES ASSUME Init
             PROVE  TimerInv
  OBVIOUS
<1> USE TimersAssumption
<1>1. /\ kind \in {"TON", "TOF", "TP"} /\ preset_time \in Preset
      /\ preset_time \in Nat /\ preset_time <= Wrap
      /\ in \in BOOLEAN /\ q = FALSE /\ timing = FALSE
      /\ last_input_state = FALSE /\ et = 0 /\ start_time = 0 /\ gap = 0
      /\ millis \in 0 .. Wrap - 1
      /\ high = 0 /\ rose = Wrap /\ fell = Wrap
  BY DEF Init
<1>2. {in, q, timing, last_input_state} \subseteq BOOLEAN
  BY <1>1
<1>3. {high, rose, fell} \subseteq Age
  BY <1>1 DEF Age
<1>4. 0 \in 0 .. Wrap - 1
  BY <1>1
<1>5. TypeOK
  BY <1>1, <1>2, <1>3, <1>4 DEF TypeOK
<1>6. QED
  BY <1>1, <1>5 DEF TimerInv, TONInv, TOFInv, TPInv

LEMMA TimerNext == TimerInv /\ [Next]_vars => TimerInv'
<1> SUFFICES ASSUME TimerInv, [Next]_vars
             PROVE  TimerInv'
  OBVIOUS
<1>1. CASE Scan
  BY <1>1, TONScan, TOFScan, TPScan DEF TimerInv, TypeOK
<1>2. CASE InputChanges
  <2>1. {in', q', timing', last_input_state'} \subseteq BOOLEAN
    BY <1>2, TimerTypes DEF InputChanges, state, TimerInv
  <2>2. TypeOK'
    BY <1>2, <2>1 DEF InputChanges, state, block, TypeOK, TimerInv
  <2>3. QED
    BY <1>2, <2>2
       DEF InputChanges, state, block, TimerInv, TONInv, TOFInv, TPInv, Since
<1>3. CASE Tick
  BY <1>3, TimerTick
<1>4. CASE UNCHANGED vars
  BY <1>4
     DEF vars, state, block, TimerInv, TypeOK, TONInv, TOFInv, TPInv, Since
<1>5. QED BY <1>1, <1>2, <1>3, <1>4 DEF Next

(* BlockTON, BlockTOF, BlockTP: the output follows the input after the     *)
(* preset time and no earlier, falls after it, or lasts that long,         *)
(* wherever millis() stands and whether or not it wraps meanwhile.         *)
THEOREM TimersKeepTheirTime == Spec => []TypeOK /\ TimersKeepTime
<1> DEFINE On == Scan /\ kind = "TON" => (q' <=> in /\ high' >= preset_time)
           Off == Scan /\ kind = "TOF" => /\ q' \/ fell' >= preset_time
                                          /\ q' => in \/ fell' < preset_time
           OnFor == Scan /\ kind = "TP" => (q' <=> rose' < preset_time)
<1>1. TimerInv => TypeOK
  BY DEF TimerInv
<1>2. TimerInv => On /\ Off /\ OnFor
  BY TONScan, TOFScan, TPScan
<1>3. QED
  BY TimerInit, TimerNext, <1>1, <1>2, PTL
     DEF Spec, TimersKeepTime, OnDelay, OffDelay, Pulse
------------------------------------------------------------------------------
(* The sequencer.  A clean step starts its next turn without a start time. *)
(* In that turn, until a scan at another time than 0, it is as old as the  *)
(* time; then its start time is as long ago as its first scan, or at most  *)
(* a pause less; and the last scan found its timeout not over yet.         *)
TurnInv ==
  LET start == step_start_time[current_step]
  IN  /\ start = 0 => age = pause /\ now = pause
      /\ start # 0 => Elapsed(current_step) <= age
                      /\ age <= Elapsed(current_step) + MaxPause
      /\ age < Timeouts[current_step] + MaxPause + pause

SequencerInv ==
  /\ SequencerTypeOK
  /\ \A s \in clean : s # current_step \/ age = Clock => step_start_time[s] = 0
  /\ current_step \in clean /\ Timeouts[current_step] > 0 /\ age # Clock =>
       TurnInv

LEMMA SequencerTypes ==
  ASSUME SequencerTypeOK
  PROVE  /\ Clock \in Nat \ {0} /\ MaxPause \in Nat
         /\ Steps = 1 .. Len(Timeouts) /\ Len(Timeouts) \in Nat
         /\ Len(Timeouts) > 0
         /\ \A s \in Steps : /\ Timeouts[s] \in Nat
                             /\ Timeouts[s] + 2 * MaxPause < Clock
                             /\ Following(s) \in Steps
         /\ current_step \in Steps /\ clean \subseteq Steps
         /\ step_start_time \in [Steps -> 0 .. Clock - 1]
         /\ condition \in BOOLEAN /\ done \in BOOLEAN /\ active \in BOOLEAN
         /\ now \in 0 .. Clock - 1 /\ pause \in 0 .. MaxPause
         /\ age \in 0 .. Clock
<1>1. /\ MaxPause \in Nat /\ Clock \in Nat /\ Timeouts \in Seq(Nat)
      /\ Len(Timeouts) > 0
  BY SequencerAssumption
<1>2. Steps = 1 .. Len(Timeouts) /\ Len(Timeouts) \in Nat
  BY <1>1 DEF Steps
<1>3. \A s \in Steps : /\ Timeouts[s] \in Nat
                       /\ Timeouts[s] + 2 * MaxPause < Clock
  BY <1>1, <1>2, SequencerAssumption DEF Steps
<1>4. Clock # 0
  <2>1. 1 \in Steps
    BY <1>1, <1>2
  <2>2. QED BY <1>1, <1>3, <2>1
<1>5. \A s \in Steps : Following(s) \in Steps
  BY <1>1, <1>2 DEF Following
<1>6. /\ current_step \in Steps /\ clean \subseteq Steps
      /\ step_start_time \in [Steps -> 0 .. Clock - 1]
      /\ now \in 0 .. Clock - 1 /\ pause \in 0 .. MaxPause
      /\ age \in 0 .. Clock
  BY DEF SequencerTypeOK, Ages
<1>7. condition \in BOOLEAN /\ done \in BOOLEAN /\ active \in BOOLEAN
  BY DEF SequencerTypeOK
<1>8. QED BY <1>1, <1>2, <1>3, <1>4, <1>5, <1>6, <1>7

(* What is read of the clock when the step is looked at. *)
LEMMA StepReadsClock ==
  ASSUME SequencerTypeOK
  PROVE  LET s == current_step
         IN  /\ Begun(s) \in 0 .. Clock - 1
             /\ Elapsed(s) \in 0 .. Clock - 1
             /\ step_start_time[s] = 0 => Begun(s) = now /\ Elapsed(s) = 0
             /\ step_start_time[s] # 0 => Begun(s) = step_start_time[s]
             /\ Leaves(s) <=> condition \/ (Timeouts[s] > 0
                                              /\ Elapsed(s) >= Timeouts[s])
<1> DEFINE s == current_step
<1>0. /\ Clock \in Nat \ {0} /\ s \in Steps /\ now \in 0 .. Clock - 1
      /\ step_start_time \in [Steps -> 0 .. Clock - 1]
  BY SequencerTypes
<1>1. /\ Begun(s) \in 0 .. Clock - 1
      /\ step_start_time[s] = 0 => Begun(s) = now
      /\ step_start_time[s] # 0 => Begun(s) = step_start_time[s]
  BY <1>0 DEF Begun
<1>2. /\ Elapsed(s) \in 0 .. Clock - 1
      /\ Begun(s) = now => Elapsed(s) = 0
  <2> HIDE DEF s
  <2>1. /\ Elapsed(s) \in 0 .. Clock - 1
        /\ Elapsed(s) = IF Begun(s) <= now THEN now - Begun(s)
                        ELSE now + Clock - Begun(s)
    BY <1>0, <1>1, Laps DEF Elapsed
  <2>2. QED BY <1>0, <2>1
<1>3. QED BY <1>1, <1>2 DEF Leaves, TimedOut

LEMMA SequencerScanTypes ==
  ASSUME SequencerTypeOK, SequencerScan
  PROVE  /\ SequencerTypeOK'
         /\ StepEnds <=> Leaves(current_step)
         /\ Leaves(current_step) =>
              /\ current_step' = Following(current_step)
              /\ step_start_time'[current_step] = 0
              /\ age' = Clock /\ clean' = clean \cup {current_step}
         /\ ~Leaves(current_step) =>
              /\ current_step' = current_step
              /\ step_start_time'[current_step] =
                   IF Timeouts[current_step] > 0 THEN Begun(current_step)
                   ELSE step_start_time[current_step]
              /\ age' = (IF age = Clock THEN 0 ELSE age) /\ clean' = clean
         /\ \A s \in Steps : s # current_step =>
              step_start_time'[s] = step_start_time[s]
         /\ pause' = 0 /\ now' = now
<1> DEFINE s == current_step
<1>0. /\ Clock \in Nat \ {0} /\ MaxPause \in Nat
      /\ s \in Steps /\ Following(s) \in Steps
      /\ step_start_time \in [Steps -> 0 .. Clock - 1]
      /\ now \in 0 .. Clock - 1 /\ age \in 0 .. Clock
      /\ condition \in BOOLEAN /\ clean \subseteq Steps
      /\ Begun(s) \in 0 .. Clock - 1
  BY SequencerTypes, StepReadsClock
<1>1. Restart(s)
  BY DEF SequencerScan, Sequence
<1>2. step_start_time' =
        [step_start_time EXCEPT
           ![s] = IF Leaves(s) THEN 0
                  ELSE IF Timeouts[s] > 0 THEN Begun(s)
                  ELSE step_start_time[s]]
  BY <1>1 DEF Restart
<1>3. /\ current_step' = IF Leaves(s) THEN Following(s) ELSE s
      /\ done' = (Leaves(s) /\ Following(s) = 1)
      /\ active' = ~done'
      /\ pause' = 0 /\ condition' = condition /\ now' = now
  BY DEF SequencerScan, Sequence
<1>4. StepEnds <=> Leaves(s)
  <2>1. Following(s) = s => Following(s) = 1
    BY <1>0, SequencerTypes DEF Following
  <2>2. QED BY <1>3, <2>1 DEF StepEnds
<1>9. IF StepEnds
      THEN age' = Clock /\ clean' = clean \cup {current_step}
      ELSE age' = (IF age = Clock THEN 0 ELSE age) /\ clean' = clean
  BY DEF SequencerScan
<1>5. SequencerTypeOK'
  <2>1. step_start_time' \in [Steps -> 0 .. Clock - 1]
    BY <1>0, <1>2
  <2>2. {condition', done', active'} \subseteq BOOLEAN
    BY <1>0, <1>3
  <2>3. age' \in Ages /\ clean' \subseteq Steps
    BY <1>0, <1>9 DEF Ages
  <2>4. current_step' \in Steps /\ pause' \in 0 .. MaxPause
    BY <1>0, <1>3
  <2>5. QED BY <1>0, <1>3, <2>1, <2>2, <2>3, <2>4 DEF SequencerTypeOK
<1>6. \A t \in Steps : t # s => step_start_time'[t] = step_start_time[t]
  BY <1>0, <1>2
<1>7. step_start_time'[s] = IF Leaves(s) THEN 0
                            ELSE IF Timeouts[s] > 0 THEN Begun(s)
                            ELSE step_start_time[s]
  BY <1>0, <1>2
<1>8. QED BY <1>0, <1>3, <1>4, <1>5, <1>6, <1>7, <1>9

LEMMA SequencerScanInv ==
  ASSUME SequencerInv, SequencerScan
  PROVE  SequencerInv'
<1> DEFINE s == current_step
<1>0. /\ SequencerTypeOK
      /\ Clock \in Nat \ {0} /\ MaxPause \in Nat
      /\ s \in Steps /\ Following(s) \in Steps
      /\ Timeouts[s] \in Nat /\ Timeouts[s] + 2 * MaxPause < Clock
      /\ step_start_time \in [Steps -> 0 .. Clock - 1]
      /\ clean \subseteq Steps
      /\ now \in 0 .. Clock - 1 /\ age \in 0 .. Clock
      /\ pause \in 0 .. MaxPause
      /\ \A t \in clean : t # s \/ age = Clock => step_start_time[t] = 0
  BY SequencerTypes DEF SequencerInv
<1>1. /\ Begun(s) \in 0 .. Clock - 1
      /\ Elapsed(s) \in 0 .. Clock - 1
      /\ step_start_time[s] = 0 => Begun(s) = now /\ Elapsed(s) = 0
      /\ step_start_time[s] # 0 => Begun(s) = step_start_time[s]
      /\ ~Leaves(s) /\ Timeouts[s] > 0 => Elapsed(s) < Timeouts[s]
  BY <1>0, StepReadsClock
<1>2. /\ SequencerTypeOK'
      /\ \A t \in Steps : t # s => step_start_time'[t] = step_start_time[t]
      /\ pause' = 0 /\ now' = now
  BY <1>0, SequencerScanTypes
<1>3. CASE Leaves(s)
  <2>1. /\ current_step' = Following(s) /\ step_start_time'[s] = 0
        /\ age' = Clock /\ clean' = clean \cup {s}
    BY <1>0, <1>3, SequencerScanTypes
  <2>2. \A t \in clean' : step_start_time'[t] = 0
    BY <1>0, <1>2, <2>1
  <2>3. QED BY <1>2, <2>1, <2>2 DEF SequencerInv
<1>4. CASE ~Leaves(s)
  <2>1. /\ current_step' = s
        /\ step_start_time'[s] = IF Timeouts[s] > 0 THEN Begun(s)
                                 ELSE step_start_time[s]
        /\ age' = (IF age = Clock THEN 0 ELSE age) /\ clean' = clean
    BY <1>0, <1>4, SequencerScanTypes
  <2>2. age' # Clock
    BY <1>0, <2>1
  <2>3. \A t \in clean' : t # current_step' => step_start_time'[t] = 0
    BY <1>0, <1>2, <2>1
  <2>4. ASSUME s \in clean, Timeouts[s] > 0
        PROVE  TurnInv'
    <3>1. /\ current_step' = s /\ step_start_time'[s] = Begun(s)
          /\ Elapsed(s) < Timeouts[s]
      BY <1>1, <1>4, <2>1, <2>4
    <3>2. Begun(s)' = Begun(s) /\ Elapsed(s)' = Elapsed(s)
      <4>1. Begun(s)' = Begun(s)
        BY <1>1, <1>2, <2>1, <3>1 DEF Begun
      <4>2. QED BY <1>2, <4>1, <2>1 DEF Elapsed
    <3>3. CASE age = Clock
      <4>1. step_start_time[s] = 0 /\ Elapsed(s) = 0 /\ Begun(s) = now
        BY <1>0, <1>1, <2>4, <3>3
      <4>2. age' = 0
        BY <2>1, <3>3
      <4>3. QED
        BY <1>0, <1>2, <2>1, <2>4, <3>1, <3>2, <4>1, <4>2 DEF TurnInv
    <3>4. CASE age # Clock
      <4>1. /\ step_start_time[s] = 0 => age = pause /\ now = pause
            /\ step_start_time[s] # 0 => Elapsed(s) <= age
                                         /\ age <= Elapsed(s) + MaxPause
        BY <2>4, <3>4 DEF SequencerInv, TurnInv
      <4>2. age' = age
        BY <2>1, <3>4
      <4>3. /\ Begun(s) = 0 => age = 0 /\ now = 0
            /\ Elapsed(s) <= age /\ age <= Elapsed(s) + MaxPause
        BY <1>0, <1>1, <4>1
      <4>4. QED
        BY <1>0, <1>1, <1>2, <2>1, <2>4, <3>1, <3>2, <4>2, <4>3 DEF TurnInv
    <3>5. QED BY <3>3, <3>4
  <2>5. QED BY <1>2, <2>1, <2>2, <2>3, <2>4 DEF SequencerInv
<1>5. QED BY <1>3, <1>4

LEMMA SequencerTickInv ==
  ASSUME SequencerInv, SequencerTick
  PROVE  SequencerInv'
<1> DEFINE s == current_step
<1>0. /\ SequencerTypeOK
      /\ Clock \in Nat \ {0} /\ MaxPause \in Nat
      /\ s \in Steps /\ clean \subseteq Steps
      /\ Timeouts[s] \in Nat /\ Timeouts[s] + 2 * MaxPause < Clock
      /\ step_start_time \in [Steps -> 0 .. Clock - 1]
      /\ now \in 0 .. Clock - 1 /\ age \in 0 .. Clock
      /\ pause \in 0 .. MaxPause
      /\ \A t \in clean : t # s \/ age = Clock => step_start_time[t] = 0
  BY SequencerTypes DEF SequencerInv
<1>1. /\ pause < MaxPause /\ pause' = pause + 1 /\ now' = (now + 1) % Clock
      /\ age' = (IF age < Clock - 1 THEN age + 1 ELSE age)
      /\ current_step' = s /\ step_start_time' = step_start_time
      /\ clean' = clean /\ condition' = condition
      /\ done' = done /\ active' = active
  BY DEF SequencerTick
<1>2. /\ now' = (IF now + 1 < Clock THEN now + 1 ELSE 0)
      /\ now' \in 0 .. Clock - 1
  BY <1>0, <1>1, Ticks
<1>3. /\ age' \in Ages /\ (age' = Clock <=> age = Clock)
      /\ pause' \in 0 .. MaxPause
  BY <1>0, <1>1 DEF Ages
<1>4. SequencerTypeOK'
  BY <1>0, <1>1, <1>2, <1>3 DEF SequencerTypeOK
<1>5. ASSUME s \in clean, Timeouts[s] > 0, age # Clock
      PROVE  TurnInv'
  <2> DEFINE start == step_start_time[s]
  <2>1. /\ start = 0 => age = pause /\ now = pause
        /\ start # 0 => Elapsed(s) <= age /\ age <= Elapsed(s) + MaxPause
        /\ age < Timeouts[s] + MaxPause + pause
    BY <1>5 DEF SequencerInv, TurnInv
  <2>2. age' = age + 1 /\ age' < Timeouts[s] + MaxPause + pause'
    BY <1>0, <1>1, <2>1
  <2>3. start = 0 => age' = pause' /\ now' = pause'
    BY <1>0, <1>1, <1>2, <2>1, <2>2
  <2>4. ASSUME start # 0
        PROVE  Elapsed(s)' <= age' /\ age' <= Elapsed(s)' + MaxPause
    <3>1. /\ Elapsed(s) = (now + Clock - start) % Clock
          /\ Elapsed(s)' = (now' + Clock - start) % Clock
      BY <1>1, <2>4 DEF Elapsed, Begun
    <3>2. start \in 0 .. Clock - 1
      BY <1>0
    <3>3. Elapsed(s) \in 0 .. Clock - 1
      BY <1>0, <3>1, <3>2, Laps
    <3>4. Elapsed(s) < Clock - 1
      BY <1>0, <1>1, <2>1, <2>4, <3>3
    <3>5. Elapsed(s)' = Elapsed(s) + 1
      <4> HIDE DEF start, s
      <4> QED BY <1>0, <1>1, <3>1, <3>2, <3>4, TickLaps
    <3>6. Elapsed(s) <= age /\ age <= Elapsed(s) + MaxPause
      BY <2>1, <2>4
    <3>7. QED BY <1>0, <2>2, <3>3, <3>5, <3>6
  <2>5. QED BY <1>1, <2>2, <2>3, <2>4 DEF TurnInv
<1>6. QED BY <1>0, <1>1, <1>3, <1>4, <1>5 DEF SequencerInv

LEMMA SequencerInitInv == SequencerInit => SequencerInv
<1> SUFFICES ASSUME SequencerInit
             PROVE  SequencerInv
  OBVIOUS
<1>1. /\ current_step = 1 /\ step_start_time \in [Steps -> 0 .. Clock - 1]
      /\ condition = FALSE /\ done = FALSE /\ active = FALSE
      /\ now \in 0 .. Clock - 1 /\ pause = 0 /\ age = Clock
      /\ clean = {s \in Steps : step_start_time[s] = 0}
  BY DEF SequencerInit
<1>2. /\ Timeouts \in Seq(Nat) /\ Len(Timeouts) > 0
      /\ Clock \in Nat /\ MaxPause \in Nat
  BY SequencerAssumption
<1>3. 1 \in Steps
  BY <1>2 DEF Steps
<1>4. {condition, done, active} \subseteq BOOLEAN
  BY <1>1
<1>5. age \in Ages /\ pause \in 0 .. MaxPause /\ clean \subseteq Steps
  BY <1>1, <1>2 DEF Ages
<1>6. SequencerTypeOK
  BY <1>1, <1>3, <1>4, <1>5 DEF SequencerTypeOK
<1>7. QED BY <1>1, <1>6 DEF SequencerInv

LEMMA SequencerNextInv ==
  SequencerInv /\ [SequencerNext]_sequencerVars => SequencerInv'
<1> SUFFICES ASSUME SequencerInv, [SequencerNext]_sequencerVars
             PROVE  SequencerInv'
  OBVIOUS
<1>1. CASE SequencerScan
  BY <1>1, SequencerScanInv
<1>2. CASE ConditionChanges
  <2>1. /\ UNCHANGED <<current_step, step_start_time, done, active, now,
                       pause, age, clean>>
        /\ condition' = ~condition
    BY <1>2 DEF ConditionChanges
  <2>2. {condition', done', active'} \subseteq BOOLEAN
    BY <2>1, SequencerTypes DEF SequencerInv
  <2>3. SequencerTypeOK'
    BY <2>1, <2>2 DEF SequencerInv, SequencerTypeOK
  <2>4. QED
    BY <2>1, <2>3 DEF SequencerInv, TurnInv, Elapsed, Begun
<1>3. CASE SequencerTick
  BY <1>3, SequencerTickInv
<1>4. CASE UNCHANGED sequencerVars
  BY <1>4 DEF sequencerVars, SequencerInv, SequencerTypeOK, TurnInv,
              Elapsed, Begun
<1>5. QED BY <1>1, <1>2, <1>3, <1>4 DEF SequencerNext

(* SequencerStep ("Timeout for this step"): for one step or more and any   *)
(* timeouts, a step whose turn began without a start time, as every turn   *)
(* but the first does, and whose condition does not hold, is left once its *)
(* timeout has passed since its first scan, wherever millis() stands.      *)
THEOREM StepsTimeOut == SequencerSpec => []SequencerTypeOK /\ StepTimeout
<1> DEFINE OnTime ==
      SequencerScan /\ current_step \in clean /\ ~condition =>
        LET timeout == Timeouts[current_step]
            since == IF age = Clock THEN 0 ELSE age
        IN  /\ StepEnds => timeout > 0 /\ since >= timeout
            /\ timeout > 0 /\ since >= timeout + MaxPause => StepEnds
<1>1. SequencerInv => SequencerTypeOK
  BY DEF SequencerInv
<1>2. SequencerInv => OnTime
  <2> SUFFICES ASSUME SequencerInv, SequencerScan, current_step \in clean,
                      ~condition
               PROVE  OnTime
    OBVIOUS
  <2> DEFINE s == current_step
  <2>0. /\ SequencerTypeOK /\ Clock \in Nat \ {0} /\ MaxPause \in Nat
        /\ s \in Steps /\ Timeouts[s] \in Nat
        /\ age \in 0 .. Clock /\ pause \in 0 .. MaxPause
    BY SequencerTypes DEF SequencerInv
  <2>1. /\ StepEnds <=> Leaves(s)
        /\ Leaves(s) <=> Timeouts[s] > 0 /\ Elapsed(s) >= Timeouts[s]
        /\ Elapsed(s) \in 0 .. Clock - 1
        /\ step_start_time[s] = 0 => Elapsed(s) = 0
    BY <2>0, SequencerScanTypes, StepReadsClock
  <2>2. CASE age = Clock
    <3>1. step_start_time[s] = 0
      BY <2>2 DEF SequencerInv
    <3>2. QED BY <2>0, <2>1, <2>2, <3>1
  <2>3. CASE age # Clock /\ Timeouts[s] > 0
    <3>1. /\ step_start_time[s] = 0 => age = pause
          /\ step_start_time[s] # 0 => Elapsed(s) <= age
                                       /\ age <= Elapsed(s) + MaxPause
      BY <2>3 DEF SequencerInv, TurnInv
    <3>2. QED BY <2>0, <2>1, <2>3, <3>1
  <2>4. CASE ~(Timeouts[s] > 0)
    BY <2>0, <2>1, <2>4
  <2>5. QED BY <2>2, <2>3, <2>4
<1>3. QED
  BY SequencerInitInv, SequencerNextInv, <1>1, <1>2, PTL
     DEF SequencerSpec, StepTimeout
------------------------------------------------------------------------------
(* Counters.  A count is an int16 as presets are: one that goes up stops   *)
(* below the preset, one that goes down at 0.                              *)
CounterInv == CountersTypeOK /\ CountsPulses

Int16 == -(MaxCount + 1) .. MaxCount

(* The facts of CountersTypeOK, one by one.                                *)
LEMMA CounterTypes ==
  ASSUME CountersTypeOK
  PROVE  /\ counter \in {"CTU", "CTD", "CTUD", "SR", "RS"}
         /\ cu \in BOOLEAN /\ cd \in BOOLEAN
         /\ load \in BOOLEAN /\ reset \in BOOLEAN
         /\ last_cu_state \in BOOLEAN /\ last_cd_state \in BOOLEAN
         /\ qu \in BOOLEAN /\ qd \in BOOLEAN
         /\ MaxCount \in Nat /\ pv \in PV /\ pv \in Int16 /\ cv \in Int16
         /\ base \in PV \cup {0} /\ base \in Int /\ net \in Int
         /\ ups \in 0 .. MaxCount
<1>1. MaxCount \in Nat /\ PV \subseteq Int16
  BY CountersAssumption DEF Int16
<1>2. /\ counter \in {"CTU", "CTD", "CTUD", "SR", "RS"}
      /\ pv \in PV /\ cv \in Int16
      /\ base \in PV \cup {0} /\ net \in Int /\ ups \in 0 .. MaxCount
  BY DEF CountersTypeOK, Int16
<1>3. /\ cu \in BOOLEAN /\ cd \in BOOLEAN
      /\ load \in BOOLEAN /\ reset \in BOOLEAN
      /\ last_cu_state \in BOOLEAN /\ last_cd_state \in BOOLEAN
      /\ qu \in BOOLEAN /\ qd \in BOOLEAN
  BY DEF CountersTypeOK
<1>4. base \in Int
  BY <1>1, <1>2 DEF Int16
<1>5. QED BY <1>1, <1>2, <1>3, <1>4

LEMMA CounterInitInv == CountersInit => CounterInv
<1> SUFFICES ASSUME CountersInit
             PROVE  CounterInv
  OBVIOUS
<1>1. /\ counter \in {"CTU", "CTD", "CTUD", "SR", "RS"}
      /\ cu = FALSE /\ cd = FALSE /\ load = FALSE /\ reset = FALSE
      /\ qu = FALSE /\ qd = FALSE
      /\ last_cu_state = FALSE /\ last_cd_state = FALSE
      /\ pv \in PV /\ cv = 0 /\ base = 0 /\ net = 0 /\ ups = 0
  BY DEF CountersInit
<1>2. cv \in -(MaxCount + 1) .. MaxCount /\ ups \in 0 .. MaxCount
  BY <1>1, CountersAssumption
<1>3. {cu, cd, load, reset} \subseteq BOOLEAN
  BY <1>1
<1>4. /\ {last_cu_state, last_cd_state} \subseteq BOOLEAN
      /\ {qu, qd} \subseteq BOOLEAN
  BY <1>1
<1>5. CountsPulses
  BY <1>1 DEF CountsPulses
<1>6. CountersTypeOK
  BY <1>1, <1>2, <1>3, <1>4 DEF CountersTypeOK
<1>7. QED BY <1>5, <1>6 DEF CounterInv

(* What a scan makes of the count, by block. *)
LEMMA CountOfScan ==
  ASSUME CountersTypeOK, evaluateCounter
  PROVE  /\ Latch => cv' = cv
         /\ ~Latch /\ Emptied => cv' = 0
         /\ ~Latch /\ ~Emptied /\ Loaded => cv' = pv
         /\ ~Latch /\ ~Emptied /\ ~Loaded => cv' = cv + Ups - Downs
         /\ cv' \in Int16
<1> USE CounterTypes DEF Int16
<1>1. CASE counter = "CTU" /\ CTU
  BY <1>1 DEF CTU, Latch, Emptied, Loaded, Ups, Downs, PulseUp, PulseDown,
              Up, upPulse, Edge
<1>2. CASE counter = "CTD" /\ CTD
  BY <1>2 DEF CTD, Latch, Emptied, Loaded, Ups, Downs, PulseUp, PulseDown,
              Down, downPulse, Edge
<1>3. CASE counter = "CTUD" /\ CTUD
  BY <1>3 DEF CTUD, Latch, Emptied, Loaded, Ups, Downs, PulseUp, PulseDown,
              Up, Down, upPulse, downPulse, Edge
<1>4. CASE (counter = "SR" /\ SR) \/ (counter = "RS" /\ RS)
  BY <1>4 DEF SR, RS, Latch
<1>5. QED BY <1>1, <1>2, <1>3, <1>4 DEF evaluateCounter

(* The flags it writes, and those it keeps of its inputs.                  *)
LEMMA FlagsOfScan ==
  ASSUME CountersTypeOK, evaluateCounter
  PROVE  /\ {last_cu_state', last_cd_state'} \subseteq BOOLEAN
         /\ {qu', qd'} \subseteq BOOLEAN
<1> USE CounterTypes
<1>1. last_cu_state' \in BOOLEAN /\ last_cd_state' \in BOOLEAN
  BY DEF evaluateCounter, CTU, CTD, CTUD, SR, RS, lastState
<1>2. CASE CTU \/ CTD \/ CTUD
  <2>1. /\ (cv' >= pv) \in BOOLEAN
        /\ (cv' = 0) \in BOOLEAN /\ (cv' <= 0) \in BOOLEAN
    OBVIOUS
  <2>2. qu' \in BOOLEAN /\ qd' \in BOOLEAN
    BY <1>2, <2>1 DEF CTU, CTD, CTUD
  <2>3. QED BY <1>1, <2>2
<1>3. CASE SR \/ RS
  <2>1. qu' \in BOOLEAN /\ qd' \in BOOLEAN
    BY <1>3 DEF SR, RS
  <2>2. QED BY <1>1, <2>1
<1>4. QED BY <1>2, <1>3 DEF evaluateCounter

LEMMA CounterScanInv ==
  ASSUME CounterInv, CounterScan
  PROVE  CounterInv'
<1> USE DEF CounterInv
<1>1. evaluateCounter /\ UNCHANGED <<counter, inputs>>
  BY DEF CounterScan
<1>2. Ups \in Int /\ Downs \in Int
  BY DEF Ups, Downs
<1>3. ASSUME base' \in PV \cup {0}, net' \in Int, ups' \in 0 .. MaxCount
      PROVE  CountersTypeOK'
  <2>1. cv' \in -(MaxCount + 1) .. MaxCount
    BY <1>1, CountOfScan DEF Int16
  <2>2. {cu', cd', load', reset'} \subseteq BOOLEAN
    BY <1>1, CounterTypes DEF inputs
  <2>3. counter' \in {"CTU", "CTD", "CTUD", "SR", "RS"} /\ pv' \in PV
    BY <1>1, CounterTypes DEF inputs
  <2>4. QED BY <1>1, <1>3, <2>1, <2>2, <2>3, FlagsOfScan DEF CountersTypeOK
<1>4. CASE Latch
  <2>1. base' = base /\ net' = net /\ ups' = ups /\ cv' = cv
    BY <1>1, <1>4, CountOfScan DEF CounterScan, history
  <2>2. CountersTypeOK'
    BY <1>3, <2>1, CounterTypes
  <2>3. QED BY <2>1, <2>2 DEF CountsPulses
<1>5. CASE ~Latch /\ (Emptied \/ Loaded)
  <2>1. cv' = (IF Emptied THEN 0 ELSE pv)
    BY <1>1, <1>5, CountOfScan
  <2>2. base' = (IF Emptied THEN 0 ELSE pv) /\ net' = 0 /\ ups' = 0
    BY <1>5 DEF CounterScan
  <2>3. CountersTypeOK'
    BY <1>3, <2>2, CounterTypes
  <2>4. cv' = base' + net'
    BY <2>1, <2>2, CounterTypes DEF Int16
  <2>5. QED BY <2>3, <2>4 DEF CountsPulses
<1>6. CASE ~Latch /\ ~Emptied /\ ~Loaded
  <2>1. /\ base' = base /\ net' = net + Ups - Downs
        /\ ups' = IF PulseUp /\ ups < MaxCount THEN ups + 1 ELSE ups
    BY <1>6 DEF CounterScan
  <2>2. cv' = cv + Ups - Downs
    BY <1>1, <1>6, CountOfScan
  <2>3. cv = base + net /\ base \in Int /\ net \in Int
    BY CounterTypes DEF CountsPulses
  <2>4. cv' = base' + net'
    BY <1>2, <2>1, <2>2, <2>3
  <2>5. net' \in Int /\ base' \in PV \cup {0} /\ ups' \in 0 .. MaxCount
    BY <1>2, <2>1, CounterTypes
  <2>6. QED BY <1>3, <2>4, <2>5 DEF CountsPulses
<1>7. QED BY <1>4, <1>5, <1>6

LEMMA CounterNextInv == CounterInv /\ [CountersNext]_counterVars => CounterInv'
<1> SUFFICES ASSUME CounterInv, [CountersNext]_counterVars
             PROVE  CounterInv'
  OBVIOUS
<1>1. CASE CounterScan
  BY <1>1, CounterScanInv
<1>2. CASE CounterInput
  <2>1. /\ counter' = counter /\ UNCHANGED <<cv, qu, qd>>
        /\ UNCHANGED <<last_cu_state, last_cd_state, base, net, ups>>
    BY <1>2 DEF CounterInput, outputs, lastState, history
  <2>2. cu' \in BOOLEAN /\ cd' \in BOOLEAN /\ load' \in BOOLEAN
        /\ reset' \in BOOLEAN /\ pv' \in PV
    BY <1>2, CounterTypes DEF CounterInput, CounterInv
  <2>3. {cu', cd', load', reset'} \subseteq BOOLEAN
    BY <2>2
  <2>4. CountersTypeOK'
    BY <2>1, <2>2, <2>3 DEF CounterInv, CountersTypeOK
  <2>5. QED BY <2>1, <2>4 DEF CounterInv, CountsPulses
<1>3. CASE UNCHANGED counterVars
  BY <1>3 DEF counterVars, inputs, outputs, lastState, history, CounterInv,
              CountersTypeOK, CountsPulses
<1>4. QED BY <1>1, <1>2, <1>3 DEF CountersNext

(* BlockCTU, BlockCTD, BlockCTUD: each pulse is counted once, however many *)
(* scans it lasts and whatever becomes of the preset, but for those up     *)
(* that find it at the preset or above and those down that find it at      *)
(* zero or below; and no count leaves the range of its type.               *)
THEOREM CounterCounts == CountersSpec => []CountersTypeOK /\ []CountsPulses
<1>1. CounterInv => CountersTypeOK /\ CountsPulses
  BY DEF CounterInv
<1>2. QED
  BY CounterInitInv, CounterNextInv, <1>1, PTL DEF CountersSpec
------------------------------------------------------------------------------
(* What the program is shown is what the block compares with; until the    *)
(* first scan both are as configure left them.                             *)
StatusInv == StatusTypeOK /\ is_online = lastKnownStatus

LEMMA StatusInitInv == StatusInit => StatusInv
BY DEF StatusInit, StatusInv, StatusTypeOK

LEMMA StatusNextInv == StatusInv /\ [StatusNext]_statusVars => StatusInv'
<1> SUFFICES ASSUME StatusInv, [StatusNext]_statusVars
             PROVE  StatusInv'
  OBVIOUS
<1>1. CASE StatusScan
  <2>1. currentStatus \in BOOLEAN
    BY <1>1 DEF StatusScan, currentStatus, StatusInv, StatusTypeOK
  <2>2. on_online' \in BOOLEAN /\ on_offline' \in BOOLEAN
    BY <1>1, <2>1 DEF StatusScan, updateTriggers, triggers, StatusInv, StatusTypeOK
  <2>3. QED
    BY <1>1, <2>1, <2>2 DEF StatusScan, memory, StatusInv, StatusTypeOK
<1>2. CASE EndpointChanges
  BY <1>2 DEF EndpointChanges, triggers, StatusInv, StatusTypeOK
<1>3. CASE NameChanges
  BY <1>3 DEF NameChanges, triggers, StatusInv, StatusTypeOK
<1>4. CASE UNCHANGED statusVars
  BY <1>4 DEF statusVars, memory, triggers, StatusInv, StatusTypeOK
<1>5. QED BY <1>1, <1>2, <1>3, <1>4 DEF StatusNext

(* BlockStatusHandler: a trigger is set in exactly the scans that find the *)
(* same endpoint as the scan before, with another status than the program  *)
(* has been shown.                                                         *)
THEOREM StatusTriggers == StatusSpec => TriggersOnChange
<1> DEFINE Step ==
      StatusScan =>
        /\ ~on_online /\ on_online' <=>
             /\ endpoint_name = monitoredEndpoint /\ initialized
             /\ ~is_online /\ isOnline[endpoint_name] /\ ~on_online
        /\ ~on_offline /\ on_offline' <=>
             /\ endpoint_name = monitoredEndpoint /\ initialized
             /\ is_online /\ ~isOnline[endpoint_name] /\ ~on_offline
<1>1. StatusInv => Step
  <2> SUFFICES ASSUME StatusInv, StatusScan
               PROVE  Step
    OBVIOUS
  <2>1. /\ currentStatus \in BOOLEAN /\ is_online \in BOOLEAN
        /\ on_online \in BOOLEAN /\ on_offline \in BOOLEAN
        /\ is_online = lastKnownStatus
    BY DEF StatusScan, currentStatus, StatusInv, StatusTypeOK
  <2>2. CASE ~SameEndpoint
    BY <2>2 DEF StatusScan, updateTriggers, SameEndpoint, triggers
  <2>3. CASE SameEndpoint /\ currentStatus # lastKnownStatus
    BY <2>1, <2>3 DEF StatusScan, updateTriggers, SameEndpoint, currentStatus
  <2>4. CASE SameEndpoint /\ currentStatus = lastKnownStatus
    BY <2>1, <2>4 DEF StatusScan, updateTriggers, SameEndpoint, currentStatus
  <2>5. QED BY <2>2, <2>3, <2>4
<1>2. QED
  BY StatusInitInv, StatusNextInv, <1>1, PTL DEF StatusSpec, TriggersOnChange
------------------------------------------------------------------------------
(* Induction over the numbers, as far as a set can say what is proved.     *)
LEMMA LeastNatural ==
  ASSUME NEW S \in SUBSET Nat, S # {}
  PROVE  \E n \in S : \A m \in S : n <= m
<1> DEFINE R == {mn \in Nat \X Nat : mn[1] < mn[2]}
<1>1. IsWellFoundedOn(R, Nat)
  BY NatLessThanWellFounded, Zenon DEF OpToRel
<1>2. \A m, n \in Nat : m < n => <<m, n>> \in R
  OBVIOUS
<1> HIDE DEF R
<1>3. PICK n \in S : \A m \in S : <<m, n>> \notin R
  BY <1>1, WFMin
<1>4. \A m \in S : ~(m < n)
  BY <1>2, <1>3
<1>5. QED BY <1>3, <1>4

LEMMA SetInduction ==
  ASSUME NEW T, 0 \in T, \A n \in Nat : n \in T => n + 1 \in T
  PROVE  \A n \in Nat : n \in T
<1> DEFINE S == Nat \ T
<1>1. SUFFICES ASSUME S # {}
               PROVE  FALSE
  OBVIOUS
<1>2. PICK n \in S : \A m \in S : n <= m
  <2> HIDE DEF S
  <2>1. S \in SUBSET Nat
    BY DEF S
  <2>2. QED BY <1>1, <2>1, LeastNatural
<1>3. n \in Nat /\ n # 0 /\ n - 1 \in Nat
  BY <1>2
<1>4. n - 1 \notin S
  BY <1>2, <1>3
<1>5. QED BY <1>2, <1>3, <1>4

(* The same up to a bound.                                                 *)
LEMMA BoundedInduction ==
  ASSUME NEW N \in Nat, NEW T, 0 \in T,
         \A n \in 1 .. N : n - 1 \in T => n \in T
  PROVE  \A n \in 0 .. N : n \in T
<1> DEFINE U == {n \in Nat : n <= N => n \in T}
<1>1. 0 \in U
  OBVIOUS
<1>2. ASSUME NEW n \in Nat, n \in U
      PROVE  n + 1 \in U
  <2>1. SUFFICES ASSUME n + 1 <= N
                 PROVE  n + 1 \in T
    OBVIOUS
  <2>2. n + 1 \in 1 .. N /\ n + 1 - 1 = n /\ n \in T
    BY <1>2, <2>1
  <2>3. QED BY <2>2
<1>3. \A n \in Nat : n \in U
  <2> HIDE DEF U
  <2> QED BY <1>1, <1>2, SetInduction
<1>4. QED BY <1>3

(* A function that is defined from its value at the number before exists,  *)
(* so that the one that is chosen is one.                                  *)
Iterates(f, N, b, step) ==
  f = [n \in 0 .. N |-> IF n = 0 THEN b ELSE step[<<f[n - 1], n>>]]

LEMMA Iteration ==
  ASSUME NEW A, NEW N \in Nat, NEW b \in A,
         NEW step \in [A \X (1 .. N) -> A]
  PROVE  \E f \in [0 .. N -> A] : Iterates(f, N, b, step)
<1> DEFINE T == {n \in 0 .. N :
                   \E f \in [0 .. n -> A] : Iterates(f, n, b, step)}
<1>1. 0 \in T
  <2>1. [i \in 0 .. 0 |-> b] \in [0 .. 0 -> A]
    OBVIOUS
  <2>2. Iterates([i \in 0 .. 0 |-> b], 0, b, step)
    BY DEF Iterates
  <2>3. QED BY <2>1, <2>2
<1>2. ASSUME NEW n \in 1 .. N, n - 1 \in T
      PROVE  n \in T
  <2>1. PICK f \in [0 .. n - 1 -> A] : Iterates(f, n - 1, b, step)
    BY <1>2
  <2> DEFINE next == step[<<f[n - 1], n>>]
             g == [i \in 0 .. n |-> IF i = n THEN next ELSE f[i]]
  <2>2. next \in A
    <3>1. <<f[n - 1], n>> \in A \X (1 .. N)
      OBVIOUS
    <3>2. QED BY <3>1
  <2> HIDE DEF next
  <2>3. g \in [0 .. n -> A]
    BY <2>2
  <2>4. ASSUME NEW i \in 0 .. n
        PROVE  g[i] = IF i = 0 THEN b ELSE step[<<g[i - 1], i>>]
    <3>1. CASE i = n
      <4>1. g[i] = next /\ g[i - 1] = f[n - 1] /\ i # 0
        BY <3>1
      <4>2. QED BY <3>1, <4>1 DEF next
    <3>2. CASE i # n
      <4>1. i \in 0 .. n - 1 /\ g[i] = f[i] /\ (i # 0 => g[i - 1] = f[i - 1])
        BY <3>2
      <4>2. f[i] = IF i = 0 THEN b ELSE step[<<f[i - 1], i>>]
        BY <2>1, <4>1 DEF Iterates
      <4>3. QED BY <4>1, <4>2
    <3>3. QED BY <3>1, <3>2
  <2>5. Iterates(g, n, b, step)
    <3>1. g = [i \in 0 .. n |-> g[i]]
      OBVIOUS
    <3> HIDE DEF g
    <3>2. QED BY <2>4, <3>1 DEF Iterates
  <2>6. QED BY <2>3, <2>5
<1>3. N \in T
  <2> HIDE DEF T
  <2> QED BY <1>1, <1>2, BoundedInduction
<1>4. QED BY <1>3
------------------------------------------------------------------------------
(* The powers of two.                                                      *)
LEMMA Widths ==
  /\ ByteBits \in Nat \ {0} /\ IntBits \in Nat \ {0}
  /\ ByteBits <= IntBits /\ MaxInputs \in Nat
BY FunctionsAssumption

LEMMA Powers ==
  /\ DOMAIN Pow2 = 0 .. IntBits
  /\ Pow2[0] = 1
  /\ \A n \in 1 .. IntBits : Pow2[n] = 2 * Pow2[n - 1]
  /\ \A n \in 0 .. IntBits : Pow2[n] \in Nat \ {0}
<1>1. IntBits \in Nat
  BY Widths
<1> DEFINE step == [x \in (Nat \ {0}) \X (1 .. IntBits) |-> 2 * x[1]]
<1>2. step \in [(Nat \ {0}) \X (1 .. IntBits) -> Nat \ {0}]
  OBVIOUS
<1>3. PICK f \in [0 .. IntBits -> Nat \ {0}] : Iterates(f, IntBits, 1, step)
  <2> HIDE DEF step
  <2>1. 1 \in Nat \ {0}
    OBVIOUS
  <2>2. QED BY <1>1, <1>2, <2>1, Iteration
<1>4. f = [n \in 0 .. IntBits |-> IF n = 0 THEN 1 ELSE 2 * f[n - 1]]
  <2>1. ASSUME NEW n \in 0 .. IntBits
        PROVE  f[n] = IF n = 0 THEN 1 ELSE 2 * f[n - 1]
    <3>1. f[n] = IF n = 0 THEN 1 ELSE step[<<f[n - 1], n>>]
      BY <1>3 DEF Iterates
    <3>2. n # 0 => <<f[n - 1], n>> \in (Nat \ {0}) \X (1 .. IntBits)
      BY <1>1
    <3>3. QED BY <3>1, <3>2
  <2>2. QED BY <2>1
<1>5. Pow2 = [n \in 0 .. IntBits |-> IF n = 0 THEN 1 ELSE 2 * Pow2[n - 1]]
  BY <1>4 DEF Pow2
<1>6. /\ DOMAIN Pow2 = 0 .. IntBits
      /\ Pow2[0] = 1
      /\ \A n \in 1 .. IntBits : Pow2[n] = 2 * Pow2[n - 1]
  BY <1>1, <1>5
<1> DEFINE T == {n \in 0 .. IntBits : Pow2[n] \in Nat \ {0}}
<1>7. 0 \in T
  BY <1>1, <1>6
<1>8. \A n \in 1 .. IntBits : n - 1 \in T => n \in T
  BY <1>1, <1>6
<1>9. \A n \in 0 .. IntBits : n \in T
  <2> HIDE DEF T
  <2> QED BY <1>1, <1>7, <1>8, BoundedInduction
<1>10. QED BY <1>6, <1>9

LEMMA PowersAdd ==
  ASSUME NEW m \in Nat, NEW n \in Nat, m + n <= IntBits
  PROVE  /\ Pow2[m] \in Nat \ {0} /\ Pow2[n] \in Nat \ {0}
         /\ Pow2[m + n] = Pow2[m] * Pow2[n]
         /\ Pow2[m] <= Pow2[m + n]
<1>1. m \in 0 .. IntBits /\ n \in 0 .. IntBits /\ IntBits \in Nat
  BY Widths
<1>2. Pow2[m] \in Nat \ {0} /\ Pow2[n] \in Nat \ {0}
  BY <1>1, Powers
<1> DEFINE T == {k \in 0 .. IntBits :
                   m + k <= IntBits => Pow2[m + k] = Pow2[m] * Pow2[k]}
<1>3. 0 \in T
  BY <1>1, <1>2, Powers
<1>4. ASSUME NEW k \in 1 .. IntBits, k - 1 \in T
      PROVE  k \in T
  <2>1. SUFFICES ASSUME m + k <= IntBits
                 PROVE  Pow2[m + k] = Pow2[m] * Pow2[k]
    OBVIOUS
  <2>2. Pow2[m + (k - 1)] = Pow2[m] * Pow2[k - 1]
    BY <1>1, <1>4, <2>1
  <2>3. /\ m + k \in 1 .. IntBits /\ m + k - 1 = m + (k - 1)
        /\ k - 1 \in 0 .. IntBits
    BY <1>1, <2>1
  <2>4. Pow2[m + k] = 2 * Pow2[m + (k - 1)] /\ Pow2[k] = 2 * Pow2[k - 1]
    BY <2>3, Powers
  <2>5. Pow2[k - 1] \in Nat
    BY <2>3, Powers
  <2>6. Pow2[m] * (2 * Pow2[k - 1]) = 2 * (Pow2[m] * Pow2[k - 1])
    BY <1>2, <2>5
  <2>7. QED BY <2>2, <2>4, <2>6
<1>5. n \in T
  <2> HIDE DEF T
  <2> QED BY <1>1, <1>3, <1>4, BoundedInduction
<1>6. Pow2[m + n] = Pow2[m] * Pow2[n]
  BY <1>5
<1>7. Pow2[m] <= Pow2[m] * Pow2[n]
  BY <1>2
<1>8. QED BY <1>2, <1>6, <1>7

LEMMA PowersGrow ==
  ASSUME NEW m \in 0 .. IntBits, NEW n \in 0 .. IntBits, m <= n
  PROVE  Pow2[m] <= Pow2[n]
<1>1. m \in Nat /\ n - m \in Nat /\ m + (n - m) = n /\ n <= IntBits
  BY Widths
<1>2. Pow2[m] <= Pow2[m + (n - m)]
  <2> DEFINE d == n - m
  <2> HIDE DEF d
  <2>1. d \in Nat /\ m + d <= IntBits
    BY <1>1 DEF d
  <2>2. Pow2[m] <= Pow2[m + d]
    BY <1>1, <2>1, PowersAdd
  <2>3. QED BY <2>2 DEF d
<1>3. QED BY <1>1, <1>2

(* A width and the half of its range.                                      *)
LEMMA Halves ==
  ASSUME NEW bits \in {ByteBits, IntBits}
  PROVE  /\ bits \in 1 .. IntBits
         /\ Pow2[bits - 1] \in Nat \ {0}
         /\ Pow2[bits] = 2 * Pow2[bits - 1]
<1>1. bits \in 1 .. IntBits /\ bits - 1 \in 0 .. IntBits
  BY Widths
<1>2. QED BY <1>1, Powers
------------------------------------------------------------------------------
(* Reading a number in a width.                                            *)
LEMMA Modulo ==
  ASSUME NEW N \in Nat \ {0}, NEW x \in Int
  PROVE  /\ x % N \in 0 .. N - 1 /\ x \div N \in Int
         /\ x = N * (x \div N) + (x % N)
OBVIOUS

LEMMA SignedFits ==
  ASSUME NEW bits \in {ByteBits, IntBits}, NEW n \in Int
  PROVE  Signed(n, bits) \in SignedRange(bits)
<1> DEFINE H == Pow2[bits - 1]
           low == n % Pow2[bits]
<1>1. H \in Nat \ {0} /\ Pow2[bits] = 2 * H
  BY Halves
<1>2. low \in 0 .. 2 * H - 1
  <2> HIDE DEF H
  <2>1. 2 * H \in Nat \ {0}
    BY <1>1
  <2>2. QED BY <1>1, <2>1, Modulo
<1>3. Signed(n, bits) = IF low >= H THEN low - 2 * H ELSE low
  BY <1>1 DEF Signed
<1> HIDE DEF low
<1>4. Signed(n, bits) \in -H .. H - 1
  <2> HIDE DEF H
  <2> QED BY <1>1, <1>2, <1>3
<1>5. QED BY <1>4 DEF SignedRange

LEMMA UnsignedFits ==
  ASSUME NEW bits \in {ByteBits, IntBits}, NEW n \in Int
  PROVE  Unsigned(n, bits) \in UnsignedRange(bits)
<1>1. Pow2[bits - 1] \in Nat \ {0} /\ Pow2[bits] = 2 * Pow2[bits - 1]
  BY Halves
<1> DEFINE P == Pow2[bits]
<1>2. P \in Nat \ {0}
  BY <1>1
<1>3. n % P \in 0 .. P - 1
  <2> HIDE DEF P
  <2> QED BY <1>2, Modulo
<1>4. QED BY <1>3 DEF Unsigned, UnsignedRange

(* A number that has the width is read as it is; one that is a lap too     *)
(* large or too small is read a lap less or more.                          *)
LEMMA SignedReads ==
  ASSUME NEW bits \in {ByteBits, IntBits},
         NEW n \in -(2 * Pow2[bits - 1]) .. 4 * Pow2[bits - 1] - 1
  PROVE  LET H == Pow2[bits - 1]
         IN  Signed(n, bits) = IF n < -H THEN n + 2 * H
                               ELSE IF n < H THEN n
                               ELSE IF n < 3 * H THEN n - 2 * H
                               ELSE n - 4 * H
<1> DEFINE H == Pow2[bits - 1]
           low == n % Pow2[bits]
<1>1. H \in Nat \ {0} /\ Pow2[bits] = 2 * H
  BY Halves
<1>2. low = IF n < 0 THEN n + 2 * H ELSE IF n < 2 * H THEN n ELSE n - 2 * H
  <2> DEFINE N == 2 * H
  <2>1. N \in Nat \ {0} /\ n \in -N .. 2 * N - 1 /\ Pow2[bits] = N
    BY <1>1
  <2> HIDE DEF N
  <2>2. CASE n = -N
    <3>1. n % N = 0
      BY <2>1, <2>2
    <3>2. QED BY <1>1, <2>1, <2>2, <3>1 DEF N
  <2>3. CASE n # -N
    <3>1. N \in Nat \ {0} /\ n \in -(N - 1) .. 2 * N - 1
      BY <2>1, <2>3
    <3>2. n % N = IF n < 0 THEN n + N ELSE IF n < N THEN n ELSE n - N
      BY <3>1, Lap
    <3>3. QED BY <2>1, <3>2 DEF N
  <2>4. QED BY <2>2, <2>3
<1>3. Signed(n, bits) = IF low >= H THEN low - 2 * H ELSE low
  BY <1>1 DEF Signed
<1> HIDE DEF low
<1>4. QED
  <2> HIDE DEF H
  <2>1. n \in Int
    BY <1>1
  <2>2. Signed(n, bits) = IF n < -H THEN n + 2 * H
                          ELSE IF n < H THEN n
                          ELSE IF n < 3 * H THEN n - 2 * H
                          ELSE n - 4 * H
    BY <1>1, <1>2, <1>3, <2>1
  <2>3. QED BY <2>2 DEF H

LEMMA UnsignedReads ==
  ASSUME NEW bits \in {ByteBits, IntBits},
         NEW n \in -Pow2[bits - 1] .. 2 * Pow2[bits - 1] - 1
  PROVE  Unsigned(n, bits) = IF n < 0 THEN n + Pow2[bits] ELSE n
<1> DEFINE N == Pow2[bits]
<1>1. N \in Nat \ {0} /\ n \in -(N - 1) .. 2 * N - 1 /\ n < N
  BY Halves
<1>2. n % N = IF n < 0 THEN n + N ELSE IF n < N THEN n ELSE n - N
  <2> HIDE DEF N
  <2> QED BY <1>1, Lap
<1>3. QED BY <1>1, <1>2 DEF Unsigned
------------------------------------------------------------------------------
(* The remainder of a multiple is nothing; the quotient is the one number  *)
(* that fits.                                                              *)
LEMMA Quotient ==
  ASSUME NEW N \in Nat \ {0}, NEW x \in Int, NEW k \in Int,
         N * k <= x, x < N * k + N
  PROVE  x \div N = k /\ x % N = x - N * k
<1> DEFINE d == x \div N
           r == x % N
<1>1. d \in Int /\ r \in 0 .. N - 1 /\ x = N * d + r
  BY Modulo
<1> HIDE DEF d, r
<1> DEFINE e == k - d
<1>2. e \in Int /\ N * k = N * d + N * e
  BY <1>1
<1>3. N * d \in Int /\ N * e \in Int
  BY <1>2, <1>1
<1>4. N * e < N /\ N * e > -N
  BY <1>1, <1>2, <1>3
<1>5. e = 0
  <2> HIDE DEF e
  <2>1. CASE e >= 1
    <3>1. N * e >= N
      BY <1>2, <2>1
    <3>2. QED BY <1>3, <1>4, <3>1
  <2>2. CASE e <= -1
    <3>1. N * e <= -N
      BY <1>2, <2>2
    <3>2. QED BY <1>3, <1>4, <3>1
  <2>3. QED BY <1>2, <2>1, <2>2
<1>6. d = k
  BY <1>1, <1>5
<1>7. QED BY <1>1, <1>6 DEF d, r

(* MOD: the remainder of C.                                                *)
LEMMA Remainder ==
  ASSUME NEW a \in Int, NEW b \in Int, b # 0
  PROVE  LET r == MOD(<<a, b>>)
         IN  /\ r \in Int /\ Abs(r) < Abs(b)
             /\ (a - r) % Abs(b) = 0
             /\ a * r >= 0
             /\ IF a < 0 THEN a <= r /\ r <= 0 ELSE 0 <= r /\ r <= a
<1> DEFINE N == Abs(b)
           c == Abs(a)
           d == c \div N
           s == c % N
           r == MOD(<<a, b>>)
<1>1. N \in Nat \ {0} /\ c \in Nat /\ c = (IF a < 0 THEN -a ELSE a)
  BY DEF Abs
<1>2. r = IF a < 0 THEN -s ELSE s
  BY <1>1 DEF MOD
<1>3. d \in Int /\ s \in 0 .. N - 1 /\ c = N * d + s
  <2> HIDE DEF N, c
  <2>1. N \in Nat \ {0} /\ c \in Int
    BY <1>1
  <2>2. QED BY <2>1, Modulo
<1> HIDE DEF N, c, d, s
<1>4. N * d \in Int /\ N * (-d) = -(N * d) /\ N * (-d) \in Int
  BY <1>1, <1>3
<1>5. d >= 0
  <2>1. CASE d <= -1
    <3>1. N * d <= -N
      BY <1>1, <1>3, <2>1
    <3>2. QED BY <1>1, <1>3, <1>4, <3>1
  <2>2. QED BY <1>3, <2>1
<1>6. N * d >= 0
  BY <1>1, <1>3, <1>5
<1> HIDE DEF r
<1>7. r \in Int /\ (IF a < 0 THEN a <= r /\ r <= 0 ELSE 0 <= r /\ r <= a)
  BY <1>1, <1>2, <1>3, <1>4, <1>6
<1>8. Abs(r) = s
  BY <1>2, <1>3 DEF Abs
<1>9. (a - r) % N = 0
  <2> DEFINE k == IF a < 0 THEN -d ELSE d
             x == a - r
  <2>1. x = N * k /\ k \in Int
    BY <1>1, <1>2, <1>3, <1>4
  <2>2. N * k \in Int
    BY <1>4
  <2>3. x \in Int /\ N * k <= x /\ x < N * k + N
    BY <1>1, <1>7, <2>1, <2>2
  <2>4. x - N * k = 0
    BY <2>1, <2>2
  <2> HIDE DEF x, k
  <2>5. x % N = x - N * k
    BY <1>1, <2>1, <2>3, Quotient
  <2>6. x % N = 0
    BY <2>4, <2>5
  <2>7. QED BY <2>6 DEF x
<1>10. a * r >= 0
  <2>1. CASE a < 0
    <3>1. -a \in Nat /\ -r \in Nat /\ a * r = (-a) * (-r)
      BY <1>7, <2>1
    <3>2. (-a) * (-r) >= 0
      BY <3>1
    <3>3. QED BY <3>1, <3>2
  <2>2. CASE ~(a < 0)
    BY <1>7, <2>2
  <2>3. QED BY <2>1, <2>2
<1>11. Abs(r) < N
  BY <1>1, <1>3, <1>8
<1>12. QED BY <1>7, <1>9, <1>10, <1>11 DEF r, N
------------------------------------------------------------------------------
(* XOR: what it makes of the inputs up to each is the parity of those that *)
(* are set.                                                                *)
LEMMA Parity ==
  ASSUME NEW N \in Nat, NEW b \in [1 .. N -> BOOLEAN]
  PROVE  /\ XOR(b) \in BOOLEAN
         /\ XOR(b) <=> Cardinality({i \in 1 .. N : b[i]}) % 2 = 1
<1> DEFINE step == [x \in BOOLEAN \X (1 .. N) |-> x[1] # b[x[2]]]
           result == CHOOSE f : f = [n \in 0 .. Len(b) |->
                       IF n = 0 THEN FALSE ELSE f[n - 1] # b[n]]
<1>1. Len(b) = N
  OBVIOUS
<1>2. step \in [BOOLEAN \X (1 .. N) -> BOOLEAN]
  OBVIOUS
<1>3. PICK f \in [0 .. N -> BOOLEAN] : Iterates(f, N, FALSE, step)
  <2> HIDE DEF step
  <2>1. FALSE \in BOOLEAN
    OBVIOUS
  <2>2. QED BY <1>2, <2>1, Iteration
<1>4. f = [n \in 0 .. Len(b) |-> IF n = 0 THEN FALSE ELSE f[n - 1] # b[n]]
  <2>1. ASSUME NEW n \in 0 .. N
        PROVE  f[n] = IF n = 0 THEN FALSE ELSE f[n - 1] # b[n]
    <3>1. f[n] = IF n = 0 THEN FALSE ELSE step[<<f[n - 1], n>>]
      BY <1>3 DEF Iterates
    <3>2. n # 0 => <<f[n - 1], n>> \in BOOLEAN \X (1 .. N)
      OBVIOUS
    <3>3. n # 0 => step[<<f[n - 1], n>>] = (f[n - 1] # b[n])
      BY <3>2
    <3> HIDE DEF step
    <3>4. QED BY <3>1, <3>3
  <2>2. f = [n \in 0 .. N |-> f[n]]
    OBVIOUS
  <2>3. QED BY <1>1, <2>1, <2>2
<1>5. XOR(b) = result[Len(b)]
  BY DEF XOR
<1>6. result = [n \in 0 .. Len(b) |->
                  IF n = 0 THEN FALSE ELSE result[n - 1] # b[n]]
  BY <1>4
<1> HIDE DEF result
<1> DEFINE Set(n) == {i \in 1 .. n : b[i]}
           T == {n \in 0 .. N :
                   /\ result[n] \in BOOLEAN
                   /\ IsFiniteSet(Set(n))
                   /\ result[n] <=> Cardinality(Set(n)) % 2 = 1}
<1>7. 0 \in T
  <2>1. Set(0) = {}
    OBVIOUS
  <2>2. result[0] = FALSE
    BY <1>1, <1>6
  <2>3. IsFiniteSet(Set(0)) /\ Cardinality(Set(0)) = 0
    BY <2>1, FS_EmptySet
  <2> HIDE DEF Set
  <2>4. 0 \in 0 .. N /\ ~(Cardinality(Set(0)) % 2 = 1)
    BY <2>3
  <2>5. QED BY <2>2, <2>3, <2>4, Zenon
<1>8. ASSUME NEW n \in 1 .. N, n - 1 \in T
      PROVE  n \in T
  <2>1. result[n] = (result[n - 1] # b[n])
    <3>1. n \in 0 .. Len(b) /\ n # 0
      BY <1>1
    <3>2. QED BY <1>6, <3>1, Zenon
  <2>2. Set(n) = IF b[n] THEN Set(n - 1) \cup {n} ELSE Set(n - 1)
    OBVIOUS
  <2>3. n \notin Set(n - 1)
    OBVIOUS
  <2>4. b[n] \in BOOLEAN
    OBVIOUS
  <2>5. /\ result[n - 1] \in BOOLEAN /\ IsFiniteSet(Set(n - 1))
        /\ result[n - 1] <=> Cardinality(Set(n - 1)) % 2 = 1
    BY <1>8
  <2> HIDE DEF Set
  <2>6. Cardinality(Set(n - 1)) \in Nat
    BY <2>5, FS_CardinalityType
  <2>7. CASE b[n]
    <3>1. /\ IsFiniteSet(Set(n))
          /\ Cardinality(Set(n)) = Cardinality(Set(n - 1)) + 1
      <4>1. Set(n) = Set(n - 1) \cup {n}
        BY <2>2, <2>7
      <4> DEFINE S == Set(n - 1)
      <4> HIDE DEF S
      <4>2. n \notin S /\ IsFiniteSet(S)
        BY <2>3, <2>5 DEF S
      <4>3. /\ IsFiniteSet(S \cup {n})
            /\ Cardinality(S \cup {n}) = Cardinality(S) + 1
        BY <4>2, FS_AddElement
      <4>4. QED BY <4>1, <4>3 DEF S
    <3>2. Cardinality(Set(n)) % 2 = 1 <=> ~(Cardinality(Set(n - 1)) % 2 = 1)
      BY <2>6, <3>1
    <3>3. result[n] \in BOOLEAN /\ (result[n] <=> ~result[n - 1])
      BY <2>1, <2>5, <2>7
    <3>4. QED BY <2>5, <3>1, <3>2, <3>3
  <2>8. CASE ~b[n]
    <3>1. result[n] \in BOOLEAN /\ (result[n] <=> result[n - 1])
      BY <2>1, <2>4, <2>5, <2>8
    <3>2. QED BY <2>2, <2>5, <2>8, <3>1
  <2>9. QED BY <2>7, <2>8
<1>9. N \in T
  <2> HIDE DEF T
  <2> QED BY <1>7, <1>8, BoundedInduction
<1>10. QED BY <1>1, <1>5, <1>9
------------------------------------------------------------------------------
(* The bits of a byte.                                                     *)
LEMMA SmallQuotient ==
  ASSUME NEW N \in Nat \ {0}, NEW x \in 0 .. 2 * N - 1
  PROVE  x \div N = IF x < N THEN 0 ELSE 1
<1> DEFINE d == x \div N
<1>1. d \in Int /\ x % N \in 0 .. N - 1 /\ x = N * d + (x % N)
  BY Modulo
<1> HIDE DEF d
<1>2. N * d \in Int
  BY <1>1
<1>3. d <= -1 => N * d <= -N
  BY <1>1
<1>4. d >= 2 => N * d >= 2 * N
  BY <1>1
<1>5. N * 0 = 0 /\ N * 1 = N
  OBVIOUS
<1>6. d = 0 \/ d = 1
  BY <1>1, <1>2, <1>3, <1>4
<1>7. QED BY <1>1, <1>2, <1>5, <1>6 DEF d

(* A number below 2^n and 2^n together have the number's bits and one      *)
(* more.                                                                   *)
LEMMA OneBitMore ==
  ASSUME NEW n \in Nat, n < IntBits, NEW v \in Nat, v < Pow2[n],
         NEW i \in 1 .. IntBits
  PROVE  /\ i <= n => ((v + Pow2[n]) \div Pow2[i - 1]) % 2
                        = (v \div Pow2[i - 1]) % 2
         /\ i = n + 1 => (v + Pow2[n]) \div Pow2[i - 1] = 1
         /\ i > n + 1 => (v + Pow2[n]) \div Pow2[i - 1] = 0
<1> DEFINE M == Pow2[i - 1]
           P == Pow2[n]
<1>1. IntBits \in Nat /\ i - 1 \in 0 .. IntBits /\ n \in 0 .. IntBits
  BY Widths
<1>2. M \in Nat \ {0} /\ P \in Nat \ {0}
  BY <1>1, Powers
<1>3. ASSUME i <= n
      PROVE  ((v + P) \div M) % 2 = (v \div M) % 2
  <2> DEFINE K == Pow2[n - i]
             w == n - i
  <2>1. /\ w \in Nat /\ i \in Nat /\ i + w = n
        /\ n <= IntBits /\ i \in 1 .. IntBits
    BY <1>1, <1>3
  <2>2. Pow2[i + w] = Pow2[i] * Pow2[w] /\ Pow2[w] \in Nat \ {0}
    <3> HIDE DEF w
    <3> QED BY <2>1, PowersAdd
  <2>3. P = Pow2[i] * K /\ K \in Nat \ {0}
    BY <2>1, <2>2
  <2>4. Pow2[i] = 2 * M
    BY <2>1, Powers
  <2> DEFINE d == v \div M
  <2> HIDE DEF M, K, w
  <2>5. d \in Int /\ v % M \in 0 .. M - 1 /\ v = M * d + (v % M)
    BY <1>2, Modulo
  <2> HIDE DEF d
  <2>6. P = M * (2 * K)
    <3>1. (2 * M) * K = M * (2 * K)
      BY <1>2, <2>3
    <3>2. QED BY <2>3, <2>4, <3>1
  <2> DEFINE e == d + 2 * K
             x == v + P
  <2>7. e \in Int /\ x \in Int
    BY <1>2, <2>3, <2>5
  <2>8. M * e = M * d + P
    BY <1>2, <2>3, <2>5, <2>6
  <2>9. M * e <= x /\ x < M * e + M
    <3>1. M * d \in Int
      BY <1>2, <2>5
    <3> DEFINE rest == v % M
    <3>2. rest \in 0 .. M - 1 /\ v = M * d + rest
      BY <2>5
    <3> HIDE DEF rest
    <3>3. QED BY <1>2, <2>8, <3>1, <3>2
  <2> HIDE DEF x
  <2>10. x \div M = e
    <3> HIDE DEF e
    <3> QED BY <1>2, <2>7, <2>9, Quotient
  <2>11. e % 2 = d % 2
    BY <2>3, <2>5
  <2>12. QED BY <2>10, <2>11 DEF d, x
<1>4. ASSUME i = n + 1
      PROVE  (v + P) \div M = 1
  <2>1. M = P
    BY <1>4
  <2> DEFINE x == v + P
  <2>2. x \in 0 .. 2 * M - 1 /\ ~(x < M)
    BY <1>2, <2>1
  <2> HIDE DEF M, P, x
  <2>3. x \div M = 1
    BY <1>2, <2>2, SmallQuotient
  <2>4. QED BY <2>3 DEF x
<1>5. ASSUME i > n + 1
      PROVE  (v + P) \div M = 0
  <2>1. n + 1 \in 1 .. IntBits /\ n + 1 \in 0 .. IntBits /\ n + 1 <= i - 1
        /\ n + 1 - 1 = n
    BY <1>1, <1>5
  <2>2. Pow2[n + 1] = 2 * P
    BY <2>1, Powers
  <2>3. Pow2[n + 1] <= M
    BY <1>1, <2>1, PowersGrow
  <2> DEFINE x == v + P
  <2>4. x \in 0 .. 2 * M - 1 /\ x < M
    BY <1>2, <2>2, <2>3
  <2> HIDE DEF M, P, x
  <2>5. x \div M = 0
    BY <1>2, <2>4, SmallQuotient
  <2>6. QED BY <2>5 DEF x
<1>6. QED BY <1>3, <1>4, <1>5

LEMMA NoBit ==
  ASSUME NEW i \in 1 .. IntBits
  PROVE  0 \div Pow2[i - 1] = 0
<1> DEFINE M == Pow2[i - 1]
<1>1. M \in Nat \ {0}
  <2>1. i - 1 \in 0 .. IntBits
    BY Widths
  <2>2. QED BY <2>1, Powers
<1> HIDE DEF M
<1>2. 0 \in 0 .. 2 * M - 1 /\ 0 < M
  BY <1>1
<1>3. 0 \div M = 0
  BY <1>1, <1>2, SmallQuotient
<1>4. QED BY <1>3 DEF M

(* BoolArrayToInt8: the inputs so far are the low bits, and the rest of    *)
(* them is 0; so are, at the end, the bits of the byte.                    *)
LEMMA Bits ==
  ASSUME NEW N \in Nat, NEW b \in [1 .. N -> BOOLEAN]
  PROVE  LET out == BoolArrayToInt8(b)
         IN  /\ out \in SignedRange(ByteBits)
             /\ \A i \in 1 .. ByteBits :
                  (Unsigned(out, ByteBits) \div Pow2[i - 1]) % 2 = 1
                    <=> i \in 1 .. N /\ b[i]
<1> DEFINE next(r, n) == IF b[n] /\ n <= ByteBits THEN r + Pow2[n - 1] ELSE r
           step == [x \in Nat \X (1 .. N) |-> next(x[1], x[2])]
           result == CHOOSE f : f = [n \in 0 .. Len(b) |->
                       IF n = 0 THEN 0
                       ELSE IF b[n] /\ n <= ByteBits
                            THEN f[n - 1] + Pow2[n - 1] ELSE f[n - 1]]
<1>1. Len(b) = N
  OBVIOUS
<1>2. ASSUME NEW r \in Nat, NEW n \in 1 .. N
      PROVE  next(r, n) \in Nat
  <2>1. n <= ByteBits => n - 1 \in 0 .. IntBits
    BY Widths
  <2>2. n <= ByteBits => Pow2[n - 1] \in Nat
    BY <2>1, Powers
  <2>3. QED BY <2>2
<1>3. step \in [Nat \X (1 .. N) -> Nat]
  <2> HIDE DEF next
  <2> QED BY <1>2
<1>4. PICK f \in [0 .. N -> Nat] : Iterates(f, N, 0, step)
  <2> HIDE DEF step
  <2> QED BY <1>3, Iteration
<1>5. f = [n \in 0 .. Len(b) |->
             IF n = 0 THEN 0
             ELSE IF b[n] /\ n <= ByteBits
                  THEN f[n - 1] + Pow2[n - 1] ELSE f[n - 1]]
  <2>1. ASSUME NEW n \in 0 .. N
        PROVE  f[n] = IF n = 0 THEN 0 ELSE next(f[n - 1], n)
    <3>1. f[n] = IF n = 0 THEN 0 ELSE step[<<f[n - 1], n>>]
      BY <1>4 DEF Iterates
    <3>2. n # 0 => <<f[n - 1], n>> \in Nat \X (1 .. N)
      OBVIOUS
    <3> HIDE DEF next
    <3>3. QED BY <3>1, <3>2
  <2>2. f = [n \in 0 .. N |-> f[n]]
    OBVIOUS
  <2>3. QED BY <1>1, <2>1, <2>2
<1>6. result = [n \in 0 .. Len(b) |->
                  IF n = 0 THEN 0
                  ELSE IF b[n] /\ n <= ByteBits
                       THEN result[n - 1] + Pow2[n - 1] ELSE result[n - 1]]
  BY <1>5
<1>7. BoolArrayToInt8(b) = Signed(result[Len(b)], ByteBits)
  BY DEF BoolArrayToInt8
<1> HIDE DEF result
<1>8. /\ result[0] = 0
      /\ \A n \in 1 .. N : result[n] = next(result[n - 1], n)
  BY <1>1, <1>6
<1> DEFINE Below(n) == IF n <= ByteBits THEN Pow2[n] ELSE Pow2[ByteBits]
           Bit(v, i) == (v \div Pow2[i - 1]) % 2 = 1
           T == {n \in 0 .. N :
                   /\ result[n] \in Nat /\ result[n] < Below(n)
                   /\ \A i \in 1 .. ByteBits :
                        Bit(result[n], i) <=> i <= n /\ b[i]}
<1>9. 0 \in T
  <2>1. Below(0) = 1
    BY Widths, Powers
  <2>2. ASSUME NEW i \in 1 .. ByteBits
        PROVE  ~Bit(0, i) /\ ~(i <= 0)
    <3>1. i \in 1 .. IntBits
      BY Widths
    <3>2. 0 \div Pow2[i - 1] = 0
      BY <3>1, NoBit
    <3>3. QED BY <3>2
  <2> HIDE DEF Below, Bit
  <2>3. QED BY <1>8, <2>1, <2>2
<1>10. ASSUME NEW n \in 1 .. N, n - 1 \in T
       PROVE  n \in T
  <2> DEFINE v == result[n - 1]
  <2>1. /\ v \in Nat /\ v < Below(n - 1)
        /\ \A i \in 1 .. ByteBits : Bit(v, i) <=> i <= n - 1 /\ b[i]
    BY <1>10
  <2>2. result[n] = next(v, n)
    BY <1>8
  <2> HIDE DEF v
  <2>3. CASE b[n] /\ n <= ByteBits
    <3>1. /\ n - 1 \in Nat /\ n - 1 < IntBits /\ n \in 1 .. IntBits
          /\ n - 1 <= ByteBits
      BY <2>3, Widths
    <3>2. result[n] = v + Pow2[n - 1] /\ v < Pow2[n - 1] /\ Below(n) = Pow2[n]
      BY <2>1, <2>2, <2>3, <3>1
    <3>3. Pow2[n] = 2 * Pow2[n - 1] /\ Pow2[n - 1] \in Nat
      <4>1. n - 1 \in 0 .. IntBits
        BY <3>1, Widths
      <4>2. QED BY <3>1, <4>1, Powers
    <3>4. ASSUME NEW i \in 1 .. ByteBits
          PROVE  Bit(result[n], i) <=> i <= n /\ b[i]
      <4> DEFINE m == n - 1
                 y == (v + Pow2[m]) \div Pow2[i - 1]
      <4>1. i \in 1 .. IntBits /\ m \in Nat /\ m < IntBits /\ v < Pow2[m]
        BY <3>1, <3>2, Widths
      <4>2. /\ i <= m => y % 2 = (v \div Pow2[i - 1]) % 2
            /\ i = m + 1 => y = 1
            /\ i > m + 1 => y = 0
        <5> HIDE DEF m
        <5> QED BY <2>1, <4>1, OneBitMore
      <4>3. Bit(result[n], i) <=> y % 2 = 1
        BY <3>2
      <4> HIDE DEF y
      <4>4. CASE i <= n - 1
        <5>1. Bit(v, i) <=> y % 2 = 1
          BY <4>2, <4>4
        <5> HIDE DEF Bit
        <5>2. QED BY <2>1, <4>3, <4>4, <5>1
      <4>5. CASE i = n
        <5>1. y % 2 = 1
          BY <4>2, <4>5
        <5> HIDE DEF Bit
        <5>2. QED BY <2>3, <4>3, <4>5, <5>1
      <4>6. CASE i > n
        <5>1. ~(y % 2 = 1)
          BY <4>2, <4>6
        <5> HIDE DEF Bit
        <5>2. QED BY <4>3, <4>6, <5>1
      <4>7. QED BY <4>4, <4>5, <4>6
    <3>5. result[n] \in Nat /\ result[n] < Below(n)
      BY <2>1, <3>2, <3>3
    <3> HIDE DEF Bit, Below
    <3>6. QED BY <3>4, <3>5
  <2>4. CASE ~(b[n] /\ n <= ByteBits)
    <3>1. result[n] = v
      BY <2>2, <2>4
    <3>2. Below(n - 1) <= Below(n)
      <4>1. CASE n <= ByteBits
        <5>1. n - 1 \in 0 .. IntBits /\ n \in 0 .. IntBits
          BY <4>1, Widths
        <5>2. Pow2[n - 1] <= Pow2[n]
          BY <5>1, PowersGrow
        <5>3. QED BY <4>1, <5>2, Widths
      <4>2. CASE ~(n <= ByteBits)
        <5>1. Below(n - 1) = Pow2[ByteBits] /\ Below(n) = Pow2[ByteBits]
          BY <4>2, Widths
        <5>2. Pow2[ByteBits] \in Nat
          BY Widths, Powers
        <5>3. QED BY <5>1, <5>2
      <4>3. QED BY <4>1, <4>2
    <3>3. Below(n - 1) \in Nat /\ Below(n) \in Nat
      BY Widths, Powers
    <3>4. ASSUME NEW i \in 1 .. ByteBits
          PROVE  Bit(result[n], i) <=> i <= n /\ b[i]
      <4>1. i <= n /\ b[i] <=> i <= n - 1 /\ b[i]
        BY <2>4
      <4> HIDE DEF Bit
      <4>2. QED BY <2>1, <3>1, <4>1
    <3> HIDE DEF Bit, Below
    <3>5. QED BY <2>1, <3>1, <3>2, <3>3, <3>4
  <2>5. QED BY <2>3, <2>4
<1>11. N \in T
  <2> HIDE DEF T
  <2>1. \A n \in 0 .. N : n \in T
    BY <1>9, <1>10, BoundedInduction
  <2>2. QED BY <2>1
<1> DEFINE v == result[N]
           out == BoolArrayToInt8(b)
<1>12. /\ v \in Nat
       /\ \A i \in 1 .. ByteBits : Bit(v, i) <=> i <= N /\ b[i]
  BY <1>11
<1>13. v < Pow2[ByteBits]
  <2>1. v < Below(N) /\ (N <= ByteBits \/ Below(N) = Pow2[ByteBits])
    BY <1>11
  <2>2. N <= ByteBits => Pow2[N] <= Pow2[ByteBits] /\ Pow2[N] \in Nat
    BY Widths, PowersGrow, Powers
  <2>3. Pow2[ByteBits] \in Nat
    BY Widths, Powers
  <2>4. QED BY <1>12, <2>1, <2>2, <2>3
<1>14. out = Signed(v, ByteBits)
  BY <1>1, <1>7
<1> HIDE DEF v, out, Bit
<1>15. Unsigned(out, ByteBits) = v
  <2> DEFINE H == Pow2[ByteBits - 1]
  <2>1. H \in Nat \ {0} /\ Pow2[ByteBits] = 2 * H
    BY Halves
  <2>2. out = IF v < H THEN v ELSE v - 2 * H
    <3>1. v \in -(2 * H) .. 4 * H - 1 /\ v < 3 * H /\ ~(v < -H)
      BY <1>12, <1>13, <2>1
    <3>2. QED BY <1>14, <3>1, SignedReads
  <2>3. out \in -H .. 2 * H - 1
    BY <1>12, <1>13, <2>1, <2>2
  <2>4. Unsigned(out, ByteBits) = IF out < 0 THEN out + Pow2[ByteBits] ELSE out
    BY <2>3, UnsignedReads
  <2> HIDE DEF H
  <2>5. QED BY <1>12, <1>13, <2>1, <2>2, <2>4
<1>16. out \in SignedRange(ByteBits)
  BY <1>12, <1>14, SignedFits
<1>17. \A i \in 1 .. ByteBits : Bit(v, i) <=> i \in 1 .. N /\ b[i]
  BY <1>12
<1>18. QED BY <1>15, <1>16, <1>17 DEF out, Bit
------------------------------------------------------------------------------
(* Which kind of block a name is: no name is of two kinds, so that the     *)
(* cases of its inputs, its output and its name do not overlap.            *)
LEMMA OneKind ==
  ASSUME NEW f \in Function
  PROVE  /\ f \in Gate <=> f \notin Comparison \cup OnInt \cup OnByte
                           /\ f # "NOT" /\ f # "MOD"
         /\ f \in Comparison => f \notin OnInt \cup OnByte
         /\ f \in OnInt => f \notin OnByte
         /\ f \in Comparison \cup OnInt \cup OnByte => f # "NOT" /\ f # "MOD"
         /\ f \in Logical <=> \/ f \in Comparison \/ f = "NOT"
                              \/ f \in Gate /\ f # "BoolArrayToInt8"
BY DEF Function, Gate, Comparison, OnInt, OnByte, Logical

LEMMA InputsFound ==
  ASSUME NEW f \in Function
  PROVE  /\ f \in Gate =>
              InputsOf(f) = UNION {[1 .. n -> BOOLEAN] : n \in 1 .. MaxInputs}
         /\ f = "NOT" => InputsOf(f) = {<<b>> : b \in BOOLEAN}
         /\ f \in Comparison =>
              InputsOf(f) = (Real \cup {NaN}) \X (Real \cup {NaN})
         /\ f = "MOD" =>
              InputsOf(f) = SignedRange(IntBits) \X SignedRange(IntBits)
         /\ f \in OnInt => InputsOf(f) = {<<n>> : n \in SignedRange(IntBits)}
         /\ f \in OnByte => InputsOf(f) = {<<n>> : n \in SignedRange(ByteBits)}
BY OneKind DEF InputsOf

LEMMA OutputsFound ==
  ASSUME NEW f \in Function
  PROVE  /\ f \in Logical => OutputOf(f) = BOOLEAN
         /\ f \in {"INC", "DEC", "MOD", "Int8ToInt16"} =>
              OutputOf(f) = SignedRange(IntBits)
         /\ f = "BoolArrayToInt8" => OutputOf(f) = SignedRange(ByteBits)
         /\ f = "Int16ToUint16" => OutputOf(f) = UnsignedRange(IntBits)
         /\ f = "Int8ToUint8" => OutputOf(f) = UnsignedRange(ByteBits)
         /\ \/ f \in Logical \cup {"INC", "DEC", "MOD", "Int8ToInt16"}
            \/ f \in {"BoolArrayToInt8", "Int16ToUint16", "Int8ToUint8"}
<1>1. /\ f \in Logical =>
           f \notin {"INC", "DEC", "MOD", "Int8ToInt16", "BoolArrayToInt8",
                     "Int16ToUint16", "Int8ToUint8"}
      /\ \/ f \in Logical \cup {"INC", "DEC", "MOD", "Int8ToInt16"}
         \/ f \in {"BoolArrayToInt8", "Int16ToUint16", "Int8ToUint8"}
  BY DEF Logical, Function, Gate, Comparison, OnInt, OnByte
<1>2. QED BY <1>1 DEF OutputOf

LEMMA NamesMean ==
  ASSUME NEW b, NEW out
  PROVE  /\ b[2] # 0 =>
              (AsNamed("MOD", b, out) <=>
                 /\ (b[1] - out) % Abs(b[2]) = 0
                 /\ Abs(out) < Abs(b[2])
                 /\ b[1] * out >= 0)
         /\ b[2] = 0 => (AsNamed("MOD", b, out) <=> out = 0)
         /\ \A f \in Comparison :
              AsNamed(f, b, out) <=>
                /\ NaN \in {b[1], b[2]} => out = (f = "NE")
                /\ NaN \notin {b[1], b[2]} => NE(b) = (LT(b) # GT(b))
<1>1. "MOD" \notin Comparison
  BY DEF Comparison
<1>2. \A f \in Comparison :
        /\ f \notin {"MOD", "INC", "DEC", "XOR", "NAND", "NOR"}
        /\ f \notin {"BoolArrayToInt8", "Int8ToUint8", "Int16ToUint16",
                     "Int8ToInt16"}
  BY DEF Comparison
<1>3. QED BY <1>1, <1>2 DEF AsNamed
------------------------------------------------------------------------------
(* The blocks without a state: what each writes has the type of its output *)
(* and is what its name says.                                              *)
RightFor(f, b) == Result(f, b) \in OutputOf(f) /\ AsNamed(f, b, Result(f, b))

LEMMA GatesRight ==
  ASSUME NEW f \in Gate, NEW b \in InputsOf(f)
  PROVE  RightFor(f, b)
<1>1. PICK N \in 1 .. MaxInputs : b \in [1 .. N -> BOOLEAN]
  BY InputsFound DEF Function
<1>2. N \in Nat /\ DOMAIN b = 1 .. N
  BY <1>1, Widths
<1>3. CASE f = "AND"
  <2>1. Result(f, b) = AND(b)
    BY <1>3 DEF Result
  <2>2. AND(b) \in BOOLEAN
    BY DEF AND
  <2>3. QED BY <1>3, <2>1, <2>2 DEF RightFor, OutputOf, Logical, AsNamed, Comparison
<1>4. CASE f = "OR"
  <2>1. Result(f, b) = OR(b)
    BY <1>4 DEF Result
  <2>2. OR(b) \in BOOLEAN
    BY DEF OR
  <2>3. QED BY <1>4, <2>1, <2>2 DEF RightFor, OutputOf, Logical, AsNamed, Comparison
<1>5. CASE f = "XOR"
  <2>1. Result(f, b) = XOR(b)
    BY <1>5 DEF Result
  <2>2. /\ XOR(b) \in BOOLEAN
        /\ XOR(b) <=> Cardinality({i \in DOMAIN b : b[i]}) % 2 = 1
    BY <1>1, <1>2, Parity
  <2>3. Result(f, b) \in OutputOf(f)
    BY <1>5, <2>1, <2>2 DEF OutputOf, Logical
  <2>4. AsNamed(f, b, XOR(b)) <=>
          (XOR(b) = (Cardinality({i \in DOMAIN b : b[i]}) % 2 = 1))
    BY <1>5 DEF AsNamed, Comparison
  <2>5. QED BY <2>1, <2>2, <2>3, <2>4, Zenon DEF RightFor
<1>6. CASE f = "NAND"
  <2>1. Result(f, b) = NAND(b)
    BY <1>6 DEF Result
  <2>2. NAND(b) \in BOOLEAN
    BY DEF NAND
  <2>3. NAND(b) = OR([i \in DOMAIN b |-> ~b[i]])
    BY DEF NAND, AND, OR
  <2>4. QED
    BY <1>6, <2>1, <2>2, <2>3 DEF RightFor, OutputOf, Logical, AsNamed, Comparison
<1>7. CASE f = "NOR"
  <2>1. Result(f, b) = NOR(b)
    BY <1>7 DEF Result
  <2>2. NOR(b) \in BOOLEAN
    BY DEF NOR
  <2>3. NOR(b) = AND([i \in DOMAIN b |-> ~b[i]])
    BY DEF NOR, AND, OR
  <2>4. QED
    BY <1>7, <2>1, <2>2, <2>3 DEF RightFor, OutputOf, Logical, AsNamed, Comparison
<1>8. CASE f = "BoolArrayToInt8"
  <2>1. Result(f, b) = BoolArrayToInt8(b)
    BY <1>8 DEF Result
  <2> DEFINE out == BoolArrayToInt8(b)
             Bit(i) == (Unsigned(out, ByteBits) \div Pow2[i - 1]) % 2 = 1
  <2>2. /\ out \in SignedRange(ByteBits)
        /\ \A i \in 1 .. ByteBits : Bit(i) <=> i \in DOMAIN b /\ b[i]
    BY <1>1, <1>2, Bits
  <2>3. Result(f, b) \in OutputOf(f)
    BY <1>8, <2>1, <2>2 DEF OutputOf, Logical, Comparison
  <2>4. AsNamed(f, b, out) <=>
          \A i \in 1 .. ByteBits : Bit(i) = (i \in DOMAIN b /\ b[i])
    BY <1>8 DEF AsNamed, Comparison
  <2> HIDE DEF out, Bit
  <2>5. \A i \in 1 .. ByteBits : Bit(i) \in BOOLEAN
    BY DEF Bit
  <2>6. \A i \in 1 .. ByteBits : (i \in DOMAIN b /\ b[i]) \in BOOLEAN
    OBVIOUS
  <2>7. \A i \in 1 .. ByteBits : Bit(i) = (i \in DOMAIN b /\ b[i])
    BY <2>2, <2>5, <2>6, Zenon
  <2>8. QED BY <2>1, <2>3, <2>4, <2>7 DEF RightFor, out
<1>9. QED BY <1>3, <1>4, <1>5, <1>6, <1>7, <1>8 DEF Gate

LEMMA ComparisonsRight ==
  ASSUME NEW f \in Comparison, NEW b \in InputsOf(f)
  PROVE  RightFor(f, b)
<1>1. b \in (Real \cup {NaN}) \X (Real \cup {NaN})
  BY InputsFound DEF Function
<1>2. PICK x \in Real \cup {NaN}, y \in Real \cup {NaN} : b = <<x, y>>
  BY <1>1
<1>3. Real \subseteq Int /\ NaN \notin Real
  BY FunctionsAssumption
<1>4. /\ EQ(b) \in BOOLEAN /\ NE(b) \in BOOLEAN /\ LT(b) \in BOOLEAN
      /\ GT(b) \in BOOLEAN /\ LE(b) \in BOOLEAN /\ GE(b) \in BOOLEAN
  BY DEF EQ, NE, LT, GT, LE, GE
<1>5. /\ f = "EQ" => Result(f, b) = EQ(b)
      /\ f = "NE" => Result(f, b) = NE(b)
      /\ f = "LT" => Result(f, b) = LT(b)
      /\ f = "LE" => Result(f, b) = LE(b)
      /\ f = "GT" => Result(f, b) = GT(b)
      /\ f = "GE" => Result(f, b) = GE(b)
  BY DEF Result
<1>6. Result(f, b) \in BOOLEAN
  BY <1>4, <1>5 DEF Comparison
<1>7. NaN \in {x, y} => (Result(f, b) <=> f = "NE")
  <2>1. SUFFICES ASSUME NaN \in {x, y}
                 PROVE  Result(f, b) <=> f = "NE"
    OBVIOUS
  <2>2. ~EQ(b) /\ NE(b) /\ ~LT(b) /\ ~GT(b) /\ ~LE(b) /\ ~GE(b)
    BY <1>2, <2>1 DEF EQ, NE, LT, GT, LE, GE
  <2>3. QED BY <1>4, <1>5, <2>2 DEF Comparison
<1>8. NaN \notin {x, y} => (NE(b) <=> ~(LT(b) <=> GT(b)))
  <2>1. SUFFICES ASSUME NaN \notin {x, y}
                 PROVE  NE(b) <=> ~(LT(b) <=> GT(b))
    OBVIOUS
  <2>2. x \in Int /\ y \in Int
    BY <1>3, <2>1
  <2>3. /\ EQ(b) <=> x = y
        /\ LT(b) <=> x < y
        /\ GT(b) <=> x > y
    BY <1>2, <2>1 DEF EQ, LT, GT
  <2>4. QED BY <2>2, <2>3 DEF NE
<1>9. Result(f, b) \in OutputOf(f)
  BY <1>6, OutputsFound DEF Function, Logical
<1>10. AsNamed(f, b, Result(f, b)) <=>
         /\ NaN \in {x, y} => Result(f, b) = (f = "NE")
         /\ NaN \notin {x, y} => NE(b) = (LT(b) # GT(b))
  <2>1. {b[1], b[2]} = {x, y}
    BY <1>2
  <2>2. AsNamed(f, b, Result(f, b)) <=>
          /\ NaN \in {b[1], b[2]} => Result(f, b) = (f = "NE")
          /\ NaN \notin {b[1], b[2]} => NE(b) = (LT(b) # GT(b))
    BY NamesMean
  <2>3. QED BY <2>1, <2>2
<1>11. NaN \in {x, y} => Result(f, b) = (f = "NE")
  BY <1>6, <1>7
<1>12. NaN \notin {x, y} => NE(b) = (LT(b) # GT(b))
  BY <1>4, <1>8
<1>13. QED BY <1>9, <1>10, <1>11, <1>12 DEF RightFor

LEMMA NumbersRight ==
  ASSUME NEW f \in OnInt \cup OnByte, NEW b \in InputsOf(f)
  PROVE  RightFor(f, b)
<1> DEFINE bits == IF f \in OnInt THEN IntBits ELSE ByteBits
           H == Pow2[bits - 1]
           I == Pow2[IntBits - 1]
<1>1. /\ bits \in {ByteBits, IntBits}
      /\ H \in Nat \ {0} /\ Pow2[bits] = 2 * H
      /\ I \in Nat \ {0} /\ Pow2[IntBits] = 2 * I
  BY Halves
<1>2. H <= I
  BY Widths, PowersGrow
<1>3. PICK n \in SignedRange(bits) : b = <<n>>
  BY InputsFound DEF Function, OnInt, OnByte
<1>4. n \in -H .. H - 1 /\ n \in Int
  BY <1>1, <1>3 DEF SignedRange
<1>5. f \in OnInt => H = I /\ bits = IntBits
  OBVIOUS
<1>6. f \in OnByte => bits = ByteBits
  BY DEF OnInt, OnByte
<1> HIDE DEF H, I, bits
<1>7. CASE f = "INC"
  <2>1. bits = IntBits /\ H = I
    BY <1>5, <1>7 DEF OnInt
  <2>2. n + 1 \in -(2 * I) .. 4 * I - 1 /\ ~(n + 1 < -I) /\ n + 1 < 3 * I
    BY <1>1, <1>4, <2>1
  <2>3. Signed(n + 1, IntBits) = IF n + 1 < I THEN n + 1 ELSE n + 1 - 2 * I
    <3> DEFINE m == n + 1
    <3>1. m \in -(2 * I) .. 4 * I - 1 /\ ~(m < -I) /\ m < 3 * I
      BY <2>2
    <3> HIDE DEF m
    <3>2. Signed(m, IntBits) = IF m < I THEN m ELSE m - 2 * I
      BY <3>1, SignedReads DEF I
    <3>3. QED BY <1>1, <1>4, <3>2 DEF m
  <2>4. n + 1 < I \/ n + 1 - 2 * I = -I
    BY <1>1, <1>4, <2>1
  <2>5. Result(f, b) = Signed(n + 1, IntBits)
    BY <1>3, <1>7 DEF Result, INC
  <2>6. Result(f, b) \in OutputOf(f)
    BY <1>4, <1>7, <2>5, SignedFits DEF OutputOf, Logical, Comparison
  <2>7. Result(f, b) = n + 1 \/ Result(f, b) = -I
    BY <2>3, <2>4, <2>5
  <2>8. QED BY <1>3, <1>7, <2>6, <2>7 DEF RightFor, AsNamed, Comparison, I
<1>8. CASE f = "DEC"
  <2>1. bits = IntBits /\ H = I
    BY <1>5, <1>8 DEF OnInt
  <2>2. n - 1 \in -(2 * I) .. 4 * I - 1 /\ n - 1 < I
    BY <1>1, <1>4, <2>1
  <2>3. Signed(n - 1, IntBits) = IF n - 1 < -I THEN n - 1 + 2 * I ELSE n - 1
    <3>1. IntBits \in {ByteBits, IntBits}
      OBVIOUS
    <3>2. QED BY <2>2, <3>1, SignedReads DEF I
  <2>4. ~(n - 1 < -I) \/ n - 1 + 2 * I = I - 1
    BY <1>1, <1>4, <2>1
  <2>5. Result(f, b) = Signed(n - 1, IntBits)
    BY <1>3, <1>8 DEF Result, DEC
  <2>6. Result(f, b) \in OutputOf(f)
    BY <1>4, <1>8, <2>5, SignedFits DEF OutputOf, Logical, Comparison
  <2>7. Result(f, b) = n - 1 \/ Result(f, b) = I - 1
    BY <2>3, <2>4, <2>5
  <2>8. QED BY <1>3, <1>8, <2>6, <2>7 DEF RightFor, AsNamed, Comparison, I
<1>9. n \in -H .. 2 * H - 1 /\ Signed(Unsigned(n, bits), bits) = n
  <2> DEFINE u == Unsigned(n, bits)
  <2>1. n \in -H .. 2 * H - 1
    BY <1>1, <1>4
  <2>2. u = IF n < 0 THEN n + 2 * H ELSE n
    BY <1>1, <2>1, UnsignedReads DEF H
  <2> HIDE DEF u
  <2>3. u \in -(2 * H) .. 4 * H - 1 /\ ~(u < -H) /\ u < 3 * H
    BY <1>1, <1>4, <2>2
  <2>4. Signed(u, bits) = IF u < H THEN u ELSE u - 2 * H
    BY <1>1, <2>3, SignedReads DEF H
  <2>5. Signed(u, bits) = n
    BY <1>1, <1>4, <2>2, <2>4
  <2>6. QED BY <2>1, <2>5 DEF u
<1>10. CASE f = "Int16ToUint16"
  <2>1. bits = IntBits
    BY <1>5, <1>10 DEF OnInt
  <2>2. Result(f, b) = Unsigned(n, IntBits)
    BY <1>3, <1>10 DEF Result, Int16ToUint16
  <2>3. Result(f, b) \in OutputOf(f)
    BY <1>4, <1>10, <2>2, UnsignedFits DEF OutputOf, Logical, Comparison
  <2>4. Signed(Result(f, b), IntBits) = n
    BY <1>9, <2>1, <2>2
  <2>5. QED BY <1>3, <1>10, <2>3, <2>4 DEF RightFor, AsNamed, Comparison
<1>11. CASE f = "Int8ToUint8"
  <2>1. bits = ByteBits
    BY <1>6, <1>11 DEF OnByte
  <2>2. Result(f, b) = Unsigned(n, ByteBits)
    BY <1>3, <1>11 DEF Result, Int8ToUint8
  <2>3. Result(f, b) \in OutputOf(f)
    BY <1>4, <1>11, <2>2, UnsignedFits DEF OutputOf, Logical, Comparison
  <2>4. Signed(Result(f, b), ByteBits) = n
    BY <1>9, <2>1, <2>2
  <2>5. QED BY <1>3, <1>11, <2>3, <2>4 DEF RightFor, AsNamed, Comparison
<1>12. CASE f = "Int8ToInt16"
  <2>1. /\ n \in -(2 * I) .. 4 * I - 1
        /\ ~(n < -I) /\ n < I
    BY <1>1, <1>2, <1>4
  <2>2. Signed(n, IntBits) = n
    BY <2>1, SignedReads DEF I
  <2>3. Result(f, b) = Signed(n, IntBits)
    BY <1>3, <1>12 DEF Result, Int8ToInt16
  <2>4. Result(f, b) \in OutputOf(f)
    BY <1>4, <1>12, <2>3, SignedFits DEF OutputOf, Logical, Comparison
  <2>5. QED BY <1>3, <1>12, <2>2, <2>3, <2>4 DEF RightFor, AsNamed, Comparison
<1>13. QED BY <1>7, <1>8, <1>10, <1>11, <1>12 DEF OnInt, OnByte

LEMMA RemaindersRight ==
  ASSUME NEW b \in InputsOf("MOD")
  PROVE  RightFor("MOD", b)
<1> DEFINE I == Pow2[IntBits - 1]
<1>1. I \in Nat \ {0}
  BY Halves
<1>2. PICK x \in -I .. I - 1, y \in -I .. I - 1 : b = <<x, y>>
  <2>1. b \in SignedRange(IntBits) \X SignedRange(IntBits)
    BY InputsFound DEF Function
  <2>2. QED BY <2>1 DEF SignedRange
<1> DEFINE r == MOD(<<x, y>>)
<1>3. Result("MOD", b) = r
  BY <1>2 DEF Result
<1>4. x \in Int /\ y \in Int
  BY <1>1
<1>5. CASE y = 0
  <2>1. r = 0
    BY <1>5 DEF MOD
  <2> HIDE DEF r
  <2>2. r \in SignedRange(IntBits)
    BY <1>1, <2>1 DEF SignedRange
  <2>3. Result("MOD", b) \in OutputOf("MOD")
    BY <1>3, <2>2 DEF OutputOf, Logical, Comparison
  <2>4. AsNamed("MOD", b, r)
    <3>1. b[2] = 0
      BY <1>2, <1>5
    <3>2. QED BY <2>1, <3>1, NamesMean
  <2>5. QED BY <1>3, <2>3, <2>4 DEF RightFor
<1>6. CASE y # 0
  <2>1. /\ r \in Int /\ Abs(r) < Abs(y)
        /\ (x - r) % Abs(y) = 0
        /\ x * r >= 0
        /\ IF x < 0 THEN x <= r /\ r <= 0 ELSE 0 <= r /\ r <= x
    BY <1>4, <1>6, Remainder
  <2> HIDE DEF r
  <2>2. r \in -I .. I - 1
    BY <1>1, <1>2, <2>1
  <2>3. Result("MOD", b) \in OutputOf("MOD")
    BY <1>3, <2>2 DEF OutputOf, Logical, Comparison, SignedRange
  <2>4. AsNamed("MOD", b, r)
    <3>1. b[1] = x /\ b[2] = y
      BY <1>2
    <3>2. QED BY <1>6, <2>1, <3>1, NamesMean
  <2>5. QED BY <1>3, <2>3, <2>4 DEF RightFor
<1>7. QED BY <1>5, <1>6

LEMMA NegationRight ==
  ASSUME NEW b \in InputsOf("NOT")
  PROVE  RightFor("NOT", b)
<1>1. Result("NOT", b) = NOT(b)
  BY DEF Result
<1>2. NOT(b) \in BOOLEAN
  BY DEF NOT
<1>3. QED BY <1>1, <1>2 DEF RightFor, OutputOf, Logical, AsNamed, Comparison

LEMMA BlocksRight ==
  ASSUME NEW f \in Function, NEW b \in InputsOf(f)
  PROVE  RightFor(f, b)
BY GatesRight, ComparisonsRight, NumbersRight, RemaindersRight, NegationRight
   DEF Function

LEMMA FunctionsInitInv == FunctionsInit => FunctionsTypeOK
<1> SUFFICES ASSUME FunctionsInit
             PROVE  output_var \in OutputOf(function)
  BY DEF FunctionsInit, FunctionsTypeOK
<1>1. CASE function \in Logical
  BY <1>1, OutputsFound DEF FunctionsInit
<1>2. CASE function \notin Logical
  <2>1. /\ Pow2[IntBits - 1] \in Nat \ {0}
        /\ Pow2[IntBits] = 2 * Pow2[IntBits - 1]
        /\ Pow2[ByteBits - 1] \in Nat \ {0}
        /\ Pow2[ByteBits] = 2 * Pow2[ByteBits - 1]
    BY Halves
  <2>2. \A bits \in {ByteBits, IntBits} :
          0 \in SignedRange(bits) /\ 0 \in UnsignedRange(bits)
    BY <2>1 DEF SignedRange, UnsignedRange
  <2>3. OutputOf(function) \in {SignedRange(IntBits), SignedRange(ByteBits),
                                UnsignedRange(IntBits), UnsignedRange(ByteBits)}
    BY <1>2, OutputsFound DEF FunctionsInit
  <2>4. QED BY <1>2, <2>2, <2>3 DEF FunctionsInit
<1>3. QED BY <1>1, <1>2

LEMMA FunctionsNextInv ==
  ASSUME FunctionsTypeOK, [FunctionsNext]_functionVars
  PROVE  /\ FunctionsTypeOK'
         /\ evaluateFunction => AsNamed(function, input_vars, output_var')
<1>1. /\ function \in Function /\ input_vars \in InputsOf(function)
      /\ output_var \in OutputOf(function)
  BY DEF FunctionsTypeOK
<1>2. CASE evaluateFunction
  <2>1. RightFor(function, input_vars) /\ output_var' = Result(function, input_vars)
        /\ function' = function
    BY <1>1, <1>2, BlocksRight DEF evaluateFunction
  <2>2. /\ output_var' \in OutputOf(function)
        /\ AsNamed(function, input_vars, output_var')
    BY <2>1 DEF RightFor
  <2>3. input_vars' \in InputsOf(function)
    <3>1. CASE function \in {"INC", "DEC"}
      <4>1. input_vars' = <<output_var'>>
        BY <1>2, <3>1 DEF evaluateFunction
      <4>2. output_var' \in SignedRange(IntBits)
        BY <1>1, <2>2, <3>1, OutputsFound
      <4>3. InputsOf(function) = {<<n>> : n \in SignedRange(IntBits)}
        BY <1>1, <3>1, InputsFound DEF OnInt
      <4>4. QED BY <4>1, <4>2, <4>3
    <3>2. CASE function \notin {"INC", "DEC"}
      BY <1>1, <1>2, <3>2 DEF evaluateFunction
    <3>3. QED BY <3>1, <3>2
  <2>4. QED BY <1>1, <2>1, <2>2, <2>3 DEF FunctionsTypeOK
<1>3. CASE InputsChange /\ ~evaluateFunction
  BY <1>1, <1>3 DEF InputsChange, FunctionsTypeOK
<1>4. CASE UNCHANGED functionVars /\ ~evaluateFunction
  BY <1>1, <1>4 DEF functionVars, FunctionsTypeOK
<1>5. QED BY <1>2, <1>3, <1>4 DEF FunctionsNext

(* Block*::evaluate: for every width of the integers and any number of     *)
(* inputs, what a block without a state writes has the type of its output  *)
(* and is what its name says of the inputs.                                *)
THEOREM FunctionsCompute == FunctionsSpec => []FunctionsTypeOK /\ FunctionsAgree
<1> DEFINE Named ==
      evaluateFunction => AsNamed(function, input_vars, output_var')
<1>1. FunctionsTypeOK /\ [FunctionsNext]_functionVars =>
        FunctionsTypeOK' /\ Named
  BY FunctionsNextInv
<1>2. QED BY FunctionsInitInv, <1>1, PTL DEF FunctionsSpec, FunctionsAgree
------------------------------------------------------------------------------
(* The ring of the history stays a ring, whatever is recorded. *)
LEMMA RingInit == HistoryInit => HistoryTypeOK
BY HistoryAssumption
   DEF HistoryInit, HistoryTypeOK, Slot, EventRecord, NoRecord

LEMMA RingNext == HistoryTypeOK /\ [HistoryNext]_historyVars => HistoryTypeOK'
<1> SUFFICES ASSUME HistoryTypeOK, [HistoryNext]_historyVars
             PROVE  HistoryTypeOK'
  OBVIOUS
<1>0. /\ MaxHistory \in Nat \ {0} /\ historyHead \in 0 .. MaxHistory - 1
      /\ historyCount \in 0 .. MaxHistory
      /\ eventHistory \in [Slot -> EventRecord] /\ historyHead \in Slot
  BY HistoryAssumption DEF HistoryTypeOK, Slot
<1>1. ASSUME NEW e \in Event, addToHistory(e)
      PROVE  HistoryTypeOK'
  <2>1. [event |-> e, read |-> FALSE] \in EventRecord
    BY DEF EventRecord
  <2>2. eventHistory' \in [Slot -> EventRecord]
    BY <1>0, <1>1, <2>1 DEF addToHistory
  <2>3. historyHead' \in Slot
    BY <1>0, <1>1, Ticks DEF addToHistory, Slot
  <2>4. historyCount' \in 0 .. MaxHistory
    BY <1>0, <1>1 DEF addToHistory
  <2>5. QED BY <2>2, <2>3, <2>4 DEF HistoryTypeOK
<1>2. CASE markEventsAsRead
  <2>1. \A s \in Slot : /\ eventHistory[s] \in EventRecord
                        /\ [eventHistory[s] EXCEPT !.read = TRUE] \in EventRecord
    BY <1>0 DEF EventRecord
  <2>2. eventHistory' \in [Slot -> EventRecord]
    BY <1>2, <2>1 DEF markEventsAsRead
  <2>3. QED BY <1>0, <1>2, <2>2 DEF markEventsAsRead, HistoryTypeOK
<1>3. CASE clearHistory
  BY <1>0, <1>3 DEF clearHistory, HistoryTypeOK, Slot
<1>4. CASE UNCHANGED historyVars
  BY <1>4 DEF historyVars, HistoryTypeOK
<1>5. QED BY <1>1, <1>2, <1>3, <1>4 DEF HistoryNext
------------------------------------------------------------------------------
(* A program with one block.  It runs each block as the block alone would  *)
(* run, so that what holds of each holds of the program.                   *)
LEMMA PartsNext ==
  [BlocksNext]_blocksVars =>
    /\ [Next]_vars /\ [CountersNext]_counterVars
    /\ [SequencerNext]_sequencerVars /\ [StatusNext]_statusVars
    /\ [FunctionsNext]_functionVars /\ [HistoryNext]_historyVars
    /\ block_type' = block_type
<1>1. BlocksNext =>
        /\ [Next]_vars /\ [CountersNext]_counterVars
        /\ [SequencerNext]_sequencerVars /\ [StatusNext]_statusVars
        /\ [FunctionsNext]_functionVars /\ [HistoryNext]_historyVars
        /\ block_type' = block_type
  BY Zenon DEF BlocksNext
<1>2. UNCHANGED blocksVars =>
        /\ UNCHANGED vars /\ UNCHANGED counterVars
        /\ UNCHANGED sequencerVars /\ UNCHANGED statusVars
        /\ UNCHANGED functionVars /\ UNCHANGED historyVars
        /\ block_type' = block_type
  BY DEF blocksVars
<1>3. QED BY <1>1, <1>2, Zenon

(* Each part of the program behaves as its own specification says.         *)
THEOREM PartsRun ==
  BlocksSpec => /\ Spec /\ CountersSpec /\ SequencerSpec /\ StatusSpec
                /\ FunctionsSpec /\ HistorySpec
<1>1. BlocksInit => /\ Init /\ CountersInit /\ SequencerInit /\ StatusInit
                    /\ FunctionsInit /\ HistoryInit
  BY Zenon DEF BlocksInit
<1>2. QED
  BY <1>1, PartsNext, PTL
     DEF BlocksSpec, Spec, CountersSpec, SequencerSpec, StatusSpec,
         FunctionsSpec, HistorySpec

(* Type correctness of the program, whichever block it has.                *)
THEOREM BlocksTypeCorrect == BlocksSpec => []BlocksTypeOK
<1> DEFINE T == block_type \in {"timer", "counter", "sequencer", "status",
                                "function", "history"}
<1>1. BlocksInit => T
  BY Zenon DEF BlocksInit
<1>2. T /\ [BlocksNext]_blocksVars => T'
  BY PartsNext
<1>3. StatusInv => StatusTypeOK
  BY DEF StatusInv
<1>4. T /\ TypeOK /\ CountersTypeOK /\ SequencerTypeOK /\ StatusTypeOK
        /\ FunctionsTypeOK /\ HistoryTypeOK => BlocksTypeOK
  BY DEF BlocksTypeOK
<1> HIDE DEF T
<1>5. BlocksSpec => []T
  BY <1>1, <1>2, PTL DEF BlocksSpec
<1>6. StatusSpec => []StatusTypeOK
  BY StatusInitInv, StatusNextInv, <1>3, PTL DEF StatusSpec
<1>7. HistorySpec => []HistoryTypeOK
  BY RingInit, RingNext, PTL DEF HistorySpec
<1>8. QED
  BY PartsRun, TimersKeepTheirTime, CounterCounts, StepsTimeOut, <1>6,
     FunctionsCompute, <1>7, <1>4, <1>5, PTL

(* What the blocks promise, they promise in the program.                   *)
THEOREM BlocksKeepPromises ==
  BlocksSpec => /\ []CountsPulses
                /\ TimersKeepTime /\ StepTimeout
                /\ TriggersOnChange /\ FunctionsAgree
BY PartsRun, TimersKeepTheirTime, CounterCounts, StepsTimeOut,
   StatusTriggers, FunctionsCompute, PTL
==============================================================================
