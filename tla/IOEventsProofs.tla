---------------------------- MODULE IOEventsProofs ---------------------------
(***************************************************************************)
(* The event manager, for any number of triggers, any configurations,      *)
(* endpoints, programs and clocks and any size of the ring: the ring is a  *)
(* log of the last events, every variable keeps its type, and two events   *)
(* of one I/O trigger are its debounce time apart.                         *)
(***************************************************************************)
EXTENDS IOEvents, SequenceTheorems, TLAPS

(* Indices of the ring never reach twice its size, so a remainder is at    *)
(* most one subtraction.                                                   *)
LEMMA Wraps ==
  ASSUME NEW x \in 0 .. 2 * MaxHistory - 1
  PROVE  x % MaxHistory = IF x < MaxHistory THEN x ELSE x - MaxHistory
<1>1. CASE x < MaxHistory
  <2>1. x \in 0 .. MaxHistory - 1
    BY <1>1, HistoryAssumption
  <2>2. x % MaxHistory = x
    BY <2>1, HistoryAssumption, Z3
  <2>3. QED
    BY <1>1, <2>2
<1>2. CASE ~(x < MaxHistory)
  <2>1. x \in MaxHistory .. 2 * MaxHistory - 1
    BY <1>2, HistoryAssumption
  <2>2. x % MaxHistory = x - MaxHistory
    BY <2>1, HistoryAssumption, Z3
  <2>3. QED
    BY <1>2, <2>2
<1>3. QED
  BY <1>1, <1>2

(* The slot a reader starts from, without the remainder. *)
LEMMA Back ==
  ASSUME NEW h \in Slot, NEW c \in 0 .. MaxHistory
  PROVE  /\ (h + MaxHistory - c) % MaxHistory \in Slot
         /\ (h + MaxHistory - c) % MaxHistory =
              IF h < c THEN h + MaxHistory - c ELSE h - c
<1>1. h \in 0 .. MaxHistory - 1 /\ MaxHistory \in Nat \ {0}
  BY HistoryAssumption DEF Slot
<1> DEFINE x == h + MaxHistory - c
<1>2. x \in 0 .. 2 * MaxHistory - 1
  BY <1>1
<1>3. x % MaxHistory = IF x < MaxHistory THEN x ELSE x - MaxHistory
  <2> HIDE DEF x
  <2> QED BY <1>2, Wraps
<1>4. QED
  BY <1>1, <1>3 DEF Slot

(* The slot i steps on from slot o, without the remainder. *)
LEMMA Forth ==
  ASSUME NEW o \in Slot, NEW i \in 1 .. MaxHistory
  PROVE  /\ (o + i - 1) % MaxHistory \in Slot
         /\ (o + i - 1) % MaxHistory = IF o + i - 1 < MaxHistory THEN o + i - 1
                                       ELSE o + i - 1 - MaxHistory
<1>1. o \in 0 .. MaxHistory - 1 /\ MaxHistory \in Nat \ {0}
  BY HistoryAssumption DEF Slot
<1> DEFINE x == o + i - 1
<1>2. x \in 0 .. 2 * MaxHistory - 1
  BY <1>1
<1>3. x % MaxHistory = IF x < MaxHistory THEN x ELSE x - MaxHistory
  <2> HIDE DEF x
  <2> QED BY <1>2, Wraps
<1>4. QED
  BY <1>1, <1>3 DEF Slot

(* The slot after slot h. *)
LEMMA After ==
  ASSUME NEW h \in Slot
  PROVE  /\ (h + 1) % MaxHistory = IF h + 1 = MaxHistory THEN 0 ELSE h + 1
         /\ (h + 1) % MaxHistory \in Slot
<1>1. h \in 0 .. MaxHistory - 1 /\ MaxHistory \in Nat \ {0}
  BY HistoryAssumption DEF Slot
<1> DEFINE x == h + 1
<1>2. x \in 0 .. 2 * MaxHistory - 1
  BY <1>1
<1>3. x % MaxHistory = IF x < MaxHistory THEN x ELSE x - MaxHistory
  <2> HIDE DEF x
  <2> QED BY <1>2, Wraps
<1>4. QED
  BY <1>1, <1>3 DEF Slot

(* The ring of a state: the i-th oldest event is in a slot of the ring. *)
LEMMA Ring ==
  ASSUME HistoryTypeOK
  PROVE  /\ Oldest \in Slot
         /\ Oldest = IF historyHead < historyCount
                     THEN historyHead + MaxHistory - historyCount
                     ELSE historyHead - historyCount
         /\ \A i \in 1 .. MaxHistory :
              /\ SlotOf(i) \in Slot
              /\ SlotOf(i) = IF Oldest + i - 1 < MaxHistory THEN Oldest + i - 1
                             ELSE Oldest + i - 1 - MaxHistory
<1>1. /\ historyHead \in Slot
      /\ historyCount \in 0 .. MaxHistory
  BY DEF HistoryTypeOK
<1>2. Oldest = IF historyHead < historyCount
               THEN historyHead + MaxHistory - historyCount
               ELSE historyHead - historyCount
  BY <1>1, Back DEF Oldest
<1>3. Oldest \in Slot
  BY <1>1, <1>2, HistoryAssumption DEF Slot
<1>4. ASSUME NEW i \in 1 .. MaxHistory
      PROVE  /\ SlotOf(i) \in Slot
             /\ SlotOf(i) = IF Oldest + i - 1 < MaxHistory THEN Oldest + i - 1
                            ELSE Oldest + i - 1 - MaxHistory
  <2>1. SlotOf(i) = IF Oldest + i - 1 < MaxHistory THEN Oldest + i - 1
                    ELSE Oldest + i - 1 - MaxHistory
    BY <1>3, Forth DEF SlotOf
  <2>2. QED
    BY <1>3, <2>1, HistoryAssumption DEF Slot
<1>5. QED
  BY <1>2, <1>3, <1>4
------------------------------------------------------------------------------
(* Every step keeps the head and the count in range and writes whole       *)
(* records.                                                                *)
LEMMA HistoryTypeStep ==
  ASSUME HistoryTypeOK, [HistoryNext]_historyVars
  PROVE  HistoryTypeOK'
<1> USE HistoryAssumption DEF HistoryTypeOK
<1>1. ASSUME NEW e \in Event, addToHistory(e)
      PROVE  HistoryTypeOK'
  <2>1. historyHead' \in Slot
    BY <1>1, After DEF addToHistory
  <2>2. historyCount' \in 0 .. MaxHistory
    BY <1>1 DEF addToHistory
  <2>3. eventHistory' \in [Slot -> EventRecord]
    BY <1>1 DEF addToHistory, EventRecord
  <2>4. QED
    BY <2>1, <2>2, <2>3
<1>2. CASE markEventsAsRead
  <2>1. \A s \in Slot : /\ eventHistory[s] \in EventRecord
                        /\ [eventHistory[s] EXCEPT !.read = TRUE] \in EventRecord
    BY DEF EventRecord
  <2>2. eventHistory' \in [Slot -> EventRecord]
    BY <1>2, <2>1 DEF markEventsAsRead
  <2>3. QED
    BY <1>2, <2>2 DEF markEventsAsRead
<1>3. CASE clearHistory
  BY <1>3 DEF clearHistory, Slot
<1>4. CASE UNCHANGED historyVars
  BY <1>4 DEF historyVars
<1>5. QED
  BY <1>1, <1>2, <1>3, <1>4 DEF HistoryNext

(* IOEventManager keeps historyHead inside the ring and historyCount       *)
(* within MAX_HISTORY, whatever events, marks and clears come.             *)
THEOREM HistoryTypeCorrect == HistorySpec => []HistoryTypeOK
<1>1. HistoryInit => HistoryTypeOK
  BY HistoryAssumption DEF HistoryInit, HistoryTypeOK, Slot, EventRecord, NoRecord
<1>2. HistoryTypeOK /\ [HistoryNext]_historyVars => HistoryTypeOK'
  BY HistoryTypeStep
<1>3. QED
  BY <1>1, <1>2, PTL DEF HistorySpec
------------------------------------------------------------------------------
(* The log a reader sees is a sequence of records. *)
LEMMA StoredSequence ==
  ASSUME HistoryTypeOK
  PROVE  /\ Stored \in Seq(EventRecord)
         /\ Len(Stored) = historyCount
         /\ DOMAIN Stored = 1 .. historyCount
<1>1. historyCount \in Nat /\ historyCount <= MaxHistory /\ MaxHistory \in Nat
  BY HistoryAssumption DEF HistoryTypeOK
<1>2. \A i \in 1 .. historyCount : eventHistory[SlotOf(i)] \in EventRecord
  BY <1>1, Ring DEF HistoryTypeOK
<1>3. QED
  BY <1>1, <1>2 DEF Stored

(* The ring moves on: with room left the oldest event stays where it is    *)
(* and the new one comes behind the others; in a full ring the oldest slot *)
(* is the one written, and each event moves up one place.                  *)
LEMMA Shift ==
  ASSUME HistoryTypeOK, HistoryTypeOK', NEW e \in Event, addToHistory(e)
  PROVE  /\ historyCount < MaxHistory =>
              /\ \A i \in 1 .. MaxHistory : SlotOf(i)' = SlotOf(i)
              /\ SlotOf(historyCount + 1) = historyHead
              /\ \A i \in 1 .. historyCount : SlotOf(i) # historyHead
         /\ historyCount = MaxHistory =>
              /\ SlotOf(MaxHistory)' = historyHead
              /\ \A i \in 1 .. MaxHistory - 1 :
                   SlotOf(i)' = SlotOf(i + 1) /\ SlotOf(i + 1) # historyHead
<1>1. /\ historyHead \in 0 .. MaxHistory - 1
      /\ historyCount \in 0 .. MaxHistory
      /\ MaxHistory \in Nat \ {0}
  BY HistoryAssumption DEF HistoryTypeOK, Slot
<1>2. /\ historyHead' = IF historyHead + 1 = MaxHistory THEN 0 ELSE historyHead + 1
      /\ historyCount' = IF historyCount < MaxHistory THEN historyCount + 1
                         ELSE historyCount
  BY After DEF addToHistory, HistoryTypeOK
<1>3. /\ Oldest' \in Slot
      /\ Oldest' = IF historyHead' < historyCount'
                   THEN historyHead' + MaxHistory - historyCount'
                   ELSE historyHead' - historyCount'
  <2>1. /\ historyHead' \in Slot
        /\ historyCount' \in 0 .. MaxHistory
    BY DEF HistoryTypeOK
  <2>2. Oldest' = IF historyHead' < historyCount'
                  THEN historyHead' + MaxHistory - historyCount'
                  ELSE historyHead' - historyCount'
    BY <2>1, Back DEF Oldest
  <2>3. Oldest' \in Slot
    BY <2>1, Back DEF Oldest
  <2>4. QED
    BY <2>2, <2>3
<1>4. \A i \in 1 .. MaxHistory :
        SlotOf(i)' = IF Oldest' + i - 1 < MaxHistory THEN Oldest' + i - 1
                     ELSE Oldest' + i - 1 - MaxHistory
  BY <1>3, Forth DEF SlotOf
<1>5. /\ Oldest = IF historyHead < historyCount
                  THEN historyHead + MaxHistory - historyCount
                  ELSE historyHead - historyCount
      /\ \A i \in 1 .. MaxHistory :
           SlotOf(i) = IF Oldest + i - 1 < MaxHistory THEN Oldest + i - 1
                       ELSE Oldest + i - 1 - MaxHistory
  BY Ring
<1>6. CASE historyCount < MaxHistory
  <2>1. Oldest' = IF historyHead + 1 = MaxHistory /\ historyCount + 1 = MaxHistory
                  THEN 0 ELSE Oldest
    BY <1>1, <1>2, <1>3, <1>5, <1>6
  <2>2. historyHead + 1 = MaxHistory /\ historyCount + 1 = MaxHistory => Oldest = 0
    BY <1>1, <1>5, <1>6
  <2>3. Oldest' = Oldest
    BY <2>1, <2>2
  <2>4. \A i \in 1 .. MaxHistory : SlotOf(i)' = SlotOf(i)
    BY <1>4, <1>5, <2>3
  <2>5. SlotOf(historyCount + 1) = historyHead
    BY <1>1, <1>5, <1>6
  <2>6. \A i \in 1 .. historyCount : SlotOf(i) # historyHead
    BY <1>1, <1>5, <1>6
  <2>7. QED
    BY <1>1, <1>6, <2>4, <2>5, <2>6
<1>7. CASE historyCount = MaxHistory
  <2>1. Oldest = historyHead /\ Oldest' = historyHead'
    BY <1>1, <1>2, <1>3, <1>5, <1>7
  <2>2. SlotOf(MaxHistory)' = historyHead
    BY <1>1, <1>2, <1>4, <1>7, <2>1
  <2>3. \A i \in 1 .. MaxHistory - 1 :
          SlotOf(i)' = SlotOf(i + 1) /\ SlotOf(i + 1) # historyHead
    BY <1>1, <1>2, <1>4, <1>5, <1>7, <2>1
  <2>4. QED
    BY <1>1, <1>7, <2>2, <2>3
<1>8. QED
  BY <1>1, <1>6, <1>7
------------------------------------------------------------------------------
(* addToHistory appends the event as unread, behind all others, and drops  *)
(* the oldest one exactly when the ring is full.                           *)
LEMMA AddIsRecord ==
  ASSUME HistoryTypeOK, HistoryTypeOK', NEW e \in Event, addToHistory(e)
  PROVE  Log!Record(e)
<1> DEFINE new == [event |-> e, read |-> FALSE]
<1>1. /\ historyCount \in 0 .. MaxHistory
      /\ historyHead \in Slot
      /\ MaxHistory \in Nat \ {0}
      /\ new \in EventRecord
  BY HistoryAssumption DEF HistoryTypeOK, EventRecord
<1>2. /\ Stored \in Seq(EventRecord)
      /\ Len(Stored) = historyCount
      /\ DOMAIN Stored = 1 .. historyCount
      /\ \A i \in 1 .. historyCount : Stored[i] = eventHistory[SlotOf(i)]
  <2>1. \A i \in 1 .. historyCount : Stored[i] = eventHistory[SlotOf(i)]
    BY DEF Stored
  <2>2. QED
    BY <2>1, StoredSequence
<1>3. /\ Stored' \in Seq(EventRecord)
      /\ Len(Stored)' = historyCount'
      /\ \A i \in 1 .. historyCount' : Stored'[i] = eventHistory'[SlotOf(i)']
  <2>1. /\ Stored' = [i \in 1 .. historyCount' |-> eventHistory'[SlotOf(i)']]
        /\ historyCount' \in 0 .. MaxHistory
    BY DEF Stored, HistoryTypeOK
  <2>2. \A i \in 1 .. historyCount' : eventHistory'[SlotOf(i)'] \in EventRecord
    <3>1. /\ historyHead' \in Slot
          /\ eventHistory' \in [Slot -> EventRecord]
      BY DEF HistoryTypeOK
    <3>2. Oldest' \in Slot
      BY <2>1, <3>1, Back DEF Oldest
    <3>3. \A i \in 1 .. MaxHistory : SlotOf(i)' \in Slot
      BY <3>2, Forth DEF SlotOf
    <3>4. QED
      BY <1>1, <2>1, <3>1, <3>3
  <2>3. QED
    BY <1>1, <2>1, <2>2
<1>4. \A s \in Slot : eventHistory'[s] = IF s = historyHead THEN new ELSE eventHistory[s]
  BY DEF addToHistory, HistoryTypeOK
<1>5. \A i \in 1 .. MaxHistory : SlotOf(i) \in Slot
  BY Ring
<1> DEFINE longer == Append(Stored, new)
<1>6. /\ longer \in Seq(EventRecord)
      /\ Len(longer) = historyCount + 1
      /\ longer[historyCount + 1] = new
      /\ \A i \in 1 .. historyCount : longer[i] = Stored[i]
  BY <1>1, <1>2
<1>7. CASE historyCount < MaxHistory
  <2>1. historyCount' = historyCount + 1
    BY <1>7 DEF addToHistory
  <2>2. ASSUME NEW i \in 1 .. historyCount
        PROVE  Stored'[i] = longer[i]
    <3> HIDE DEF longer, new
    <3>1. i \in 1 .. MaxHistory /\ i \in 1 .. historyCount'
      BY <1>1, <1>7, <2>1
    <3>2. SlotOf(i)' = SlotOf(i) /\ SlotOf(i) # historyHead
      BY <1>7, <3>1, Shift
    <3>3. eventHistory'[SlotOf(i)] = eventHistory[SlotOf(i)]
      BY <1>4, <1>5, <3>1, <3>2
    <3>4. QED
      BY <1>2, <1>3, <1>6, <3>1, <3>2, <3>3
  <2>3. ASSUME NEW i \in 1 .. MaxHistory, i = historyCount + 1
        PROVE  Stored'[i] = longer[i]
    <3>1. SlotOf(i)' = historyHead
      BY <1>7, <2>3, Shift
    <3>2. Stored'[i] = eventHistory'[historyHead]
      BY <1>1, <1>3, <2>1, <2>3, <3>1
    <3>3. QED
      BY <1>1, <1>4, <1>6, <2>3, <3>2
  <2>4. Stored' = longer
    <3> HIDE DEF longer
    <3>1. ASSUME NEW i \in 1 .. historyCount + 1
          PROVE  Stored'[i] = longer[i]
      <4>1. i \in 1 .. MaxHistory /\ (i \in 1 .. historyCount \/ i = historyCount + 1)
        BY <1>1, <1>7
      <4>2. QED
        BY <2>2, <2>3, <4>1
    <3>2. Len(Stored)' = historyCount + 1
      BY <1>3, <2>1
    <3> QED
      BY <1>1, <1>3, <1>6, <3>1, <3>2, SeqEqual
  <2>5. QED
    BY <1>1, <1>2, <1>7, <2>4 DEF Log!Record
<1>8. CASE historyCount = MaxHistory
  <2>1. historyCount' = MaxHistory
    BY <1>1, <1>8 DEF addToHistory
  <2>2. /\ Tail(longer) \in Seq(EventRecord)
        /\ Len(Tail(longer)) = MaxHistory
        /\ \A i \in 1 .. MaxHistory : Tail(longer)[i] = longer[i + 1]
    BY <1>1, <1>6, <1>8
  <2>3. ASSUME NEW i \in 1 .. MaxHistory - 1
        PROVE  Stored'[i] = Tail(longer)[i]
    <3> HIDE DEF longer, new
    <3>1. i \in 1 .. MaxHistory /\ i + 1 \in 1 .. MaxHistory
      BY <1>1
    <3>2. SlotOf(i)' = SlotOf(i + 1) /\ SlotOf(i + 1) # historyHead
      BY <1>8, Shift
    <3>3. Stored'[i] = eventHistory'[SlotOf(i + 1)]
      BY <1>3, <2>1, <3>1, <3>2
    <3>4. eventHistory'[SlotOf(i + 1)] = eventHistory[SlotOf(i + 1)]
      BY <1>4, <1>5, <3>1, <3>2
    <3>5. eventHistory[SlotOf(i + 1)] = Stored[i + 1]
      BY <1>2, <1>8, <3>1
    <3>6. Stored[i + 1] = Tail(longer)[i]
      BY <1>6, <1>8, <2>2, <3>1
    <3>7. QED
      BY <3>3, <3>4, <3>5, <3>6
  <2>4. Stored'[MaxHistory] = Tail(longer)[MaxHistory]
    <3>1. SlotOf(MaxHistory)' = historyHead
      BY <1>8, Shift
    <3>2. Stored'[MaxHistory] = eventHistory'[historyHead]
      BY <1>1, <1>3, <2>1, <3>1
    <3>3. Tail(longer)[MaxHistory] = new
      BY <1>1, <1>6, <1>8, <2>2
    <3>4. QED
      BY <1>1, <1>4, <3>2, <3>3
  <2>5. Stored' = Tail(longer)
    <3> HIDE DEF longer
    <3>1. ASSUME NEW i \in 1 .. MaxHistory
          PROVE  Stored'[i] = Tail(longer)[i]
      <4>1. i \in 1 .. MaxHistory - 1 \/ i = MaxHistory
        BY <1>1
      <4>2. QED
        BY <2>3, <2>4, <4>1
    <3>2. Len(Stored)' = MaxHistory
      BY <1>3, <2>1
    <3> QED
      BY <1>1, <1>3, <2>2, <3>1, <3>2, SeqEqual
  <2>6. QED
    BY <1>1, <1>2, <1>8, <2>5 DEF Log!Record
<1>9. QED
  BY <1>1, <1>7, <1>8

(* markEventsAsRead marks every event a reader would see and no other.     *)
LEMMA MarkIsMarkRead ==
  ASSUME HistoryTypeOK, markEventsAsRead
  PROVE  Log!MarkRead
<1>1. /\ historyCount' = historyCount
      /\ historyHead' = historyHead
  BY DEF markEventsAsRead
<1>2. \A i \in 1 .. historyCount : SlotOf(i)' = SlotOf(i)
  BY <1>1 DEF SlotOf, Oldest
<1>3. \A i \in 1 .. historyCount : SlotOf(i) \in Slot
  BY Ring, HistoryAssumption DEF HistoryTypeOK
<1>4. \A i \in 1 .. historyCount :
        eventHistory'[SlotOf(i)] = [eventHistory[SlotOf(i)] EXCEPT !.read = TRUE]
  BY <1>3 DEF markEventsAsRead
<1>5. Stored' = [i \in 1 .. historyCount |-> eventHistory'[SlotOf(i)]]
  BY <1>1, <1>2 DEF Stored
<1>6. Stored' = [i \in 1 .. historyCount |-> [Stored[i] EXCEPT !.read = TRUE]]
  BY <1>4, <1>5 DEF Stored
<1>7. QED
  BY <1>6, StoredSequence DEF Log!MarkRead

(* Every step of the ring is a step of the log or leaves it alone.         *)
LEMMA HistoryStepIsLogStep ==
  ASSUME HistoryTypeOK, [HistoryNext]_historyVars
  PROVE  [Log!LogNext]_Stored
<1>1. ASSUME NEW e \in Event, addToHistory(e)
      PROVE  Log!LogNext
  BY <1>1, HistoryTypeStep, AddIsRecord DEF HistoryNext, Log!LogNext
<1>2. CASE markEventsAsRead
  BY <1>2, MarkIsMarkRead DEF Log!LogNext
<1>3. CASE clearHistory
  <2>1. Stored' = <<>>
    BY <1>3 DEF clearHistory, Stored
  <2>2. QED
    BY <2>1 DEF Log!LogNext, Log!Forget
<1>4. CASE UNCHANGED historyVars
  BY <1>4 DEF historyVars, Stored, SlotOf, Oldest
<1>5. QED
  BY <1>1, <1>2, <1>3, <1>4 DEF HistoryNext

(* What getEventHistory reports is the log of the last MAX_HISTORY events: *)
(* none is lost, repeated or out of order when the ring wraps around, is   *)
(* marked or is cleared.                                                   *)
THEOREM RingIsLog == HistorySpec => HistoryIsLog
<1>1. HistoryInit => Log!LogInit
  BY DEF HistoryInit, Log!LogInit, Stored
<1>2. HistoryTypeOK /\ [HistoryNext]_historyVars => [Log!LogNext]_Stored
  BY HistoryStepIsLogStep
<1>3. QED
  BY <1>1, <1>2, HistoryTypeCorrect, PTL DEF HistorySpec, HistoryIsLog, Log!LogSpec
------------------------------------------------------------------------------
(* The engine under the event manager's commands. *)
LEMMA CommandType ==
  ASSUME EngineTypeOK, NEW p \in Program,
         \/ loadProgram(p) \/ runProgram(p) \/ pauseProgram(p)
         \/ stopProgram(p) \/ deleteProgram(p)
  PROVE  EngineTypeOK'
<1>1. state' \in [Program -> ProgState \cup {"absent"}]
  BY DEF EngineTypeOK, ProgState, loadProgram, runProgram, pauseProgram,
         stopProgram, deleteProgram
<1>2. engine' \in {"STOPPED", "RUNNING"}
  BY DEF EngineTypeOK, loadProgram, runProgram, pauseProgram, stopProgram,
         deleteProgram
<1>3. QED BY <1>1, <1>2 DEF EngineTypeOK

LEMMA AddType ==
  ASSUME HistoryTypeOK, NEW t \in Event, addToHistory(t)
  PROVE  HistoryTypeOK'
BY HistoryTypeStep DEF HistoryNext

LEMMA MarkType ==
  ASSUME HistoryTypeOK, markEventsAsRead \/ clearHistory
  PROVE  HistoryTypeOK'
BY HistoryTypeStep DEF HistoryNext
------------------------------------------------------------------------------
(* Settings: what a configuration gives a trigger, enabled or not. *)
LEMMA SettingFields ==
  ASSUME NEW s \in Settings
  PROVE  /\ s \in IOTrigger \cup ScheduledTrigger
         /\ s # NoTrigger
         /\ s.type # "SCHEDULED" => s.endpoint \in Endpoint
                                      /\ s.debounceMs \in 0 .. MaxAge
<1>1. PICK c \in Config : \E t \in DOMAIN c, b \in BOOLEAN :
             s = [c[t] EXCEPT !.enabled = b]
  BY DEF Settings
<1>2. PICK t \in DOMAIN c, b \in BOOLEAN : s = [c[t] EXCEPT !.enabled = b]
  BY <1>1
<1>3. c[t] \in IOTrigger \cup ScheduledTrigger
  BY ConfigAssumption
<1>4. s \in IOTrigger \cup ScheduledTrigger
  <2>1. CASE c[t] \in IOTrigger
    BY <1>2, <2>1 DEF IOTrigger
  <2>2. CASE c[t] \in ScheduledTrigger
    BY <1>2, <2>2 DEF ScheduledTrigger
  <2>3. QED BY <1>3, <2>1, <2>2
<1>5. CASE s \in IOTrigger
  BY <1>4, <1>5 DEF IOTrigger, NoTrigger
<1>6. CASE s \in ScheduledTrigger
  BY <1>4, <1>6 DEF ScheduledTrigger, NoTrigger
<1>7. QED BY <1>4, <1>5, <1>6

LEMMA ConfiguredSetting ==
  ASSUME NEW c \in Config, NEW t \in DOMAIN c
  PROVE  c[t] \in Settings
<1>1. c[t] \in IOTrigger \cup ScheduledTrigger
  BY ConfigAssumption
<1>2. c[t].enabled \in BOOLEAN
  BY <1>1 DEF IOTrigger, ScheduledTrigger
<1>3. c[t] = [c[t] EXCEPT !.enabled = c[t].enabled]
  <2>1. CASE c[t] \in IOTrigger
    BY <2>1 DEF IOTrigger
  <2>2. CASE c[t] \in ScheduledTrigger
    BY <2>2 DEF ScheduledTrigger
  <2>3. QED BY <1>1, <2>1, <2>2
<1>4. QED BY <1>2, <1>3 DEF Settings

LEMMA EnabledSetting ==
  ASSUME NEW s \in Settings, NEW enabled \in BOOLEAN
  PROVE  [s EXCEPT !.enabled = enabled] \in Settings
<1>1. PICK c \in Config : \E t \in DOMAIN c, b \in BOOLEAN :
             s = [c[t] EXCEPT !.enabled = b]
  BY DEF Settings
<1>2. PICK t \in DOMAIN c, b \in BOOLEAN : s = [c[t] EXCEPT !.enabled = b]
  BY <1>1
<1>3. c[t] \in IOTrigger \cup ScheduledTrigger
  BY ConfigAssumption
<1>4. [s EXCEPT !.enabled = enabled] = [c[t] EXCEPT !.enabled = enabled]
  <2>1. CASE c[t] \in IOTrigger
    BY <1>2, <2>1 DEF IOTrigger
  <2>2. CASE c[t] \in ScheduledTrigger
    BY <1>2, <2>2 DEF ScheduledTrigger
  <2>3. QED BY <1>3, <2>1, <2>2
<1>5. QED BY <1>4 DEF Settings
------------------------------------------------------------------------------
(* The clock: a remainder, and what a tick makes of the ticks since a      *)
(* firing.  The lap may close, and then they start from 0 again.           *)
LEMMA Remainder ==
  ASSUME NEW N \in Nat \ {0}, NEW x \in 0 .. 2 * N - 1
  PROVE  x % N = (IF x < N THEN x ELSE x - N) /\ x % N \in 0 .. N - 1
OBVIOUS

LEMMA Distance ==
  ASSUME NEW N \in Nat \ {0}, NEW m \in 0 .. N - 1, NEW t \in 0 .. N - 1
  PROVE  /\ (m + N - t) % N = IF t <= m THEN m - t ELSE m + N - t
         /\ (m + N - t) % N \in 0 .. N - 1
<1> DEFINE x == m + N - t
<1>1. x \in 0 .. 2 * N - 1 /\ (x < N <=> ~(t <= m)) /\ x - N = m - t
  OBVIOUS
<1>2. x % N = (IF x < N THEN x ELSE x - N) /\ x % N \in 0 .. N - 1
  <2> HIDE DEF x
  <2> QED BY <1>1, Remainder
<1>3. QED BY <1>1, <1>2

LEMMA DistanceTicks ==
  ASSUME NEW N \in Nat \ {0}, NEW m \in 0 .. N - 1, NEW t \in 0 .. N - 1
  PROVE  /\ (m + 1) % N \in 0 .. N - 1
         /\ (((m + 1) % N) + N - t) % N <= ((m + N - t) % N) + 1
<1> DEFINE x == m + 1
           n == x % N
<1>1. x \in 0 .. 2 * N - 1 /\ x \in 1 .. N
  OBVIOUS
<1>2. n = (IF x < N THEN x ELSE x - N) /\ n \in 0 .. N - 1
  <2> HIDE DEF x
  <2> QED BY <1>1, Remainder
<1>3. n = (IF m + 1 < N THEN m + 1 ELSE 0)
  BY <1>1, <1>2
<1> HIDE DEF n
<1>4. (m + N - t) % N = IF t <= m THEN m - t ELSE m + N - t
  BY Distance
<1>5. (n + N - t) % N = IF t <= n THEN n - t ELSE n + N - t
  BY <1>2, Distance
<1>6. (n + N - t) % N <= ((m + N - t) % N) + 1
  BY <1>3, <1>4, <1>5
<1>7. QED BY <1>2, <1>6 DEF n
------------------------------------------------------------------------------
(* The time a trigger has kept quiet is at least what millis() shows of    *)
(* it; where the clock has gone round since, it is longer.                 *)
QuietLongEnough(t) == age[t] = MaxAge \/ Elapsed(t) <= age[t]

IInv == TypeOK /\ \A t \in Trigger : QuietLongEnough(t)

(* The constants and the variables this invariant speaks of. *)
LEMMA EventTypes ==
  ASSUME TypeOK
  PROVE  /\ setting \in [Trigger -> Settings \cup {NoTrigger}]
         /\ lastTrigger \in [Trigger -> 0 .. UptimeWrap - 1]
         /\ lastValue \in [Trigger -> Value \cup {DefaultValue}]
         /\ endpoint \in [Endpoint -> EndpointState]
         /\ uptime \in 0 .. UptimeWrap - 1 /\ wall \in 0 .. Day - 1
         /\ cursor \in Trigger /\ swept \in BOOLEAN
         /\ age \in [Trigger -> 0 .. MaxAge]
         /\ UptimeWrap \in Nat \ {0} /\ MaxAge \in Nat \ {0}
         /\ NumTriggers \in Nat \ {0} /\ Trigger = 1 .. NumTriggers
BY EventsAssumption DEF TypeOK, Trigger

LEMMA DayLasts == Day \in Nat \ {0}
<1>1. MinutesPerDay \in Nat \ {0} /\ TicksPerMinute \in Nat \ {0}
  BY EventsAssumption
<1>2. \A a, b \in Nat \ {0} : a * b \in Nat \ {0}
  OBVIOUS
<1>3. QED BY <1>1, <1>2 DEF Day

LEMMA AgeRange ==
  ASSUME TypeOK, NEW t \in Trigger
  PROVE  /\ Elapsed(t) \in 0 .. UptimeWrap - 1
         /\ age[t] \in 0 .. MaxAge
<1>1. /\ uptime \in 0 .. UptimeWrap - 1 /\ lastTrigger[t] \in 0 .. UptimeWrap - 1
      /\ UptimeWrap \in Nat \ {0} /\ age[t] \in 0 .. MaxAge
  BY EventTypes
<1>2. QED BY <1>1, Distance DEF Elapsed

LEMMA InitIInv == Init => IInv
<1> SUFFICES ASSUME Init PROVE IInv
  OBVIOUS
<1>1. EngineTypeOK
  BY DEF Init, EngineInit, EngineTypeOK
<1>2. HistoryTypeOK
  BY HistoryAssumption
     DEF Init, HistoryInit, HistoryTypeOK, Slot, EventRecord, NoRecord
<1>3. /\ 0 \in 0 .. UptimeWrap - 1 /\ MaxAge \in 0 .. MaxAge /\ 1 \in Trigger
  BY EventsAssumption DEF Trigger
<1>4. TypeOK
  BY <1>1, <1>2, <1>3 DEF Init, TypeOK, EndpointState
<1>5. \A t \in Trigger : QuietLongEnough(t)
  BY DEF Init, QuietLongEnough
<1>6. QED BY <1>4, <1>5 DEF IInv

(* The loop goes on to a trigger of the maps. *)
LEMMA AdvanceType ==
  ASSUME TypeOK, NEW t \in Trigger, Advance(t)
  PROVE  cursor' \in Trigger /\ swept' \in BOOLEAN
<1>1. t \in 1 .. NumTriggers /\ NumTriggers \in Nat \ {0} /\ swept \in BOOLEAN
      /\ Trigger = 1 .. NumTriggers
  BY EventTypes
<1>2. cursor' = IF t = NumTriggers THEN 1 ELSE t + 1
  BY DEF Advance
<1>3. cursor' \in 1 .. NumTriggers
  BY <1>1, <1>2
<1>4. swept' \in BOOLEAN
  BY <1>1 DEF Advance
<1>5. QED BY <1>1, <1>3, <1>4

LEMMA ExecuteInv ==
  ASSUME IInv, NEW t \in Trigger, executeEvent(t)
  PROVE  IInv'
<1>1. TypeOK
  BY DEF IInv
<1>2. /\ EngineTypeOK /\ HistoryTypeOK
      /\ setting[t] \in Settings /\ setting[t] # NoTrigger
  BY <1>1, EventTypes DEF TypeOK, executeEvent, ShouldTrigger
<1>3. EngineTypeOK'
  <2>1. CASE setting[t].program \in Loaded
    BY <1>2, <2>1, CommandType DEF executeEvent, Loaded
  <2>2. CASE setting[t].program \notin Loaded
    BY <1>2, <2>2 DEF executeEvent, engineVars, EngineTypeOK
  <2>3. QED BY <2>1, <2>2
<1>4. HistoryTypeOK'
  BY <1>2, AddType DEF executeEvent, Trigger
<1>5. cursor' \in Trigger /\ swept' \in BOOLEAN
  BY <1>1, AdvanceType DEF executeEvent
<1>6. /\ lastTrigger' = [lastTrigger EXCEPT ![t] = uptime]
      /\ age' = [age EXCEPT ![t] = 0]
      /\ UNCHANGED <<setting, endpoint, uptime, wall>>
  BY DEF executeEvent
<1>7. lastValue' \in [Trigger -> Value \cup {DefaultValue}]
  <2>1. CASE setting[t].type = "INPUT_CHANGED"
    <3>1. /\ setting[t].endpoint \in Endpoint
          /\ endpoint[setting[t].endpoint] # NoEndpoint
      BY <1>2, <2>1, SettingFields
         DEF executeEvent, ShouldTrigger, shouldTriggerIO
    <3>2. endpoint[setting[t].endpoint].value \in Value
      BY <1>1, <3>1, EventTypes DEF EndpointState
    <3>3. QED BY <1>1, <2>1, <3>2, EventTypes DEF executeEvent
  <2>2. CASE setting[t].type # "INPUT_CHANGED"
    BY <1>1, <2>2, EventTypes DEF executeEvent
  <2>3. QED BY <2>1, <2>2
<1>8. /\ lastTrigger' \in [Trigger -> 0 .. UptimeWrap - 1]
      /\ age' \in [Trigger -> 0 .. MaxAge]
  <2>1. uptime \in 0 .. UptimeWrap - 1 /\ 0 \in 0 .. MaxAge
    BY <1>1, EventTypes
  <2>2. QED BY <1>1, <1>6, <2>1, EventTypes
<1>9. TypeOK'
  BY <1>1, <1>3, <1>4, <1>5, <1>6, <1>7, <1>8 DEF TypeOK
<1>10. ASSUME NEW u \in Trigger
       PROVE  QuietLongEnough(u)'
  <2>1. CASE u = t
    <3>1. lastTrigger'[u] = uptime /\ age'[u] = 0 /\ uptime' = uptime
      BY <1>1, <1>6, <2>1, EventTypes
    <3>2. (uptime + UptimeWrap - uptime) % UptimeWrap = 0
      <4>1. uptime \in 0 .. UptimeWrap - 1 /\ UptimeWrap \in Nat \ {0}
        BY <1>1, EventTypes
      <4>2. QED BY <4>1, Distance
    <3>3. Elapsed(u)' = 0
      BY <3>1, <3>2 DEF Elapsed
    <3>4. QED BY <3>1, <3>3 DEF QuietLongEnough
  <2>2. CASE u # t
    <3>1. lastTrigger'[u] = lastTrigger[u] /\ age'[u] = age[u]
          /\ uptime' = uptime
      BY <1>1, <1>6, <2>2, EventTypes
    <3>2. QED BY <3>1 DEF IInv, QuietLongEnough, Elapsed
  <2>3. QED BY <2>1, <2>2
<1>11. QED BY <1>9, <1>10 DEF IInv

(* Steps that leave the clock, the last firings and the ages alone. *)
LEMMA OtherwiseInv ==
  ASSUME IInv, UNCHANGED <<lastTrigger, uptime, wall, age>>,
         EngineTypeOK', HistoryTypeOK',
         setting' \in [Trigger -> Settings \cup {NoTrigger}],
         lastValue' \in [Trigger -> Value \cup {DefaultValue}],
         endpoint' \in [Endpoint -> EndpointState],
         cursor' \in Trigger, swept' \in BOOLEAN
  PROVE  IInv'
<1>1. TypeOK'
  BY DEF IInv, TypeOK
<1>2. \A t \in Trigger : QuietLongEnough(t)'
  BY DEF IInv, QuietLongEnough, Elapsed
<1>3. QED BY <1>1, <1>2 DEF IInv

LEMMA ResetInv ==
  ASSUME IInv, NEW ts \in SUBSET Trigger, NEW s, Reset(ts, s),
         \A t \in ts : s[t] \in Settings \cup {NoTrigger}
  PROVE  IInv'
<1>1. TypeOK /\ EngineTypeOK /\ HistoryTypeOK
  BY DEF IInv, TypeOK
<1>2. 0 \in 0 .. UptimeWrap - 1 /\ MaxAge \in 0 .. MaxAge
  BY <1>1, EventTypes
<1>3. EngineTypeOK' /\ HistoryTypeOK'
  BY <1>1 DEF Reset, engineVars, historyVars, EngineTypeOK, HistoryTypeOK
<1>4. setting' \in [Trigger -> Settings \cup {NoTrigger}]
  BY <1>1, EventTypes DEF Reset
<1>5. /\ lastTrigger' \in [Trigger -> 0 .. UptimeWrap - 1]
      /\ age' \in [Trigger -> 0 .. MaxAge]
  BY <1>1, <1>2, EventTypes DEF Reset
<1>6. lastValue' \in [Trigger -> Value \cup {DefaultValue}]
  BY <1>1, EventTypes DEF Reset
<1>7. TypeOK'
  BY <1>1, <1>3, <1>4, <1>5, <1>6 DEF Reset, TypeOK
<1>8. ASSUME NEW t \in Trigger
      PROVE  QuietLongEnough(t)'
  <2>1. CASE t \in ts
    BY <2>1 DEF Reset, QuietLongEnough
  <2>2. CASE t \notin ts
    BY <2>2 DEF Reset, QuietLongEnough, Elapsed, IInv
  <2>3. QED BY <2>1, <2>2
<1>9. QED BY <1>7, <1>8 DEF IInv

LEMMA TickInv ==
  ASSUME IInv, Tick
  PROVE  IInv'
<1>1. TypeOK /\ EngineTypeOK /\ HistoryTypeOK
  BY DEF IInv, TypeOK
<1>2. /\ uptime' = (uptime + 1) % UptimeWrap
      /\ wall' = (wall + 1) % Day
      /\ age' = [t \in Trigger |->
                   IF age[t] < MaxAge THEN age[t] + 1 ELSE MaxAge]
      /\ swept' = FALSE
      /\ UNCHANGED <<engineVars, historyVars, setting, lastTrigger, lastValue,
                     endpoint, cursor>>
  BY DEF Tick
<1>3. EngineTypeOK' /\ HistoryTypeOK'
  BY <1>1, <1>2 DEF engineVars, historyVars, EngineTypeOK, HistoryTypeOK
<1>4. uptime' \in 0 .. UptimeWrap - 1
  <2>1. uptime \in 0 .. UptimeWrap - 1 /\ UptimeWrap \in Nat \ {0}
    BY <1>1, EventTypes
  <2>2. QED BY <1>2, <2>1, DistanceTicks
<1>5. wall' \in 0 .. Day - 1
  <2>1. wall \in 0 .. Day - 1 /\ Day \in Nat \ {0}
    BY <1>1, EventTypes, DayLasts
  <2>2. QED BY <1>2, <2>1, DistanceTicks
<1>6. \A t \in Trigger : /\ age[t] \in 0 .. MaxAge /\ MaxAge \in Nat
                         /\ age'[t] = IF age[t] < MaxAge THEN age[t] + 1 ELSE MaxAge
                         /\ age'[t] \in 0 .. MaxAge
  BY <1>1, <1>2, EventTypes
<1>7. age' \in [Trigger -> 0 .. MaxAge]
  BY <1>2, <1>6
<1>8. TypeOK'
  BY <1>1, <1>2, <1>3, <1>4, <1>5, <1>7 DEF TypeOK
<1>9. ASSUME NEW t \in Trigger
      PROVE  QuietLongEnough(t)'
  <2>1. /\ uptime \in 0 .. UptimeWrap - 1
        /\ lastTrigger[t] \in 0 .. UptimeWrap - 1
        /\ UptimeWrap \in Nat \ {0}
    BY <1>1, EventTypes
  <2>2. Elapsed(t)' <= Elapsed(t) + 1
    BY <1>2, <2>1, DistanceTicks DEF Elapsed
  <2>3. Elapsed(t) \in Nat /\ Elapsed(t)' \in Nat
    <3>1. Elapsed(t) \in 0 .. UptimeWrap - 1
      BY <1>1, AgeRange
    <3>2. Elapsed(t)' \in 0 .. UptimeWrap - 1
      BY <1>2, <1>4, <2>1, Distance DEF Elapsed
    <3>3. QED BY <2>1, <3>1, <3>2
  <2>4. age[t] = MaxAge \/ Elapsed(t) <= age[t]
    BY DEF IInv, QuietLongEnough
  <2>5. age'[t] = MaxAge \/ Elapsed(t)' <= age'[t]
    BY <1>6, <2>2, <2>3, <2>4
  <2>6. QED BY <2>5 DEF QuietLongEnough
<1>10. QED BY <1>8, <1>9 DEF IInv

LEMMA RestartInv ==
  ASSUME IInv, Restart
  PROVE  IInv'
<1>1. TypeOK /\ HistoryTypeOK /\ wall \in 0 .. Day - 1
  BY DEF IInv, TypeOK
<1>2. EngineTypeOK'
  BY DEF Restart, restartEsp, EngineTypeOK
<1>3. HistoryTypeOK'
  BY <1>1, MarkType DEF Restart
<1>4. 0 \in 0 .. UptimeWrap - 1 /\ MaxAge \in 0 .. MaxAge /\ 1 \in Trigger
  BY <1>1, EventTypes
<1>5. TypeOK'
  BY <1>1, <1>2, <1>3, <1>4 DEF Restart, TypeOK, EndpointState
<1>6. \A t \in Trigger : QuietLongEnough(t)'
  BY DEF Restart, QuietLongEnough
<1>7. QED BY <1>5, <1>6 DEF IInv

LEMMA EndpointInv ==
  ASSUME IInv, NEW e \in Endpoint, NEW s \in EndpointState, SetEndpoint(e, s)
  PROVE  IInv'
<1>1. TypeOK /\ EngineTypeOK /\ HistoryTypeOK
  BY DEF IInv, TypeOK
<1>2. EngineTypeOK' /\ HistoryTypeOK'
  BY <1>1
     DEF SetEndpoint, engineVars, historyVars, EngineTypeOK, HistoryTypeOK
<1>3. endpoint' \in [Endpoint -> EndpointState]
  BY <1>1, EventTypes DEF SetEndpoint
<1>4. UNCHANGED <<setting, lastTrigger, lastValue, uptime, wall, cursor, swept,
                  age>>
  BY DEF SetEndpoint
<1>5. QED BY <1>1, <1>2, <1>3, <1>4, EventTypes, OtherwiseInv

LEMMA NextIInv == IInv /\ [Next]_vars => IInv'
<1> SUFFICES ASSUME IInv, [Next]_vars PROVE IInv'
  OBVIOUS
<1>1. TypeOK /\ EngineTypeOK /\ HistoryTypeOK
  BY DEF IInv, TypeOK
<1>2. ASSUME NEW t \in Trigger, Skip(t)
      PROVE  IInv'
  <2>1. cursor' \in Trigger /\ swept' \in BOOLEAN
    BY <1>1, <1>2, AdvanceType DEF Skip
  <2>2. EngineTypeOK' /\ HistoryTypeOK'
    BY <1>1, <1>2
       DEF Skip, engineVars, historyVars, EngineTypeOK, HistoryTypeOK
  <2>3. UNCHANGED <<setting, lastTrigger, lastValue, endpoint, uptime, wall,
                    age>>
    BY <1>2 DEF Skip
  <2>4. QED BY <1>1, <2>1, <2>2, <2>3, EventTypes, OtherwiseInv
<1>3. ASSUME NEW c \in Config, loadConfig(c)
      PROVE  IInv'
  BY <1>3, ResetInv, ConfiguredSetting, ConfigAssumption DEF loadConfig
<1>4. ASSUME NEW t \in Trigger, removeTrigger(t)
      PROVE  IInv'
  BY <1>4, ResetInv DEF removeTrigger
<1>5. ASSUME NEW t \in Trigger, NEW b \in BOOLEAN, setTriggerEnabled(t, b)
      PROVE  IInv'
  <2>1. EngineTypeOK' /\ HistoryTypeOK'
    BY <1>1, <1>5
       DEF setTriggerEnabled, engineVars, historyVars, EngineTypeOK,
           HistoryTypeOK
  <2>2. /\ setting[t] \in Settings
        /\ setting' = [setting EXCEPT ![t] = [setting[t] EXCEPT !.enabled = b]]
    BY <1>1, <1>5, EventTypes DEF setTriggerEnabled
  <2>3. [setting[t] EXCEPT !.enabled = b] \in Settings
    BY <2>2, EnabledSetting
  <2>4. setting' \in [Trigger -> Settings \cup {NoTrigger}]
    BY <1>1, <2>2, <2>3, EventTypes
  <2>5. UNCHANGED <<lastTrigger, lastValue, endpoint, uptime, wall, cursor,
                    swept, age>>
    BY <1>5 DEF setTriggerEnabled
  <2>6. QED BY <1>1, <2>1, <2>4, <2>5, EventTypes, OtherwiseInv
<1>6. ASSUME NEW e \in Endpoint,
             \/ registerEndpoint(e) \/ removeEndpoint(e)
             \/ \E b \in BOOLEAN : updateEndpointStatus(e, b)
             \/ \E v \in Value : updateEndpointValue(e, v)
      PROVE  IInv'
  <2>1. NoEndpoint \in EndpointState /\ endpoint[e] \in EndpointState
    BY <1>1, EventTypes DEF EndpointState
  <2>2. ASSUME NEW b \in BOOLEAN, updateEndpointStatus(e, b)
        PROVE  IInv'
    <3>1. [endpoint[e] EXCEPT !.isOnline = b] \in EndpointState
      BY <2>1, <2>2 DEF updateEndpointStatus, EndpointState
    <3>2. QED BY <2>2, <3>1, EndpointInv DEF updateEndpointStatus
  <2>3. ASSUME NEW v \in Value, updateEndpointValue(e, v)
        PROVE  IInv'
    <3>1. [endpoint[e] EXCEPT !.value = v] \in EndpointState
      BY <2>1, <2>3 DEF updateEndpointValue, EndpointState
    <3>2. QED BY <2>3, <3>1, EndpointInv DEF updateEndpointValue
  <2>4. QED
    BY <1>6, <2>1, <2>2, <2>3, EndpointInv DEF registerEndpoint, removeEndpoint
<1>7. CASE Command
  <2>1. EngineTypeOK'
    BY <1>1, <1>7, CommandType DEF Command
  <2>2. HistoryTypeOK' /\ UNCHANGED eventVars
    BY <1>1, <1>7 DEF Command, historyVars, HistoryTypeOK
  <2>3. QED BY <1>1, <2>1, <2>2, EventTypes, OtherwiseInv DEF eventVars
<1>8. CASE Publish
  <2>1. HistoryTypeOK'
    BY <1>1, <1>8, MarkType DEF Publish
  <2>2. EngineTypeOK' /\ UNCHANGED eventVars
    BY <1>1, <1>8 DEF Publish, engineVars, EngineTypeOK
  <2>3. QED BY <1>1, <2>1, <2>2, EventTypes, OtherwiseInv DEF eventVars
<1>9. CASE UNCHANGED vars
  <2>1. EngineTypeOK' /\ HistoryTypeOK' /\ UNCHANGED eventVars
    BY <1>1, <1>9 DEF vars, engineVars, historyVars, EngineTypeOK, HistoryTypeOK
  <2>2. QED BY <1>1, <2>1, EventTypes, OtherwiseInv DEF eventVars
<1>10. QED
  BY <1>2, <1>3, <1>4, <1>5, <1>6, <1>7, <1>8, <1>9, ExecuteInv, TickInv,
     RestartInv DEF Next, loop
------------------------------------------------------------------------------
(* Whatever is configured, removed, enabled, registered and fired, and     *)
(* however often the clocks wrap, every trigger, endpoint, program and the *)
(* ring hold what they may hold, and the loop stays within its maps.       *)
THEOREM EventsTypeCorrect == Spec => []TypeOK
<1>1. IInv => TypeOK
  BY DEF IInv
<1>2. QED
  BY InitIInv, NextIInv, <1>1, PTL DEF Spec

(* IOEventManager::shouldTriggerIO: two events of one I/O trigger are at   *)
(* least its debounce time apart, also when millis() wraps in between.     *)
THEOREM EventsDebounced == Spec => Debounced
<1>1. ASSUME IInv, [Next]_vars
      PROVE  [\A t \in Trigger :
                executeEvent(t) /\ setting[t].type # "SCHEDULED"
                  => age[t] >= setting[t].debounceMs]_vars
  <2>1. SUFFICES ASSUME NEW t \in Trigger, executeEvent(t),
                        setting[t].type # "SCHEDULED"
                 PROVE  age[t] >= setting[t].debounceMs
    OBVIOUS
  <2>2. setting[t] \in Settings /\ ~(Elapsed(t) < setting[t].debounceMs)
    BY <1>1, <2>1, EventTypes
       DEF IInv, executeEvent, ShouldTrigger, shouldTriggerIO, Debouncing
  <2>3. setting[t].debounceMs \in 0 .. MaxAge /\ MaxAge \in Nat
    BY <2>1, <2>2, SettingFields, EventsAssumption
  <2>4. /\ Elapsed(t) \in 0 .. UptimeWrap - 1 /\ age[t] \in 0 .. MaxAge
        /\ UptimeWrap \in Nat
    BY <1>1, AgeRange, EventsAssumption DEF IInv
  <2>5. age[t] = MaxAge \/ Elapsed(t) <= age[t]
    BY <1>1 DEF IInv, QuietLongEnough
  <2>6. QED BY <2>2, <2>3, <2>4, <2>5
<1>2. QED
  BY InitIInv, NextIInv, <1>1, PTL DEF Spec, Debounced

(* The event manager writes its ring with addToHistory, the sketch marks   *)
(* and clears it, a restart clears it: it stays the log of the last        *)
(* MAX_HISTORY events.                                                     *)
THEOREM EventsLogged == Spec => HistoryIsLog
<1>1. Init => HistoryInit
  BY DEF Init
<1>2. [Next]_vars => [HistoryNext]_historyVars
  BY DEF Next, vars, loop, executeEvent, Skip, loadConfig, removeTrigger, Reset,
         setTriggerEnabled, registerEndpoint, removeEndpoint, SetEndpoint,
         updateEndpointStatus, updateEndpointValue, Command, Publish, Tick,
         Restart, HistoryNext, Trigger
<1>3. QED
  BY <1>1, <1>2, RingIsLog, PTL DEF Spec, HistorySpec
==============================================================================
