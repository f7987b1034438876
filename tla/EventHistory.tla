----------------------------- MODULE EventHistory ----------------------------
(***************************************************************************)
(* The event history of IOEventManager: a ring of MaxHistory slots, the    *)
(* next slot to write and the number of slots in use.  Readers walk        *)
(* historyCount slots up to historyHead.                                   *)
(***************************************************************************)
EXTENDS Naturals, Sequences

CONSTANTS
  Event,        \* the events recorded
  NoEvent,      \* the contents of a slot never written
  MaxHistory    \* slots of the ring (MAX_HISTORY)

ASSUME HistoryAssumption == MaxHistory \in Nat \ {0} /\ NoEvent \notin Event

VARIABLES eventHistory, historyHead, historyCount

historyVars == <<eventHistory, historyHead, historyCount>>

Slot == 0 .. MaxHistory - 1
EventRecord == [event : Event \cup {NoEvent}, read : BOOLEAN]
NoRecord == [event |-> NoEvent, read |-> FALSE]

HistoryTypeOK ==
  /\ eventHistory \in [Slot -> EventRecord]
  /\ historyHead \in Slot
  /\ historyCount \in 0 .. MaxHistory

HistoryInit ==
  /\ eventHistory = [s \in Slot |-> NoRecord]
  /\ historyHead = 0
  /\ historyCount = 0

(* The slot a reader finds the i-th oldest event in. *)
Oldest == (historyHead + MaxHistory - historyCount) % MaxHistory
SlotOf(i) == (Oldest + i - 1) % MaxHistory
------------------------------------------------------------------------------
(* As if a slot that is written again kept its mark. *)
AddKeepingMark(e) ==
  /\ eventHistory' = [eventHistory EXCEPT ![historyHead].event = e]
  /\ historyHead' = (historyHead + 1) % MaxHistory
  /\ historyCount' = IF historyCount < MaxHistory THEN historyCount + 1
                                                  ELSE historyCount

addToHistory(e) ==
  /\ eventHistory' = [eventHistory EXCEPT ![historyHead] =
                        [event |-> e, read |-> FALSE]]
  /\ historyHead' = (historyHead + 1) % MaxHistory
  /\ historyCount' = IF historyCount < MaxHistory THEN historyCount + 1
                                                  ELSE historyCount

(* What getEventHistory(false) reports; getEventHistory(true) and          *)
(* serializeEventsToJson leave the read ones out.                          *)
Stored == [i \in 1 .. historyCount |-> eventHistory[SlotOf(i)]]

markEventsAsRead ==
  /\ LET used == {SlotOf(i) : i \in 1 .. historyCount}
     IN  eventHistory' = [s \in Slot |->
            IF s \in used THEN [eventHistory[s] EXCEPT !.read = TRUE]
                          ELSE eventHistory[s]]
  /\ UNCHANGED <<historyHead, historyCount>>

(* The slots keep their contents; also what begin does after a restart. *)
clearHistory ==
  /\ historyHead' = 0
  /\ historyCount' = 0
  /\ UNCHANGED eventHistory

HistoryNext ==
  \/ \E e \in Event : addToHistory(e)
  \/ markEventsAsRead
  \/ clearHistory

HistorySpec == HistoryInit /\ [][HistoryNext]_historyVars
------------------------------------------------------------------------------
(* Guide of the event manager: the history keeps the last MaxHistory       *)
(* events.  The ring reports them oldest first, none lost, repeated or     *)
(* out of order, with the unread marks of those that are still there.      *)
Log == INSTANCE BoundedLog WITH log <- Stored, Capacity <- MaxHistory
HistoryIsLog == Log!LogSpec
==============================================================================
