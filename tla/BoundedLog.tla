------------------------------ MODULE BoundedLog -----------------------------
(***************************************************************************)
(* What the event history promises its reader: the last Capacity events,   *)
(* oldest first, each marked read or unread.                               *)
(***************************************************************************)
EXTENDS Naturals, Sequences

CONSTANTS
  Event,      \* what may be recorded
  Capacity    \* how many events are kept

VARIABLE log

LogInit == log = <<>>

(* A new event is unread, and pushes the oldest one out of a full log. *)
Record(e) ==
  LET longer == Append(log, [event |-> e, read |-> FALSE])
  IN  log' = IF Len(log) = Capacity THEN Tail(longer) ELSE longer

MarkRead == log' = [i \in DOMAIN log |-> [log[i] EXCEPT !.read = TRUE]]

Forget == log' = <<>>

LogNext ==
  \/ \E e \in Event : Record(e)
  \/ MarkRead
  \/ Forget

LogSpec == LogInit /\ [][LogNext]_log
==============================================================================
