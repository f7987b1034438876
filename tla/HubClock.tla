------------------------------- MODULE HubClock ------------------------------
(***************************************************************************)
(* millis() on the hub and the rounds of EspHub::loop.  Time is counted in *)
(* ticks; a round comes at most MaxGap ticks after the one before it, the  *)
(* delay being programs, web requests and whatever else the hub does.      *)
(***************************************************************************)
EXTENDS Integers

CONSTANTS
  Wrap,             \* millis() counts modulo this
  MaxGap,           \* ticks between two rounds, at most
  OfflineTimeout,   \* 60000 ms of silence in ticks
  MaxAge            \* bound on the ages: "long ago or never"

ASSUME ClockAssumption ==
  /\ Wrap \in Nat /\ MaxGap \in Nat \ {0} /\ OfflineTimeout \in Nat
  /\ MaxAge \in Nat
  /\ OfflineTimeout + MaxGap < MaxAge /\ MaxAge < Wrap

VARIABLES
  millis,
  late      \* ticks since the last round

clockVars == <<millis, late>>

ClockTypeOK == millis \in 0 .. Wrap - 1 /\ late \in 0 .. MaxGap
ClockInit == millis = 0 /\ late = 0

(* As if the difference were taken without its sign. *)
SinceAbs(t) == IF millis >= t THEN millis - t ELSE t - millis

(* millis() - t in unsigned arithmetic. *)
Since(t) == (millis - t) % Wrap
Silent(t) == Since(t) > OfflineTimeout

(* (history) one tick more since something happened *)
Older(age) == IF age < MaxAge THEN age + 1 ELSE age

Passes == late < MaxGap /\ millis' = (millis + 1) % Wrap /\ late' = late + 1
Round == late' = 0 /\ UNCHANGED millis
==============================================================================
