---------------------------- MODULE DevicesProofs ----------------------------
(***************************************************************************)
(* The devices of each kind, for any devices, nodes, codes, files and      *)
(* configurations and any range of millis(): who is shown online has been  *)
(* heard of, a pairing window ends, what is reported of a 433 MHz switch   *)
(* is the state it is in, and no failed load leaves a device behind that   *)
(* nobody was told of.                                                     *)
(***************************************************************************)
EXTENDS MCDevices, ModulesProofs, FiniteSetTheorems, TLAPS

(* A remainder where at most one lap is to be added or taken away. *)
LEMMA Lap ==
  ASSUME NEW N \in Nat \ {0}, NEW x \in -(N - 1) .. 2 * N - 1
  PROVE  /\ x % N = IF x < 0 THEN x + N ELSE IF x < N THEN x ELSE x - N
         /\ x % N \in 0 .. N - 1
OBVIOUS

(* One of any number of laps: nothing, or a lap at least is taken away. *)
LEMMA ManyLaps ==
  ASSUME NEW N \in Nat \ {0}, NEW x \in Nat
  PROVE  x % N \in 0 .. N - 1 /\ (x % N = x \/ x % N <= x - N)
<1> DEFINE k == x \div N
           r == x % N
<1>1. k \in Nat /\ r \in 0 .. N - 1 /\ x = N * k + r
  OBVIOUS
<1> HIDE DEF k, r
<1>2. k = 0 \/ N * k >= N
  BY <1>1
<1>3. N * 0 = 0 /\ N * k \in Nat
  BY <1>1
<1>4. QED BY <1>1, <1>2, <1>3 DEF r

LEMMA ClockTypes ==
  ASSUME ClockTypeOK
  PROVE  /\ Wrap \in Nat \ {0} /\ MaxGap \in Nat \ {0} /\ OfflineTimeout \in Nat
         /\ MaxAge \in Nat /\ OfflineTimeout + MaxGap < MaxAge /\ MaxAge < Wrap
         /\ millis \in 0 .. Wrap - 1 /\ late \in 0 .. MaxGap
BY ClockAssumption DEF ClockTypeOK

(* What happens now is no tick ago. *)
LEMMA SinceNow ==
  ASSUME ClockTypeOK
  PROVE  Since(millis) = 0
<1>1. Wrap \in Nat \ {0} /\ millis - millis = 0 /\ 0 \in -(Wrap - 1) .. 2 * Wrap - 1
  BY ClockTypes
<1>2. 0 % Wrap = 0
  BY <1>1, Lap
<1>3. QED BY <1>1, <1>2 DEF Since

(* A tick makes a reading of the clock one tick older, as long as it is    *)
(* less than a lap old.                                                    *)
LEMMA SinceTicks ==
  ASSUME ClockTypeOK, Passes, NEW t \in 0 .. Wrap - 1, Since(t) < Wrap - 1
  PROVE  Since(t)' = Since(t) + 1
<1>1. Wrap \in Nat \ {0} /\ millis \in 0 .. Wrap - 1
  BY ClockTypes
<1> DEFINE n == millis + 1
           x == millis - t
           y == millis' - t
<1>2. n \in -(Wrap - 1) .. 2 * Wrap - 1 /\ n \in 1 .. Wrap
  BY <1>1
<1>3. millis' = n % Wrap
  BY DEF Passes
<1>4. n % Wrap = IF n < Wrap THEN n ELSE n - Wrap
  <2> HIDE DEF n
  <2>1. n % Wrap = IF n < 0 THEN n + Wrap ELSE IF n < Wrap THEN n ELSE n - Wrap
    BY <1>1, <1>2, Lap
  <2>2. ~(n < 0)
    BY <1>1, <1>2
  <2>3. QED BY <2>1, <2>2
<1>5. millis' = (IF millis + 1 < Wrap THEN millis + 1 ELSE 0)
      /\ millis' \in 0 .. Wrap - 1
  BY <1>1, <1>3, <1>4
<1>6. /\ x \in -(Wrap - 1) .. 2 * Wrap - 1
      /\ y \in -(Wrap - 1) .. 2 * Wrap - 1
      /\ millis = x + t /\ millis' = y + t
  BY <1>1, <1>5
<1>7. /\ x % Wrap = IF x < 0 THEN x + Wrap ELSE IF x < Wrap THEN x ELSE x - Wrap
      /\ y % Wrap = IF y < 0 THEN y + Wrap ELSE IF y < Wrap THEN y ELSE y - Wrap
  <2> HIDE DEF x, y
  <2> QED BY <1>1, <1>6, Lap
<1>8. Since(t) = x % Wrap /\ Since(t)' = y % Wrap
  BY DEF Since
<1> HIDE DEF x, y, n
<1>9. QED BY <1>1, <1>5, <1>6, <1>7, <1>8

LEMMA ClockSteps ==
  ASSUME ClockTypeOK, Passes \/ Round \/ UNCHANGED clockVars
  PROVE  ClockTypeOK'
<1>1. Wrap \in Nat \ {0} /\ MaxGap \in Nat /\ millis \in 0 .. Wrap - 1
      /\ late \in 0 .. MaxGap
  BY ClockTypes
<1>2. (millis + 1) % Wrap \in 0 .. Wrap - 1
  BY <1>1, ManyLaps
<1>3. QED BY <1>1, <1>2 DEF ClockTypeOK, Passes, Round, clockVars
------------------------------------------------------------------------------
(* Zigbee.  While a device is online, what the hub has noted of it is as   *)
(* old as the last sign of life, which is no older than the timeout and    *)
(* the time since the last round.                                          *)
ZigbeeHeard(d) ==
  zigbee[d] # NoDevice /\ zigbee[d].isOnline /\ zigbee[d].lastSeen > 0 =>
    /\ heard[d] <= OfflineTimeout + late
    /\ Since(zigbee[d].lastSeen) = heard[d]

(* The window: what has passed and what is left are not more than what was *)
(* asked for, and the time past the end is no longer than the time since   *)
(* the last round.                                                         *)
Left == IF millis <= pairingEndTime THEN pairingEndTime - millis
                                    ELSE pairingEndTime + Wrap - millis

WindowInv ==
  pairingEnabled /\ pairingEndTime + MaxGap < Wrap =>
    \/ pairing.age + Left <= pairing.duration
    \/ /\ pairingEndTime < millis /\ millis <= pairingEndTime + late
       /\ pairing.age <= pairing.duration + (millis - pairingEndTime)

ZigbeeInv ==
  /\ ZigbeeTypeOK
  /\ \A d \in ZigbeeDevice : ZigbeeHeard(d)
  /\ WindowInv

LEMMA EndInRange ==
  ASSUME ClockTypeOK, NEW duration \in Nat
  PROVE  /\ End(duration) \in 0 .. Wrap - 1
         /\ millis <= End(duration) => End(duration) - millis <= duration
         /\ millis > End(duration) => End(duration) + Wrap - millis <= duration
<1>1. Wrap \in Nat \ {0} /\ millis \in 0 .. Wrap - 1
  BY ClockTypes
<1> DEFINE x == millis + duration
           e == x % Wrap
<1>2. x \in Nat
  BY <1>1
<1>3. e \in 0 .. Wrap - 1 /\ (e = x \/ e <= x - Wrap)
  <2> HIDE DEF x
  <2> QED BY <1>1, <1>2, ManyLaps
<1> HIDE DEF e
<1>4. /\ millis <= e => e - millis <= duration
      /\ millis > e => e + Wrap - millis <= duration
  BY <1>1, <1>3
<1>5. End(duration) = e
  BY DEF End, e
<1>6. QED BY <1>3, <1>4, <1>5

(* A record of the table, one field at a time. *)
LEMMA TableEntry ==
  ASSUME NEW D, NEW table \in Table(D), NEW d \in D, table[d] # NoDevice
  PROVE  /\ table[d] = Seen(table[d].isOnline, table[d].lastSeen)
         /\ table[d].isOnline \in BOOLEAN
         /\ table[d].lastSeen \in 0 .. Wrap - 1
BY DEF Table, Seen

LEMMA SeenEntry ==
  ASSUME NEW online \in BOOLEAN, NEW at \in 0 .. Wrap - 1
  PROVE  /\ Seen(online, at).isOnline = online
         /\ Seen(online, at).lastSeen = at
         /\ Seen(online, at) # NoDevice
         /\ Seen(online, at)
              \in [isOnline : BOOLEAN, lastSeen : 0 .. Wrap - 1] \cup {NoDevice}
<1>1. /\ Seen(online, at).isOnline = online
      /\ Seen(online, at).lastSeen = at
      /\ Seen(online, at) \in [isOnline : BOOLEAN, lastSeen : 0 .. Wrap - 1]
  BY DEF Seen
<1>2. Seen(online, at) # NoDevice
  <2>1. "lastSeen" \in DOMAIN Seen(online, at)
    BY DEF Seen
  <2>2. "lastSeen" \notin DOMAIN NoDevice
    BY DEF NoDevice
  <2>3. QED BY <2>1, <2>2
<1>3. QED BY <1>1, <1>2

(* What Checked makes of a device: it stays as it is, or it goes offline   *)
(* after a silence.                                                        *)
LEMMA CheckedEntry ==
  ASSUME ClockTypeOK, NEW D, NEW table \in Table(D), NEW d \in D
  PROVE  \/ /\ Checked(table[d]) = table[d]
            /\ table[d] # NoDevice /\ table[d].isOnline
               /\ table[d].lastSeen > 0 => Since(table[d].lastSeen) <= OfflineTimeout
         \/ /\ table[d] # NoDevice /\ table[d].lastSeen > 0
            /\ Since(table[d].lastSeen) > OfflineTimeout
            /\ Checked(table[d]) = Seen(FALSE, table[d].lastSeen)
<1>1. CASE table[d] # NoDevice /\ table[d].isOnline /\ table[d].lastSeen > 0
           /\ Silent(table[d].lastSeen)
  <2>1. Checked(table[d]) = [table[d] EXCEPT !.isOnline = FALSE]
    BY <1>1 DEF Checked
  <2>2. Checked(table[d]) = Seen(FALSE, table[d].lastSeen)
    BY <2>1, <1>1 DEF Table, Seen
  <2>3. QED BY <1>1, <2>2 DEF Silent
<1>2. CASE ~(table[d] # NoDevice /\ table[d].isOnline /\ table[d].lastSeen > 0
             /\ Silent(table[d].lastSeen))
  <2>1. Checked(table[d]) = table[d]
    BY <1>2 DEF Checked
  <2>2. ASSUME table[d] # NoDevice, table[d].isOnline, table[d].lastSeen > 0
        PROVE  Since(table[d].lastSeen) <= OfflineTimeout
    <3>1. ~(Since(table[d].lastSeen) > OfflineTimeout)
      BY <1>2, <2>2 DEF Silent
    <3>2. Since(table[d].lastSeen) \in Int /\ OfflineTimeout \in Nat
      <4>1. /\ Wrap \in Nat \ {0} /\ OfflineTimeout \in Nat
            /\ millis \in 0 .. Wrap - 1
        BY ClockTypes
      <4>2. table[d].lastSeen \in 0 .. Wrap - 1
        BY <2>2, TableEntry
      <4> DEFINE x == millis - table[d].lastSeen
      <4>3. x \in -(Wrap - 1) .. 2 * Wrap - 1
        BY <4>1, <4>2
      <4>4. x % Wrap \in 0 .. Wrap - 1
        <5> HIDE DEF x
        <5> QED BY <4>1, <4>3, Lap
      <4>5. QED BY <4>1, <4>4 DEF Since
    <3>3. QED BY <3>1, <3>2
  <2>3. QED BY <2>1, <2>2
<1>3. QED BY <1>1, <1>2

(* The types of the Zigbee part, one by one. *)
LEMMA ZigbeeTypes ==
  ASSUME ZigbeeTypeOK
  PROVE  /\ zigbee \in Table(ZigbeeDevice)
         /\ heard \in [ZigbeeDevice -> 0 .. MaxAge]
         /\ bridgeOnline \in BOOLEAN /\ pairingEnabled \in BOOLEAN
         /\ pairingEndTime \in 0 .. Wrap - 1
         /\ pairing \in [age : 0 .. MaxAge, duration : Durations \cup {0}]
         /\ pairing.age \in 0 .. MaxAge /\ pairing.duration \in Nat
<1>1. pairing \in [age : 0 .. MaxAge, duration : Durations \cup {0}]
  BY DEF ZigbeeTypeOK
<1>2. pairing.age \in 0 .. MaxAge /\ pairing.duration \in Durations \cup {0}
  BY <1>1
<1>3. pairing.duration \in Nat
  <2>1. CASE pairing.duration \in Durations
    BY <2>1, PairingAssumption
  <2>2. CASE pairing.duration = 0
    BY <2>2
  <2>3. QED BY <1>2, <2>1, <2>2
<1>4. QED BY <1>1, <1>2, <1>3 DEF ZigbeeTypeOK

(* A table all of whose new entries are old ones, offline or fresh. *)
LEMMA NewTable ==
  ASSUME NEW D, NEW entry,
         entry = [d \in D |-> entry[d]],
         \A d \in D : \/ entry[d] = NoDevice
                      \/ \E online \in BOOLEAN, at \in 0 .. Wrap - 1 :
                           entry[d] = Seen(online, at)
  PROVE  entry \in Table(D)
<1>1. \A d \in D : entry[d] \in [isOnline : BOOLEAN, lastSeen : 0 .. Wrap - 1]
                                  \cup {NoDevice}
  BY SeenEntry
<1>2. QED BY <1>1 DEF Table

(* A step that leaves the clock and the window alone. *)
LEMMA ZigbeeStands ==
  ASSUME ClockTypeOK, ZigbeeInv, UNCHANGED <<window, clockVars>>,
         zigbee' \in Table(ZigbeeDevice), bridgeOnline' \in BOOLEAN,
         heard' \in [ZigbeeDevice -> 0 .. MaxAge],
         \A d \in ZigbeeDevice :
           \/ zigbee'[d] = NoDevice
           \/ zigbee'[d] # NoDevice /\ ~zigbee'[d].isOnline
           \/ zigbee'[d] = Seen(TRUE, millis) /\ heard'[d] = 0
           \/ zigbee'[d] = zigbee[d] /\ heard'[d] \in {heard[d]}
  PROVE  ZigbeeInv'
<1>1. /\ UNCHANGED <<pairingEnabled, pairingEndTime, pairing, millis, late>>
  BY DEF window, clockVars
<1>2. ZigbeeTypeOK'
  BY <1>1 DEF ZigbeeInv, ZigbeeTypeOK
<1>3. WindowInv'
  BY <1>1 DEF ZigbeeInv, WindowInv, Left
<1>4. ASSUME NEW d \in ZigbeeDevice
      PROVE  ZigbeeHeard(d)'
  <2>1. CASE zigbee'[d] = NoDevice \/ (zigbee'[d] # NoDevice /\ ~zigbee'[d].isOnline)
    BY <2>1 DEF ZigbeeHeard
  <2>2. CASE zigbee'[d] = Seen(TRUE, millis) /\ heard'[d] = 0
    <3>1. millis \in 0 .. Wrap - 1 /\ OfflineTimeout \in Nat /\ late \in Nat
      BY ClockTypes
    <3>2. zigbee'[d].lastSeen = millis
      BY <2>2, <3>1, SeenEntry
    <3>3. Since(zigbee[d].lastSeen)' = Since(millis)
      BY <1>1, <3>2 DEF Since
    <3>4. Since(millis) = 0
      BY SinceNow
    <3>5. heard'[d] <= OfflineTimeout + late'
      BY <1>1, <2>2, <3>1
    <3>6. Since(zigbee[d].lastSeen)' = heard'[d]
      BY <2>2, <3>3, <3>4
    <3>7. QED BY <3>5, <3>6 DEF ZigbeeHeard
  <2>3. CASE zigbee'[d] = zigbee[d] /\ heard'[d] \in {heard[d]}
    BY <1>1, <2>3 DEF ZigbeeInv, ZigbeeHeard, Since
  <2>4. QED BY <2>1, <2>2, <2>3
<1>5. QED BY <1>2, <1>3, <1>4 DEF ZigbeeInv

LEMMA InitializeZigbeeInv ==
  ASSUME ClockTypeOK, ZigbeeInv, NEW d \in ZigbeeDevice,
         initializeZigbee(d) \/ removeZigbee(d) \/ isZigbeeOnline(d)
  PROVE  ZigbeeInv'
<1>1. /\ ZigbeeTypeOK /\ zigbee \in Table(ZigbeeDevice)
      /\ heard \in [ZigbeeDevice -> 0 .. MaxAge] /\ bridgeOnline \in BOOLEAN
  BY ZigbeeTypes DEF ZigbeeInv
<1>2. Wrap \in Nat \ {0} /\ MaxAge \in Nat
  BY ClockTypes
<1>3. CASE initializeZigbee(d)
  <2>1. /\ zigbee' = [zigbee EXCEPT ![d] = Seen(FALSE, 0)]
        /\ heard' = [heard EXCEPT ![d] = MaxAge]
        /\ UNCHANGED <<bridgeOnline, window, clockVars>>
    BY <1>3 DEF initializeZigbee
  <2>2. Seen(FALSE, 0) # NoDevice /\ ~Seen(FALSE, 0).isOnline
        /\ Seen(FALSE, 0) \in [isOnline : BOOLEAN, lastSeen : 0 .. Wrap - 1]
                                \cup {NoDevice}
    <3>1. 0 \in 0 .. Wrap - 1 /\ FALSE \in BOOLEAN
      BY <1>2
    <3>2. QED BY <3>1, SeenEntry
  <2>3. zigbee' \in Table(ZigbeeDevice)
    BY <1>1, <2>1, <2>2 DEF Table
  <2>4. heard' \in [ZigbeeDevice -> 0 .. MaxAge]
    BY <1>1, <1>2, <2>1
  <2>5. \A e \in ZigbeeDevice :
          IF e = d THEN zigbee'[e] = Seen(FALSE, 0)
                   ELSE zigbee'[e] = zigbee[e] /\ heard'[e] = heard[e]
    BY <1>1, <2>1 DEF Table
  <2>6. QED BY <1>1, <2>1, <2>2, <2>3, <2>4, <2>5, ZigbeeStands
<1>4. CASE removeZigbee(d)
  <2>1. /\ zigbee' = [zigbee EXCEPT ![d] = NoDevice]
        /\ UNCHANGED <<bridgeOnline, heard, window, clockVars>>
    BY <1>4 DEF removeZigbee
  <2>2. zigbee' \in Table(ZigbeeDevice)
    BY <1>1, <2>1 DEF Table
  <2>3. \A e \in ZigbeeDevice :
          IF e = d THEN zigbee'[e] = NoDevice
                   ELSE zigbee'[e] = zigbee[e] /\ heard'[e] = heard[e]
    BY <1>1, <2>1 DEF Table
  <2>4. QED BY <1>1, <2>1, <2>2, <2>3, ZigbeeStands
<1>5. CASE isZigbeeOnline(d)
  <2>1. /\ zigbee' = [zigbee EXCEPT ![d] = Checked(zigbee[d])]
        /\ UNCHANGED <<bridgeOnline, heard, window, clockVars>>
    BY <1>5 DEF isZigbeeOnline
  <2>2. \/ Checked(zigbee[d]) = zigbee[d]
        \/ /\ zigbee[d] # NoDevice
           /\ Checked(zigbee[d]) = Seen(FALSE, zigbee[d].lastSeen)
    BY <1>1, CheckedEntry
  <2>3. \/ Checked(zigbee[d]) = zigbee[d]
        \/ /\ Checked(zigbee[d]) # NoDevice /\ ~Checked(zigbee[d]).isOnline
           /\ Checked(zigbee[d])
                \in [isOnline : BOOLEAN, lastSeen : 0 .. Wrap - 1] \cup {NoDevice}
    <3>1. ASSUME zigbee[d] # NoDevice
          PROVE  zigbee[d].lastSeen \in 0 .. Wrap - 1
      BY <1>1, <3>1, TableEntry
    <3>2. ASSUME zigbee[d] # NoDevice
          PROVE  LET unseen == Seen(FALSE, zigbee[d].lastSeen)
                 IN  /\ unseen # NoDevice /\ ~unseen.isOnline
                     /\ unseen \in [isOnline : BOOLEAN, lastSeen : 0 .. Wrap - 1]
                                    \cup {NoDevice}
      <4>1. zigbee[d].lastSeen \in 0 .. Wrap - 1
        BY <3>1, <3>2
      <4>2. QED BY <4>1, SeenEntry
    <3>3. QED BY <2>2, <3>2
  <2>4. zigbee' \in Table(ZigbeeDevice)
    BY <1>1, <2>1, <2>3 DEF Table
  <2>5. \A e \in ZigbeeDevice :
          IF e = d THEN zigbee'[e] = Checked(zigbee[d])
                   ELSE zigbee'[e] = zigbee[e]
    BY <1>1, <2>1 DEF Table
  <2>6. QED BY <1>1, <2>1, <2>3, <2>4, <2>5, ZigbeeStands
<1>6. QED BY <1>3, <1>4, <1>5

LEMMA MessageInv ==
  ASSUME ClockTypeOK, ZigbeeInv, NEW listed \in SUBSET ZigbeeDevice,
         handleMqttMessage(listed)
  PROVE  ZigbeeInv'
<1>1. /\ ZigbeeTypeOK /\ zigbee \in Table(ZigbeeDevice)
      /\ heard \in [ZigbeeDevice -> 0 .. MaxAge] /\ bridgeOnline \in BOOLEAN
  BY ZigbeeTypes DEF ZigbeeInv
<1>2. MaxAge \in Nat /\ millis \in 0 .. Wrap - 1
  BY ClockTypes
<1>3. /\ zigbee' = [d \in ZigbeeDevice |->
           IF d \in listed \cap Known(zigbee) THEN Seen(TRUE, millis)
                                              ELSE zigbee[d]]
      /\ heard' = [d \in ZigbeeDevice |-> IF d \in listed THEN 0 ELSE heard[d]]
      /\ UNCHANGED <<bridgeOnline, window, clockVars>>
  BY DEF handleMqttMessage
<1>4. Seen(TRUE, millis) \in [isOnline : BOOLEAN, lastSeen : 0 .. Wrap - 1]
                               \cup {NoDevice}
  BY <1>2, SeenEntry
<1>5. zigbee' \in Table(ZigbeeDevice)
  BY <1>1, <1>3, <1>4 DEF Table
<1>6. heard' \in [ZigbeeDevice -> 0 .. MaxAge]
  BY <1>1, <1>2, <1>3
<1>7. \A d \in ZigbeeDevice :
        \/ zigbee'[d] = NoDevice
        \/ zigbee'[d] = Seen(TRUE, millis) /\ heard'[d] = 0
        \/ zigbee'[d] = zigbee[d] /\ heard'[d] = heard[d]
  BY <1>1, <1>3 DEF Known, Table
<1>8. QED BY <1>1, <1>3, <1>5, <1>6, <1>7, ZigbeeStands

LEMMA BridgeInv ==
  ASSUME ClockTypeOK, ZigbeeInv, NEW online \in BOOLEAN,
         handleBridgeState(online)
  PROVE  ZigbeeInv'
<1>1. /\ ZigbeeTypeOK /\ zigbee \in Table(ZigbeeDevice)
      /\ heard \in [ZigbeeDevice -> 0 .. MaxAge]
  BY ZigbeeTypes DEF ZigbeeInv
<1>2. /\ bridgeOnline' \in BOOLEAN /\ UNCHANGED <<heard, window, clockVars>>
  BY DEF handleBridgeState
<1>3. CASE bridgeOnline /\ ~online
  <2>1. zigbee' = [d \in ZigbeeDevice |-> [zigbee[d] EXCEPT !.isOnline = FALSE]]
    BY <1>3 DEF handleBridgeState
  <2>2. ASSUME NEW d \in ZigbeeDevice
        PROVE  \/ zigbee'[d] = NoDevice
               \/ /\ zigbee'[d] # NoDevice /\ ~zigbee'[d].isOnline
                  /\ zigbee'[d] \in [isOnline : BOOLEAN, lastSeen : 0 .. Wrap - 1]
                                      \cup {NoDevice}
    <3>1. CASE zigbee[d] = NoDevice
      BY <2>1, <3>1 DEF NoDevice
    <3>2. CASE zigbee[d] # NoDevice
      <4>1. zigbee[d].lastSeen \in 0 .. Wrap - 1
        BY <1>1, <3>2, TableEntry
      <4>2. zigbee'[d] = Seen(FALSE, zigbee[d].lastSeen)
        BY <1>1, <2>1, <3>2 DEF Table, Seen
      <4>3. QED BY <4>1, <4>2, SeenEntry
    <3>3. QED BY <3>1, <3>2
  <2>3. zigbee' \in Table(ZigbeeDevice)
    BY <2>1, <2>2 DEF Table
  <2>4. QED BY <1>1, <1>2, <2>2, <2>3, ZigbeeStands
<1>4. CASE ~(bridgeOnline /\ ~online)
  <2>1. zigbee' = zigbee
    BY <1>4 DEF handleBridgeState
  <2>2. QED BY <1>1, <1>2, <2>1, ZigbeeStands
<1>5. QED BY <1>3, <1>4

LEMMA PairingInv ==
  ASSUME ClockTypeOK, ZigbeeInv,
         (\E duration \in Durations : enablePairing(duration)) \/ disablePairing
  PROVE  ZigbeeInv'
<1>1. ZigbeeTypeOK /\ UNCHANGED <<zigbee, bridgeOnline, heard, millis, late>>
  BY DEF ZigbeeInv, enablePairing, disablePairing, clockVars
<1>2. \A d \in ZigbeeDevice : ZigbeeHeard(d)'
  BY <1>1 DEF ZigbeeInv, ZigbeeHeard, Since
<1>3. CASE disablePairing
  <2>1. pairingEnabled' = FALSE /\ UNCHANGED <<pairingEndTime, pairing>>
    BY <1>3 DEF disablePairing
  <2>2. ZigbeeTypeOK' /\ WindowInv'
    BY <1>1, <2>1 DEF ZigbeeTypeOK, WindowInv
  <2>3. QED BY <1>2, <2>2 DEF ZigbeeInv
<1>4. ASSUME NEW duration \in Durations, enablePairing(duration)
      PROVE  ZigbeeInv'
  <2>1. /\ pairingEnabled' = TRUE /\ pairingEndTime' = End(duration)
        /\ pairing' = [age |-> 0, duration |-> duration]
    BY <1>4 DEF enablePairing
  <2>2. duration \in Nat /\ MaxAge \in Nat /\ millis \in 0 .. Wrap - 1
        /\ Wrap \in Nat
    BY PairingAssumption, ClockTypes
  <2>3. /\ End(duration) \in 0 .. Wrap - 1
        /\ millis <= End(duration) => End(duration) - millis <= duration
        /\ millis > End(duration) => End(duration) + Wrap - millis <= duration
    BY <2>2, EndInRange
  <2>4. pairing' \in [age : 0 .. MaxAge, duration : Durations \cup {0}]
    <3>1. 0 \in 0 .. MaxAge /\ duration \in Durations \cup {0}
      BY <2>2
    <3>2. QED BY <2>1, <3>1
  <2>5. ZigbeeTypeOK'
    BY <1>1, <2>1, <2>3, <2>4 DEF ZigbeeTypeOK
  <2>6. WindowInv'
    <3>1. pairing'.age = 0 /\ pairing'.duration = duration
      BY <2>1
    <3>2. Left' <= duration
      BY <1>1, <2>1, <2>2, <2>3 DEF Left
    <3>3. Left' \in Int
      BY <1>1, <2>1, <2>2, <2>3 DEF Left
    <3>4. pairing'.age + Left' <= pairing'.duration
      <4> DEFINE left == Left'
      <4>1. left \in Int /\ left <= duration
        BY <3>2, <3>3
      <4> HIDE DEF left
      <4>2. 0 + left <= duration
        BY <4>1
      <4>3. QED BY <3>1, <4>2 DEF left
    <3>5. QED BY <3>4 DEF WindowInv
  <2>7. QED BY <1>2, <2>5, <2>6 DEF ZigbeeInv
<1>5. QED BY <1>3, <1>4

(* A round looks at every device and at the window. *)
LEMMA ZigbeeLoopInv ==
  ASSUME ClockTypeOK, ZigbeeInv, zigbeeLoop
  PROVE  ZigbeeInv'
<1>1. /\ ZigbeeTypeOK /\ zigbee \in Table(ZigbeeDevice)
      /\ pairingEndTime \in 0 .. Wrap - 1
      /\ pairing.age \in 0 .. MaxAge /\ pairing.duration \in Nat
  BY ZigbeeTypes DEF ZigbeeInv
<1>2. /\ Wrap \in Nat /\ MaxGap \in Nat /\ MaxAge \in Nat
      /\ OfflineTimeout \in Nat
      /\ millis \in 0 .. Wrap - 1 /\ late \in 0 .. MaxGap
  BY ClockTypes
<1>3. /\ late' = 0
      /\ UNCHANGED <<millis, bridgeOnline, pairingEndTime, heard, pairing>>
      /\ pairingEnabled' = (pairingEnabled /\ ~(millis > pairingEndTime))
      /\ zigbee' = [d \in ZigbeeDevice |-> Checked(zigbee[d])]
  BY DEF zigbeeLoop, Round
<1>4. ASSUME NEW d \in ZigbeeDevice
      PROVE  /\ zigbee'[d] \in [isOnline : BOOLEAN, lastSeen : 0 .. Wrap - 1]
                                 \cup {NoDevice}
             /\ ZigbeeHeard(d)'
  <2>1. zigbee'[d] = Checked(zigbee[d])
    BY <1>3
  <2>2. CASE /\ Checked(zigbee[d]) = zigbee[d]
             /\ zigbee[d] # NoDevice /\ zigbee[d].isOnline
                /\ zigbee[d].lastSeen > 0
                  => Since(zigbee[d].lastSeen) <= OfflineTimeout
    <3>1. zigbee'[d] = zigbee[d] /\ heard'[d] = heard[d]
      BY <2>1, <2>2, <1>3
    <3>2. ASSUME zigbee[d] # NoDevice, zigbee[d].isOnline,
                 zigbee[d].lastSeen > 0
          PROVE  heard[d] <= OfflineTimeout + 0 /\ Since(zigbee[d].lastSeen) = heard[d]
      BY <1>2, <2>2, <3>2 DEF ZigbeeInv, ZigbeeHeard
    <3>3. ZigbeeHeard(d)'
      BY <1>3, <3>1, <3>2 DEF ZigbeeHeard, Since
    <3>4. QED BY <1>1, <3>1, <3>3 DEF Table
  <2>3. CASE /\ zigbee[d] # NoDevice
             /\ Checked(zigbee[d]) = Seen(FALSE, zigbee[d].lastSeen)
    <3>1. zigbee[d].lastSeen \in 0 .. Wrap - 1
      BY <1>1, <2>3, TableEntry
    <3> DEFINE unseen == Seen(FALSE, zigbee[d].lastSeen)
    <3>2. /\ unseen.isOnline = FALSE
          /\ unseen \in [isOnline : BOOLEAN, lastSeen : 0 .. Wrap - 1]
                         \cup {NoDevice}
      BY <3>1, SeenEntry
    <3>3. zigbee'[d] = unseen
      BY <2>1, <2>3
    <3> HIDE DEF unseen
    <3>4. QED BY <3>2, <3>3 DEF ZigbeeHeard
  <2>4. QED BY <1>1, <2>2, <2>3, CheckedEntry
<1>5. zigbee' \in Table(ZigbeeDevice)
  BY <1>3, <1>4 DEF Table
<1>6. pairingEnabled' \in BOOLEAN
  BY <1>3
<1>7. ZigbeeTypeOK'
  BY <1>1, <1>3, <1>5, <1>6 DEF ZigbeeTypeOK
<1>8. WindowInv'
  <2>1. SUFFICES ASSUME pairingEnabled', pairingEndTime + MaxGap < Wrap
                 PROVE  pairing.age + Left <= pairing.duration
    BY <1>3 DEF WindowInv, Left
  <2>2. pairingEnabled /\ ~(pairingEndTime < millis)
    BY <1>1, <1>2, <1>3, <2>1
  <2>3. QED BY <2>1, <2>2 DEF ZigbeeInv, WindowInv
<1>9. QED BY <1>4, <1>7, <1>8 DEF ZigbeeInv

(* Time passes for all of them. *)
LEMMA ZigbeeTickInv ==
  ASSUME ClockTypeOK, ZigbeeInv, ZigbeeTick
  PROVE  ZigbeeInv'
<1>1. /\ ZigbeeTypeOK /\ zigbee \in Table(ZigbeeDevice)
      /\ heard \in [ZigbeeDevice -> 0 .. MaxAge]
      /\ pairingEndTime \in 0 .. Wrap - 1
      /\ pairing \in [age : 0 .. MaxAge, duration : Durations \cup {0}]
      /\ pairing.age \in 0 .. MaxAge /\ pairing.duration \in Nat
  BY ZigbeeTypes DEF ZigbeeInv
<1>2. /\ Wrap \in Nat \ {0} /\ MaxGap \in Nat \ {0} /\ MaxAge \in Nat
      /\ OfflineTimeout \in Nat
      /\ OfflineTimeout + MaxGap < MaxAge /\ MaxAge < Wrap
      /\ millis \in 0 .. Wrap - 1 /\ late \in 0 .. MaxGap
  BY ClockTypes
<1>3. /\ Passes /\ late < MaxGap /\ late' = late + 1
      /\ millis' = (millis + 1) % Wrap
      /\ heard' = [d \in ZigbeeDevice |-> Older(heard[d])]
      /\ pairing' = [pairing EXCEPT !.age = Older(@)]
      /\ UNCHANGED <<zigbee, bridgeOnline, pairingEnabled, pairingEndTime>>
  BY DEF ZigbeeTick, Passes
<1>4. ASSUME NEW d \in ZigbeeDevice
      PROVE  ZigbeeHeard(d)'
  <2>1. SUFFICES ASSUME zigbee[d] # NoDevice, zigbee[d].isOnline,
                        zigbee[d].lastSeen > 0
                 PROVE  /\ heard'[d] <= OfflineTimeout + late'
                        /\ Since(zigbee[d].lastSeen)' = heard'[d]
    BY <1>3 DEF ZigbeeHeard
  <2>2. /\ heard[d] <= OfflineTimeout + late /\ heard[d] \in 0 .. MaxAge
        /\ Since(zigbee[d].lastSeen) = heard[d]
    BY <1>1, <2>1 DEF ZigbeeInv, ZigbeeHeard
  <2>3. heard'[d] = heard[d] + 1
    BY <1>2, <1>3, <2>2 DEF Older
  <2>4. zigbee[d].lastSeen \in 0 .. Wrap - 1
    BY <1>1, <2>1, TableEntry
  <2> DEFINE t == zigbee[d].lastSeen
  <2>5. ((millis' - t) % Wrap) = ((millis - t) % Wrap) + 1
    <3>1. t \in 0 .. Wrap - 1 /\ Since(t) < Wrap - 1
      BY <1>2, <2>2, <2>4
    <3>2. t' = t
      BY <1>3
    <3> QED BY <1>3, <3>1, <3>2, SinceTicks DEF Since
  <2>6. QED BY <1>2, <1>3, <2>2, <2>3, <2>5 DEF Since
<1>5. Older(pairing.age) \in 0 .. MaxAge
      /\ Older(pairing.age) <= pairing.age + 1
  BY <1>1, <1>2 DEF Older
<1>6. /\ pairing' \in [age : 0 .. MaxAge, duration : Durations \cup {0}]
      /\ pairing'.age = Older(pairing.age)
      /\ pairing'.duration = pairing.duration
  BY <1>1, <1>3, <1>5
<1>7. heard' \in [ZigbeeDevice -> 0 .. MaxAge]
  <2>1. \A d \in ZigbeeDevice : Older(heard[d]) \in 0 .. MaxAge
    BY <1>1, <1>2 DEF Older
  <2>2. QED BY <1>3, <2>1
<1>8. ZigbeeTypeOK'
  BY <1>1, <1>3, <1>6, <1>7 DEF ZigbeeTypeOK
<1>9. WindowInv'
  <2>1. SUFFICES ASSUME pairingEnabled, pairingEndTime + MaxGap < Wrap
                 PROVE  \/ pairing'.age + Left' <= pairing'.duration
                        \/ /\ pairingEndTime < millis'
                           /\ millis' <= pairingEndTime + late'
                           /\ pairing'.age <= pairing'.duration
                                                + (millis' - pairingEndTime)
    BY <1>3 DEF WindowInv
  <2>2. millis' = IF millis + 1 < Wrap THEN millis + 1 ELSE 0
    <3> DEFINE n == millis + 1
    <3>1. n \in -(Wrap - 1) .. 2 * Wrap - 1 /\ ~(n < 0) /\ n <= Wrap
      BY <1>2
    <3>2. n % Wrap = IF n < 0 THEN n + Wrap ELSE IF n < Wrap THEN n ELSE n - Wrap
      <4> HIDE DEF n
      <4> QED BY <1>2, <3>1, Lap
    <3>3. QED BY <1>2, <1>3, <3>1, <3>2
  <2>3. pairing'.age \in 0 .. MaxAge /\ pairing'.age <= pairing.age + 1
    BY <1>5, <1>6
  <2>4. \/ pairing.age + Left <= pairing.duration
        \/ /\ pairingEndTime < millis /\ millis <= pairingEndTime + late
           /\ pairing.age <= pairing.duration + (millis - pairingEndTime)
    BY <2>1 DEF ZigbeeInv, WindowInv
  <2>5. pairingEndTime' = pairingEndTime
    BY <1>3
  <2>6. CASE pairing.age + Left <= pairing.duration /\ millis = pairingEndTime
    BY <1>1, <1>2, <1>3, <1>6, <2>1, <2>2, <2>3, <2>6 DEF Left
  <2>7. CASE pairing.age + Left <= pairing.duration /\ millis # pairingEndTime
    <3>1. Left' = Left - 1 /\ Left \in Int
      BY <1>1, <1>2, <2>2, <2>5, <2>7 DEF Left
    <3>2. QED BY <1>1, <1>6, <2>3, <2>7, <3>1
  <2>8. CASE /\ pairingEndTime < millis /\ millis <= pairingEndTime + late
             /\ pairing.age <= pairing.duration + (millis - pairingEndTime)
    BY <1>1, <1>2, <1>3, <1>6, <2>1, <2>2, <2>3, <2>8
  <2>9. QED BY <2>4, <2>6, <2>7, <2>8
<1>10. QED BY <1>4, <1>8, <1>9 DEF ZigbeeInv

LEMMA ZigbeeNextInv ==
  ASSUME ClockTypeOK, ZigbeeInv, ZigbeeNext
  PROVE  ZigbeeInv' /\ ClockTypeOK'
<1>1. ZigbeeInv'
  BY InitializeZigbeeInv, MessageInv, BridgeInv, PairingInv, ZigbeeLoopInv,
     ZigbeeTickInv DEF ZigbeeNext
<1>2. Passes \/ Round \/ UNCHANGED clockVars
  BY DEF ZigbeeNext, initializeZigbee, removeZigbee, isZigbeeOnline,
         handleMqttMessage, handleBridgeState, enablePairing, disablePairing,
         zigbeeLoop, ZigbeeTick
<1>3. QED BY <1>1, <1>2, ClockSteps

(* A device that falls offline has been silent, or the bridge went away,   *)
(* or the device was configured anew.                                      *)
LEMMA ZigbeeDrops ==
  ASSUME ClockTypeOK, ZigbeeInv, ZigbeeNext, NEW d \in ZigbeeDevice,
         ZigbeeDropped(d)
  PROVE  \/ heard[d] > OfflineTimeout
         \/ bridgeOnline /\ ~bridgeOnline'
         \/ zigbee[d]' \in {NoDevice, Seen(FALSE, 0)}
<1>1. /\ zigbee[d] # NoDevice /\ zigbee[d].isOnline /\ ~zigbee'[d].isOnline
      /\ zigbee'[d] # zigbee[d] /\ zigbee \in Table(ZigbeeDevice)
  BY ZigbeeTypes DEF ZigbeeDropped, ZigbeeInv
<1>2. ASSUME zigbee'[d] = Checked(zigbee[d])
      PROVE  heard[d] > OfflineTimeout
  BY <1>1, <1>2, CheckedEntry DEF ZigbeeInv, ZigbeeHeard
<1>3. CASE \E e \in ZigbeeDevice :
             initializeZigbee(e) \/ removeZigbee(e) \/ isZigbeeOnline(e)
  <2>1. PICK e \in ZigbeeDevice :
          initializeZigbee(e) \/ removeZigbee(e) \/ isZigbeeOnline(e)
    BY <1>3
  <2>2. PICK new : /\ zigbee' = [zigbee EXCEPT ![e] = new]
                   /\ new \in {NoDevice, Seen(FALSE, 0), Checked(zigbee[e])}
    BY <2>1 DEF initializeZigbee, removeZigbee, isZigbeeOnline
  <2>3. e = d /\ zigbee'[d] = new
    BY <1>1, <2>2 DEF Table
  <2>4. QED BY <1>2, <2>2, <2>3
<1>4. CASE \E listed \in SUBSET ZigbeeDevice : handleMqttMessage(listed)
  <2>1. zigbee'[d] \in {Seen(TRUE, millis), zigbee[d]}
    BY <1>4 DEF handleMqttMessage
  <2>2. Seen(TRUE, millis).isOnline
    BY DEF Seen
  <2>3. QED BY <1>1, <2>1, <2>2
<1>5. CASE \E online \in BOOLEAN : handleBridgeState(online)
  <2>1. PICK online \in BOOLEAN : handleBridgeState(online)
    BY <1>5
  <2>2. bridgeOnline /\ ~online
    BY <1>1, <2>1 DEF handleBridgeState
  <2>3. bridgeOnline' = FALSE
    BY <2>1, <2>2 DEF handleBridgeState
  <2>4. QED BY <2>2, <2>3
<1>6. CASE (\E duration \in Durations : enablePairing(duration))
           \/ disablePairing \/ ZigbeeTick
  BY <1>1, <1>6 DEF enablePairing, disablePairing, ZigbeeTick
<1>7. CASE zigbeeLoop
  <2>1. zigbee'[d] = Checked(zigbee[d])
    BY <1>7 DEF zigbeeLoop
  <2>2. QED BY <1>2, <2>1
<1>8. QED BY <1>3, <1>4, <1>5, <1>6, <1>7 DEF ZigbeeNext

LEMMA ZigbeeInitInv == ClockInit /\ ZigbeeInit => ClockTypeOK /\ ZigbeeInv
<1> SUFFICES ASSUME ClockInit, ZigbeeInit
             PROVE  ClockTypeOK /\ ZigbeeInv
  OBVIOUS
<1>1. Wrap \in Nat \ {0} /\ MaxGap \in Nat /\ MaxAge \in Nat
  BY ClockAssumption
<1>2. ClockTypeOK /\ 0 \in 0 .. Wrap - 1 /\ 0 \in 0 .. MaxAge
      /\ MaxAge \in 0 .. MaxAge
  BY <1>1 DEF ClockInit, ClockTypeOK
<1>3. ZigbeeTypeOK
  <2>1. pairing \in [age : 0 .. MaxAge, duration : Durations \cup {0}]
    BY <1>2 DEF ZigbeeInit
  <2>2. QED BY <1>2, <2>1 DEF ZigbeeInit, ZigbeeTypeOK, Table
<1>4. WindowInv /\ \A d \in ZigbeeDevice : ZigbeeHeard(d)
  BY DEF ZigbeeInit, WindowInv, ZigbeeHeard
<1>5. QED BY <1>2, <1>3, <1>4 DEF ZigbeeInv
------------------------------------------------------------------------------
(* The mesh.  A node is online exactly as long as its silence, which what  *)
(* the hub has noted measures, is not longer than the timeout and the time *)
(* since the last round.                                                   *)
MeshSaid(n) ==
  legacyDevices[n] # NoDevice =>
    /\ legacyDevices[n].isOnline =>
         /\ said[n] <= OfflineTimeout + late
         /\ Since(legacyDevices[n].lastSeen) = said[n]
    /\ ~legacyDevices[n].isOnline => said[n] > OfflineTimeout

MeshInv ==
  /\ MeshTypeOK
  /\ \A n \in Node : MeshSaid(n)

LEMMA MeshInitInv == MeshInit => MeshInv
<1> SUFFICES ASSUME MeshInit PROVE MeshInv
  OBVIOUS
<1>1. MaxAge \in 0 .. MaxAge
  BY ClockAssumption
<1>2. MeshTypeOK
  BY <1>1 DEF MeshInit, MeshTypeOK, Table
<1>3. \A n \in Node : MeshSaid(n)
  BY DEF MeshInit, MeshSaid
<1>4. QED BY <1>2, <1>3 DEF MeshInv

(* A node that has just been heard of. *)
LEMMA MeshHears ==
  ASSUME ClockTypeOK, MeshInv, NEW n \in Node,
         UNCHANGED <<mainProgram, clockVars>>,
         legacyDevices' = [legacyDevices EXCEPT ![n] = Seen(TRUE, millis)],
         said' = [said EXCEPT ![n] = 0]
  PROVE  MeshInv'
<1>1. /\ legacyDevices \in Table(Node) /\ said \in [Node -> 0 .. MaxAge]
      /\ mainProgram \in BOOLEAN
  BY DEF MeshInv, MeshTypeOK
<1>2. /\ millis \in 0 .. Wrap - 1 /\ MaxAge \in Nat /\ OfflineTimeout \in Nat
      /\ late \in Nat /\ Since(millis) = 0
  BY ClockTypes, SinceNow
<1> DEFINE new == Seen(TRUE, millis)
<1>3. /\ new.isOnline = TRUE /\ new.lastSeen = millis
      /\ new \in [isOnline : BOOLEAN, lastSeen : 0 .. Wrap - 1] \cup {NoDevice}
  BY <1>2, SeenEntry
<1>4. legacyDevices' = [legacyDevices EXCEPT ![n] = new]
  OBVIOUS
<1> HIDE DEF new
<1>5. MeshTypeOK'
  <2>1. legacyDevices' \in Table(Node)
    BY <1>1, <1>3, <1>4 DEF Table
  <2>2. said' \in [Node -> 0 .. MaxAge]
    BY <1>1, <1>2
  <2>3. QED BY <1>1, <2>1, <2>2 DEF MeshTypeOK
<1>6. ASSUME NEW m \in Node
      PROVE  MeshSaid(m)'
  <2>1. UNCHANGED <<millis, late>>
    BY DEF clockVars
  <2>2. CASE m = n
    <3>1. legacyDevices'[m] = new /\ said'[m] = 0
      BY <1>1, <1>4, <2>2 DEF Table
    <3>2. 0 <= OfflineTimeout + late'
      BY <1>2, <2>1
    <3>3. legacyDevices'[m].lastSeen = millis
      BY <1>3, <3>1
    <3>4. Since(legacyDevices[m].lastSeen)' = Since(millis)
      BY <2>1, <3>3 DEF Since
    <3>5. Since(legacyDevices[m].lastSeen)' = 0
      BY <1>2, <3>4
    <3>6. QED BY <1>3, <3>1, <3>2, <3>5 DEF MeshSaid
  <2>3. CASE m # n
    <3>1. legacyDevices'[m] = legacyDevices[m] /\ said'[m] = said[m]
      BY <1>1, <1>4, <2>3 DEF Table
    <3>2. QED BY <2>1, <3>1 DEF MeshInv, MeshSaid, Since
  <2>4. QED BY <2>2, <2>3
<1>7. QED BY <1>5, <1>6 DEF MeshInv

LEMMA NodeInv ==
  ASSUME ClockTypeOK, MeshInv, NEW n \in Node,
         addDevice(n) \/ Heartbeat(n) \/ SensorData(n)
  PROVE  MeshInv'
<1>1. /\ legacyDevices \in Table(Node) /\ said \in [Node -> 0 .. MaxAge]
      /\ mainProgram \in BOOLEAN /\ UNCHANGED <<mainProgram, clockVars>>
  BY DEF MeshInv, MeshTypeOK, addDevice, Heartbeat, SensorData
<1>2. CASE /\ legacyDevices' = [legacyDevices EXCEPT ![n] = Seen(TRUE, millis)]
           /\ said' = [said EXCEPT ![n] = 0]
  BY <1>1, <1>2, MeshHears
<1>3. CASE UNCHANGED <<legacyDevices, said>>
  BY <1>1, <1>3 DEF MeshInv, MeshTypeOK, MeshSaid, Since, clockVars
<1>4. CASE /\ legacyDevices[n] = NoDevice /\ legacyDevices' = legacyDevices
           /\ said' = [said EXCEPT ![n] = 0]
  <2>1. said' \in [Node -> 0 .. MaxAge]
    BY <1>1, <1>4, ClockTypes
  <2>2. \A m \in Node : MeshSaid(m)'
    BY <1>1, <1>4 DEF MeshInv, MeshSaid, Since, clockVars
  <2>3. QED BY <1>1, <1>4, <2>1, <2>2 DEF MeshInv, MeshTypeOK
<1>5. legacyDevices = [legacyDevices EXCEPT ![n] = legacyDevices[n]]
      /\ said = [said EXCEPT ![n] = said[n]]
      /\ (n \in Known(legacyDevices) <=> legacyDevices[n] # NoDevice)
  BY <1>1 DEF Table, Known
<1>6. CASE addDevice(n)
  BY <1>2, <1>3, <1>5, <1>6 DEF addDevice
<1>7. CASE Heartbeat(n) \/ SensorData(n)
  BY <1>2, <1>3, <1>4, <1>5, <1>7
     DEF Heartbeat, SensorData, updateDeviceLastSeen
<1>8. QED BY <1>6, <1>7

(* The round that looks at every node. *)
LEMMA MeshRoundInv ==
  ASSUME ClockTypeOK, MeshInv, checkOfflineDevices
  PROVE  MeshInv'
<1>1. /\ legacyDevices \in Table(Node) /\ said \in [Node -> 0 .. MaxAge]
      /\ mainProgram \in BOOLEAN
  BY DEF MeshInv, MeshTypeOK
<1>2. OfflineTimeout \in Nat /\ MaxAge \in Nat /\ late \in Nat
  BY ClockTypes
<1>3. /\ late' = 0 /\ UNCHANGED <<millis, mainProgram, said>>
      /\ legacyDevices' = [n \in Node |->
           IF n \in Known(legacyDevices) /\ Silent(legacyDevices[n].lastSeen)
           THEN [legacyDevices[n] EXCEPT !.isOnline = FALSE]
           ELSE legacyDevices[n]]
  BY DEF checkOfflineDevices, Round
<1>4. ASSUME NEW n \in Node
      PROVE  /\ legacyDevices'[n]
                  \in [isOnline : BOOLEAN, lastSeen : 0 .. Wrap - 1] \cup {NoDevice}
             /\ MeshSaid(n)'
  <2>1. legacyDevices[n]
          \in [isOnline : BOOLEAN, lastSeen : 0 .. Wrap - 1] \cup {NoDevice}
    BY <1>1 DEF Table
  <2>2. CASE legacyDevices[n] = NoDevice
    BY <1>3, <2>1, <2>2 DEF Known, MeshSaid
  <2>3. CASE legacyDevices[n] # NoDevice /\ Silent(legacyDevices[n].lastSeen)
    <3> DEFINE unseen == Seen(FALSE, legacyDevices[n].lastSeen)
    <3>1. legacyDevices'[n] = unseen
      BY <1>1, <1>3, <2>3 DEF Known, Table, Seen
    <3>2. /\ unseen.isOnline = FALSE
          /\ unseen \in [isOnline : BOOLEAN, lastSeen : 0 .. Wrap - 1]
                          \cup {NoDevice}
      <4>1. legacyDevices[n].lastSeen \in 0 .. Wrap - 1
        BY <1>1, <2>3, TableEntry
      <4>2. QED BY <4>1, SeenEntry
    <3>3. said[n] > OfflineTimeout
      BY <2>3 DEF MeshInv, MeshSaid, Silent
    <3> HIDE DEF unseen
    <3>4. QED BY <1>3, <3>1, <3>2, <3>3 DEF MeshSaid
  <2>4. CASE legacyDevices[n] # NoDevice /\ ~Silent(legacyDevices[n].lastSeen)
    <3>1. legacyDevices'[n] = legacyDevices[n] /\ said'[n] = said[n]
      BY <1>3, <2>4
    <3>2. legacyDevices[n].isOnline =>
            said[n] <= OfflineTimeout + 0
      BY <1>1, <1>2, <2>4 DEF MeshInv, MeshSaid, Silent
    <3>3. MeshSaid(n)'
      BY <1>3, <3>1, <3>2 DEF MeshInv, MeshSaid, Since
    <3>4. QED BY <2>1, <3>1, <3>3
  <2>5. QED BY <2>2, <2>3, <2>4
<1>5. legacyDevices' \in Table(Node)
  BY <1>3, <1>4 DEF Table
<1>6. QED BY <1>1, <1>3, <1>4, <1>5 DEF MeshInv, MeshTypeOK

LEMMA MeshTickInv ==
  ASSUME ClockTypeOK, MeshInv, MeshTick
  PROVE  MeshInv'
<1>1. /\ legacyDevices \in Table(Node) /\ said \in [Node -> 0 .. MaxAge]
      /\ mainProgram \in BOOLEAN
  BY DEF MeshInv, MeshTypeOK
<1>2. /\ Wrap \in Nat \ {0} /\ MaxGap \in Nat \ {0} /\ MaxAge \in Nat
      /\ OfflineTimeout \in Nat
      /\ OfflineTimeout + MaxGap < MaxAge /\ MaxAge < Wrap
      /\ late \in 0 .. MaxGap
  BY ClockTypes
<1>3. /\ Passes /\ late' = late + 1
      /\ said' = [n \in Node |-> Older(said[n])]
      /\ UNCHANGED <<legacyDevices, mainProgram>>
  BY DEF MeshTick, Passes
<1>4. said' \in [Node -> 0 .. MaxAge]
  <2>1. \A n \in Node : Older(said[n]) \in 0 .. MaxAge
    BY <1>1, <1>2 DEF Older
  <2>2. QED BY <1>3, <2>1
<1>5. ASSUME NEW n \in Node, legacyDevices[n] # NoDevice
      PROVE  /\ legacyDevices[n].isOnline =>
                  /\ said'[n] <= OfflineTimeout + late'
                  /\ Since(legacyDevices[n].lastSeen)' = said'[n]
             /\ ~legacyDevices[n].isOnline => said'[n] > OfflineTimeout
  <2>1. MeshSaid(n) /\ said[n] \in 0 .. MaxAge /\ said'[n] = Older(said[n])
    BY <1>1, <1>3 DEF MeshInv
  <2>2. CASE legacyDevices[n].isOnline
    <3>1. /\ said[n] <= OfflineTimeout + late
          /\ Since(legacyDevices[n].lastSeen) = said[n]
      BY <1>5, <2>1, <2>2 DEF MeshSaid
    <3>2. said'[n] = said[n] + 1
      BY <1>2, <2>1, <3>1, <1>3 DEF Older, Passes
    <3>3. legacyDevices[n].lastSeen \in 0 .. Wrap - 1
      BY <1>1, <1>5, TableEntry
    <3> DEFINE t == legacyDevices[n].lastSeen
    <3>4. ((millis' - t) % Wrap) = ((millis - t) % Wrap) + 1
      <4>1. t \in 0 .. Wrap - 1 /\ Since(t) < Wrap - 1
        BY <1>2, <2>1, <3>1, <3>3, <1>3 DEF Passes
      <4>2. t' = t
        BY <1>3
      <4>3. QED BY <1>3, <4>1, <4>2, SinceTicks DEF Since
    <3>5. Since(legacyDevices[n].lastSeen)' = said'[n]
      BY <1>3, <3>1, <3>2, <3>4 DEF Since
    <3>6. QED BY <1>2, <1>3, <2>1, <2>2, <3>1, <3>2, <3>5
  <2>3. CASE ~legacyDevices[n].isOnline
    BY <1>2, <1>5, <2>1, <2>3 DEF MeshSaid, Older
  <2>4. QED BY <2>2, <2>3
<1>6. \A n \in Node : MeshSaid(n)'
  BY <1>3, <1>5 DEF MeshSaid
<1>7. QED BY <1>1, <1>3, <1>4, <1>6 DEF MeshInv, MeshTypeOK

LEMMA MeshNextInv ==
  ASSUME ClockTypeOK, MeshInv, MeshNext
  PROVE  MeshInv' /\ ClockTypeOK'
<1>1. CASE SetMainProgram
  <2>1. /\ mainProgram' \in BOOLEAN
        /\ UNCHANGED <<legacyDevices, said, millis, late>>
    BY <1>1 DEF SetMainProgram, clockVars
  <2>2. QED
    BY <2>1 DEF MeshInv, MeshTypeOK, MeshSaid, Since, ClockTypeOK
<1>2. MeshInv'
  BY <1>1, NodeInv, MeshRoundInv, MeshTickInv DEF MeshNext
<1>3. Passes \/ Round \/ UNCHANGED clockVars
  BY DEF MeshNext, addDevice, Heartbeat, SensorData, SetMainProgram,
         checkOfflineDevices, MeshTick
<1>4. QED BY <1>2, <1>3, ClockSteps
------------------------------------------------------------------------------
(* WiFi: the types. *)
LEMMA WiFiInitInv == WiFiInit => WiFiTypeOK
<1> SUFFICES ASSUME WiFiInit PROVE WiFiTypeOK
  OBVIOUS
<1>1. MaxAge \in 0 .. MaxAge
  BY ClockAssumption
<1>2. QED BY <1>1 DEF WiFiInit, WiFiTypeOK

WiFiEntry == [connectionType : ConnectionType, isOnline : BOOLEAN,
              lastSeen : 0 .. Wrap - 1] \cup {NoDevice}

LEMMA WiFiNextInv ==
  ASSUME ClockTypeOK, WiFiTypeOK, WiFiNext
  PROVE  WiFiTypeOK' /\ ClockTypeOK'
<1>1. /\ wifi \in [WiFiDevice -> WiFiEntry]
      /\ answered \in [WiFiDevice -> 0 .. MaxAge]
  BY DEF WiFiTypeOK, WiFiEntry
<1>2. /\ MaxAge \in Nat /\ 0 \in 0 .. MaxAge /\ Wrap \in Nat \ {0}
      /\ 0 \in 0 .. Wrap - 1 /\ millis \in 0 .. Wrap - 1
  BY ClockTypes
<1>3. ASSUME NEW d \in WiFiDevice, NEW how \in ConnectionType,
             NEW host \in BOOLEAN, initializeWiFi(d, how, host)
      PROVE  WiFiTypeOK'
  <2>1. Reached(how, FALSE, 0) \in WiFiEntry
    BY <1>2 DEF Reached, WiFiEntry
  <2>2. wifi' \in [WiFiDevice -> WiFiEntry] /\ answered' = answered
    BY <1>1, <1>3, <2>1 DEF initializeWiFi
  <2>3. QED BY <1>1, <2>2 DEF WiFiTypeOK, WiFiEntry
<1>4. ASSUME NEW d \in WiFiDevice, removeWiFi(d)
      PROVE  WiFiTypeOK'
  <2>1. wifi' \in [WiFiDevice -> WiFiEntry] /\ answered' = answered
    BY <1>1, <1>4 DEF removeWiFi, WiFiEntry
  <2>2. QED BY <1>1, <2>1 DEF WiFiTypeOK, WiFiEntry
<1>5. ASSUME NEW d \in WiFiDevice, wifi[d] # NoDevice, Up(d) \/ Down(d)
      PROVE  WiFiTypeOK'
  <2>1. wifi[d] \in [connectionType : ConnectionType, isOnline : BOOLEAN,
                     lastSeen : 0 .. Wrap - 1]
    BY <1>1, <1>5 DEF WiFiEntry
  <2>2. CASE Up(d)
    <3>1. /\ wifi' = [wifi EXCEPT ![d] =
                 [wifi[d] EXCEPT !.isOnline = TRUE, !.lastSeen = millis]]
          /\ answered' = [answered EXCEPT ![d] = 0]
      BY <1>1, <2>1, <2>2 DEF Up
    <3>2. [wifi[d] EXCEPT !.isOnline = TRUE, !.lastSeen = millis] \in WiFiEntry
      BY <1>2, <2>1 DEF WiFiEntry
    <3>3. wifi' \in [WiFiDevice -> WiFiEntry]
      BY <1>1, <3>1, <3>2
    <3>4. answered' \in [WiFiDevice -> 0 .. MaxAge]
      BY <1>1, <1>2, <3>1
    <3>5. QED BY <3>3, <3>4 DEF WiFiTypeOK, WiFiEntry
  <2>3. CASE Down(d)
    <3>1. /\ wifi' = [wifi EXCEPT ![d] = [wifi[d] EXCEPT !.isOnline = FALSE]]
          /\ answered' = answered
      BY <2>3 DEF Down
    <3>2. [wifi[d] EXCEPT !.isOnline = FALSE] \in WiFiEntry
      BY <2>1 DEF WiFiEntry
    <3>3. wifi' \in [WiFiDevice -> WiFiEntry]
      BY <1>1, <3>1, <3>2
    <3>4. QED BY <1>1, <3>1, <3>3 DEF WiFiTypeOK, WiFiEntry
  <2>4. QED BY <1>5, <2>2, <2>3
<1>6. ASSUME UNCHANGED <<wifi, answered>>
      PROVE  WiFiTypeOK'
  BY <1>6 DEF WiFiTypeOK
<1>7. ASSUME NEW d \in WiFiDevice, NEW answer \in Answer,
             readHTTP(d, answer) \/ writeWiFi(d, answer)
      PROVE  WiFiTypeOK'
  <2>1. wifi[d] # NoDevice
    BY <1>7 DEF readHTTP, writeWiFi, Known
  <2>2. Up(d) \/ Down(d) \/ UNCHANGED <<wifi, answered>>
    BY <1>7 DEF readHTTP, writeWiFi, Answer
  <2>3. QED BY <1>5, <1>6, <2>1, <2>2
<1>8. ASSUME NEW d \in WiFiDevice, NEW topic \in BOOLEAN, readMQTT(d, topic)
      PROVE  WiFiTypeOK'
  BY <1>5, <1>6, <1>8 DEF readMQTT, Known
<1>9. ASSUME NEW d \in WiFiDevice, isWiFiOnline(d)
      PROVE  WiFiTypeOK'
  <2>1. wifi[d] \in [connectionType : ConnectionType, isOnline : BOOLEAN,
                     lastSeen : 0 .. Wrap - 1]
    BY <1>1, <1>9 DEF isWiFiOnline, Known, WiFiEntry
  <2>2. Checked(wifi[d]) \in {wifi[d], [wifi[d] EXCEPT !.isOnline = FALSE]}
    BY DEF Checked
  <2>3. Checked(wifi[d]) \in WiFiEntry
    BY <2>1, <2>2 DEF WiFiEntry
  <2>4. wifi' \in [WiFiDevice -> WiFiEntry] /\ answered' = answered
    BY <1>1, <1>9, <2>3 DEF isWiFiOnline
  <2>5. QED BY <1>1, <2>4 DEF WiFiTypeOK, WiFiEntry
<1>10. ASSUME WiFiTick
       PROVE  WiFiTypeOK'
  <2>1. \A d \in WiFiDevice : Older(answered[d]) \in 0 .. MaxAge
    BY <1>1, <1>2 DEF Older
  <2>2. answered' \in [WiFiDevice -> 0 .. MaxAge] /\ wifi' = wifi
    BY <1>10, <2>1 DEF WiFiTick
  <2>3. QED BY <2>2 DEF WiFiTypeOK
<1>11. ASSUME wifiLoop
       PROVE  WiFiTypeOK'
  BY <1>6, <1>11 DEF wifiLoop, wifiVars
<1>12. WiFiTypeOK'
  BY <1>3, <1>4, <1>7, <1>8, <1>9, <1>10, <1>11 DEF WiFiNext
<1>13. Passes \/ Round \/ UNCHANGED clockVars
  BY DEF WiFiNext, initializeWiFi, removeWiFi, readHTTP, readMQTT, writeWiFi,
         isWiFiOnline, wifiLoop, WiFiTick
<1>14. QED BY <1>12, <1>13, ClockSteps
------------------------------------------------------------------------------
(* Radio. *)

(* A code a switch has to itself is for it.  A switch toggles when it has  *)
(* one code only.                                                          *)
Wired(d) ==
  radio[d] # NoRadio =>
    /\ \A c \in Uses(radio[d]) \ contested : codeToDevice[c] = {d}
    /\ radio[d].code = NoCode => radio[d].offCode = NoCode
    /\ radio[d].code # NoCode =>
         radio[d].isToggle = (radio[d].offCode \in {NoCode, radio[d].code})

(* As long as anyone knows where the switch stands, it is where the code   *)
(* in RCSwitch put it, or else where the hub believes it; and the hub      *)
(* believes what the code it is handling says.                             *)
Followed(d) ==
  OwnCodes(d) =>
    /\ lamp[d] # "unknown" =>
         /\ radio[d] # NoRadio /\ radio[d].code # NoCode /\ ~radio[d].isToggle
         /\ received = radio[d].code => lamp[d] = "on"
         /\ received = radio[d].offCode => lamp[d] = "off"
         /\ ~Unseen(d) => radio[d].currentState = (lamp[d] = "on")
    /\ radio[d] # NoRadio /\ ~radio[d].isToggle /\ handled \in Uses(radio[d]) =>
         radio[d].currentState = (handled = radio[d].code)

RadioInv ==
  /\ RadioTypeOK
  /\ \A c \in Code : Shared(c) => c \in contested
  /\ \A d \in RadioDevice : Wired(d) /\ Followed(d)

LEMMA UsesCodes ==
  ASSUME NEW switch \in Radio \cup {NoRadio}
  PROVE  Uses(switch) \subseteq Code
BY DEF Uses, Radio

(* What is contested stays so as long as it is used. *)
LEMMA ContestSteps ==
  ASSUME Contest
  PROVE  /\ contested' \subseteq Code
         /\ \A c \in Code : Shared(c)' => c \in contested'
         /\ \A d \in RadioDevice : \A c \in Code :
              c \in contested /\ c \in Uses(radio'[d]) => c \in contested'
BY DEF Contest, Used

(* The code of a switch that keeps its codes is its own only if it was,    *)
(* and then nobody else has it.                                            *)
LEMMA OwnStays ==
  ASSUME RadioInv, Contest, NEW d \in RadioDevice,
         Uses(radio'[d]) = Uses(radio[d])
  PROVE  /\ OwnCodes(d)' => OwnCodes(d)
         /\ \A c \in Uses(radio[d]) \ contested' :
              /\ c \in Code /\ c \notin contested
              /\ \A e \in RadioDevice \ {d} :
                   c \notin Uses(radio[e]) /\ c \notin Uses(radio'[e])
<1>1. Uses(radio[d]) \subseteq Code
  BY UsesCodes DEF RadioInv, RadioTypeOK
<1>2. \A c \in Uses(radio[d]) \ contested' : c \in Code /\ c \notin contested
  BY <1>1, ContestSteps
<1>3. ASSUME NEW c \in Uses(radio[d]) \ contested', NEW e \in RadioDevice \ {d}
      PROVE  c \notin Uses(radio[e]) /\ c \notin Uses(radio'[e])
  <2>1. c \in Code /\ ~Shared(c) /\ ~Shared(c)'
    BY <1>2, ContestSteps DEF RadioInv
  <2>2. QED BY <2>1 DEF Shared
<1>4. OwnCodes(d)' => OwnCodes(d)
  BY <1>2 DEF OwnCodes
<1>5. QED BY <1>2, <1>3, <1>4

(* A call that does not concern e, which at most hears nothing new. *)
LEMMA OthersFollow ==
  ASSUME RadioInv, Contest, NEW e \in RadioDevice, radio'[e] = radio[e],
         handled' = NoCode,
         \A c \in Uses(radio[e]) \ contested' :
           codeToDevice'[c] = codeToDevice[c],
         OwnCodes(e)' /\ lamp'[e] # "unknown" =>
           /\ lamp'[e] = lamp[e]
           /\ received' = received \/ (received' = NoCode /\ ~Unseen(e)),
         handled = NoCode
  PROVE  Wired(e)' /\ Followed(e)'
<1>1. /\ OwnCodes(e)' => OwnCodes(e)
      /\ \A c \in Uses(radio[e]) \ contested' : c \notin contested
  BY OwnStays
<1>2. Wired(e)'
  BY <1>1 DEF RadioInv, Wired
<1>3. Followed(e)'
  <2>1. NoCode \notin Uses(radio'[e])
    BY DEF Uses
  <2> SUFFICES ASSUME OwnCodes(e)', lamp'[e] # "unknown"
               PROVE  /\ radio[e] # NoRadio /\ radio[e].code # NoCode
                      /\ ~radio[e].isToggle
                      /\ received' = radio[e].code => lamp'[e] = "on"
                      /\ received' = radio[e].offCode => lamp'[e] = "off"
                      /\ ~Unseen(e)' =>
                           radio[e].currentState = (lamp'[e] = "on")
    BY <2>1 DEF Followed
  <2>2. /\ lamp'[e] = lamp[e] /\ lamp[e] # "unknown"
        /\ received' = received \/ (received' = NoCode /\ ~Unseen(e))
    OBVIOUS
  <2>3. /\ radio[e] # NoRadio /\ radio[e].code # NoCode
        /\ ~radio[e].isToggle
        /\ received = radio[e].code => lamp[e] = "on"
        /\ received = radio[e].offCode => lamp[e] = "off"
        /\ ~Unseen(e) => radio[e].currentState = (lamp[e] = "on")
    BY <1>1, <2>2 DEF RadioInv, Followed
  <2>4. radio[e].offCode # NoCode
    BY <2>3 DEF RadioInv, Wired
  <2>5. CASE received' = received
    BY <2>2, <2>3, <2>5 DEF Unseen
  <2>6. CASE received' = NoCode /\ ~Unseen(e)
    BY <2>2, <2>3, <2>4, <2>6
  <2>7. QED BY <2>2, <2>5, <2>6
<1>4. QED BY <1>2, <1>3

LEMMA RecodedWired ==
  ASSUME RadioInv, NEW d \in RadioDevice, NEW on \in CodesOf[d],
         NEW off \in CodesOf[d] \cup {NoCode}, d \in Switches
  PROVE  LET switch == Recoded(d, on, off)
         IN  /\ switch \in Radio
             /\ switch.code = on /\ switch.offCode = off
             /\ switch.isToggle = (off \in {NoCode, on})
<1>1. on \in Code /\ on # NoCode /\ off \in Code \cup {NoCode}
  BY RadioAssumption
<1>2. radio[d] \in Radio
  BY DEF RadioInv, RadioTypeOK, Switches
<1>3. Wired(d) /\ radio[d] # NoRadio
  BY DEF RadioInv, Switches
<1>4. CASE radio[d].code # on \/ radio[d].offCode # off
  <2> DEFINE toggles == off \in {NoCode, on}
  <2>1. toggles \in BOOLEAN
    OBVIOUS
  <2> HIDE DEF toggles
  <2>2. Recoded(d, on, off)
          = [radio[d] EXCEPT !.code = on, !.offCode = off,
                             !.isToggle = toggles]
    BY <1>4, Zenon DEF Recoded, toggles
  <2> DEFINE new == [radio[d] EXCEPT !.code = on, !.offCode = off,
                                     !.isToggle = toggles]
  <2>3. /\ new \in Radio
        /\ new.code = on /\ new.offCode = off /\ new.isToggle = toggles
    BY <1>1, <1>2, <2>1 DEF Radio
  <2>4. Recoded(d, on, off) = new
    BY <2>2
  <2> HIDE DEF new
  <2>5. QED
    BY <2>3, <2>4 DEF toggles
<1>5. CASE radio[d].code = on /\ radio[d].offCode = off
  BY <1>1, <1>2, <1>3, <1>5 DEF Recoded, Wired
<1>6. QED BY <1>4, <1>5

(* New codes come to d and old ones leave it; others are not concerned.    *)
LEMMA TakenWired ==
  ASSUME RadioInv, NEW d \in RadioDevice, NEW on \in CodesOf[d],
         NEW off \in CodesOf[d] \cup {NoCode}, d \in Switches,
         TakeCodes(d, on, off)
  PROVE  /\ codeToDevice' \in [Code -> {{e} : e \in RadioDevice} \cup {{}}]
         /\ \A c \in {on, off} \ {NoCode} :
              c \notin contested => codeToDevice'[c] = {d}
         /\ \A c \in Code : c \notin {on, off} /\ c \notin Uses(radio[d]) =>
              codeToDevice'[c] = codeToDevice[c]
<1>1. on \in Code /\ on # NoCode /\ off \in Code \cup {NoCode}
  BY RadioAssumption
<1>2. /\ codeToDevice \in [Code -> {{e} : e \in RadioDevice} \cup {{}}]
      /\ radio[d] \in Radio /\ radio[d] # NoRadio
      /\ Wired(d)
  BY DEF RadioInv, RadioTypeOK, Switches
<1>3. CASE Recoded(d, on, off) # radio[d]
  <2>1. codeToDevice' = Remapped(d, on, off)
    BY <1>3 DEF TakeCodes
  <2>2. \A c \in Code : c \notin {on, off} /\ c \notin Uses(radio[d]) =>
          codeToDevice'[c] = codeToDevice[c]
    BY <2>1 DEF Remapped
  <2>3. codeToDevice' \in [Code -> {{e} : e \in RadioDevice} \cup {{}}]
    BY <2>1, <1>2 DEF Remapped
  <2>4. \A c \in {on, off} \ {NoCode} : codeToDevice'[c] = {d}
    BY <2>1, <1>1 DEF Remapped
  <2>5. QED BY <2>2, <2>3, <2>4
<1>4. CASE Recoded(d, on, off) = radio[d]
  <2>1. codeToDevice' = codeToDevice
    BY <1>4 DEF TakeCodes
  <2>2. radio[d].code = on /\ radio[d].offCode = off
    BY <1>4, RecodedWired
  <2>3. {on, off} \ {NoCode} = Uses(radio[d])
    BY <2>2, <1>2 DEF Uses
  <2>4. QED
    BY <2>1, <2>3, <1>2 DEF Wired
<1>5. QED BY <1>3, <1>4

(* What a switch makes of a code it does not use: nothing. *)
LEMMA Deaf ==
  ASSUME NEW switch, NEW was, NEW code, code # NoCode, code \notin Uses(switch)
  PROVE  Hears(switch, was, code) \in {was, "unknown"}
BY DEF Hears, Uses

LEMMA RadioInitInv == RadioInit => RadioInv
<1> SUFFICES ASSUME RadioInit PROVE RadioInv
  OBVIOUS
<1>1. RadioTypeOK
  BY DEF RadioInit, RadioTypeOK
<1>2. \A d \in RadioDevice : radio[d] = NoRadio /\ lamp[d] = "unknown"
  BY DEF RadioInit
<1>3. \A c \in Code : ~Shared(c)
  BY <1>2 DEF Shared, Uses
<1>4. \A d \in RadioDevice : Wired(d) /\ Followed(d)
  BY <1>2 DEF Wired, Followed
<1>5. QED BY <1>1, <1>3, <1>4 DEF RadioInv

LEMMA InitializeRadioInv ==
  ASSUME RadioInv, NEW d \in RadioDevice, initializeRadio(d), Contest,
         handled = NoCode, handled' = NoCode
  PROVE  RadioInv'
<1>1. NewRadio \in Radio /\ NewRadio.code = NoCode /\ NewRadio.offCode = NoCode
  BY DEF NewRadio, Radio
<1>2. RadioTypeOK'
  BY <1>1, ContestSteps
     DEF RadioInv, RadioTypeOK, initializeRadio, learning
<1>3. ASSUME NEW e \in RadioDevice
      PROVE  Wired(e)' /\ Followed(e)'
  <2>1. CASE e = d
    <3>1. radio'[e] = NewRadio /\ lamp'[e] = "unknown"
      BY <2>1 DEF RadioInv, RadioTypeOK, initializeRadio
    <3>2. Uses(radio'[e]) = {}
      BY <1>1, <3>1 DEF Uses
    <3>3. QED
      BY <1>1, <3>1, <3>2 DEF Wired, Followed
  <2>2. CASE e # d
    <3>1. /\ radio'[e] = radio[e] /\ lamp'[e] = lamp[e]
          /\ received' = received /\ codeToDevice' = codeToDevice
      BY <2>2 DEF RadioInv, RadioTypeOK, initializeRadio
    <3>2. QED BY <3>1, OthersFollow
  <2>3. QED BY <2>1, <2>2
<1>4. QED BY <1>2, <1>3, ContestSteps DEF RadioInv

LEMMA RemoveRadioInv ==
  ASSUME RadioInv, NEW d \in RadioDevice, removeRadio(d), Contest,
         handled = NoCode, handled' = NoCode
  PROVE  RadioInv'
<1>1. RadioTypeOK'
  BY ContestSteps DEF RadioInv, RadioTypeOK, removeRadio, learning
<1>2. ASSUME NEW e \in RadioDevice
      PROVE  Wired(e)' /\ Followed(e)'
  <2>1. CASE e = d
    BY <2>1 DEF RadioInv, RadioTypeOK, removeRadio, Wired, Followed
  <2>2. CASE e # d
    <3>1. radio'[e] = radio[e] /\ lamp'[e] = lamp[e] /\ received' = received
      BY <2>2 DEF RadioInv, RadioTypeOK, removeRadio
    <3>2. \A c \in Uses(radio[e]) \ contested' : 
            codeToDevice'[c] = codeToDevice[c]
      <4>1. \A c \in Uses(radio[e]) \ contested' :
              c \in Code /\ c \notin Uses(radio[d])
        BY <2>2, <3>1, OwnStays
      <4>2. QED BY <4>1 DEF removeRadio
    <3>3. QED BY <3>1, <3>2, OthersFollow
  <2>3. QED BY <2>1, <2>2
<1>3. QED BY <1>1, <1>2, ContestSteps DEF RadioInv

(* A write puts the switch and what the hub believes of it in one state. *)
LEMMA WriteInv ==
  ASSUME RadioInv, NEW d \in RadioDevice, NEW on \in CodesOf[d],
         NEW off \in CodesOf[d] \cup {NoCode}, NEW target \in BOOLEAN,
         writeRadio(d, on, off, target), Contest,
         handled = NoCode, handled' = NoCode
  PROVE  RadioInv'
<1> DEFINE switch == Recoded(d, on, off)
           sent == IF target \/ radio'[d].isToggle THEN on ELSE off
<1>1. on \in Code /\ on # NoCode /\ off \in Code \cup {NoCode}
  BY RadioAssumption
<1>2. /\ switch \in Radio
      /\ switch.code = on /\ switch.offCode = off
      /\ switch.isToggle = (off \in {NoCode, on})
  BY RecodedWired DEF writeRadio
<1>3. /\ codeToDevice' \in [Code -> {{e} : e \in RadioDevice} \cup {{}}]
      /\ \A c \in {on, off} \ {NoCode} :
           c \notin contested => codeToDevice'[c] = {d}
      /\ \A c \in Code : c \notin {on, off} /\ c \notin Uses(radio[d]) =>
           codeToDevice'[c] = codeToDevice[c]
  BY TakenWired DEF writeRadio
<1> HIDE DEF switch
<1>4. /\ radio' = [radio EXCEPT ![d] =
                     [switch EXCEPT !.currentState = target]]
      /\ received' = NoCode
      /\ lamp' = [s \in RadioDevice |-> Hears(radio'[s], Heard(s), sent)]
      /\ UNCHANGED learning
  BY DEF writeRadio, switch
<1>5. /\ radio'[d] \in Radio
      /\ radio'[d].code = on /\ radio'[d].offCode = off
      /\ radio'[d].isToggle = (off \in {NoCode, on})
      /\ radio'[d].currentState = target
  BY <1>2, <1>4 DEF RadioInv, RadioTypeOK, Radio
<1>6. sent \in Uses(radio'[d]) /\ radio'[d] # NoRadio
  BY <1>1, <1>5 DEF Uses, NoRadio, Radio
<1>7. RadioTypeOK'
  BY <1>3, <1>4, <1>5, ContestSteps
     DEF RadioInv, RadioTypeOK, learning, Hears, Heard
<1>8. Wired(d)' /\ Followed(d)'
  <2>1. Uses(radio'[d]) = {on, off} \ {NoCode} /\ Uses(radio'[d]) \subseteq Code
    BY <1>1, <1>5, <1>6 DEF Uses
  <2>2. \A c \in Uses(radio'[d]) \ contested' : c \notin contested
    BY <2>1, ContestSteps
  <2>3. Wired(d)'
    BY <1>1, <1>3, <1>5, <2>1, <2>2 DEF Wired
  <2>4. Followed(d)'
    BY <1>1, <1>4, <1>5, <2>1 DEF Followed, Hears
  <2>5. QED BY <2>3, <2>4
<1>9. ASSUME NEW e \in RadioDevice \ {d}
      PROVE  Wired(e)' /\ Followed(e)'
  <2>1. radio'[e] = radio[e]
    BY <1>4 DEF RadioInv, RadioTypeOK
  <2>2. \A c \in Uses(radio[e]) \ contested' :
          /\ c \in Code /\ c \notin Uses(radio[d])
          /\ c \notin Uses(radio'[d])
    BY <2>1, OwnStays
  <2>3. \A c \in Uses(radio[e]) \ contested' :
          codeToDevice'[c] = codeToDevice[c]
    BY <1>1, <1>3, <1>5, <1>6, <2>2 DEF Uses
  <2>4. OwnCodes(e)' => sent \notin Uses(radio'[e])
    BY <1>6, <2>1, <2>2 DEF OwnCodes
  <2>5. sent # NoCode
    BY <1>6 DEF Uses
  <2>6. OwnCodes(e)' /\ lamp'[e] # "unknown" => lamp'[e] = lamp[e] /\ ~Unseen(e)
    BY <1>4, <2>4, <2>5, Deaf DEF Heard
  <2>7. QED BY <1>4, <2>1, <2>3, <2>6, OthersFollow
<1>10. QED BY <1>7, <1>8, <1>9, ContestSteps DEF RadioInv

LEMMA WriteNotBoolInv ==
  ASSUME RadioInv, NEW d \in RadioDevice, NEW on \in CodesOf[d],
         NEW off \in CodesOf[d] \cup {NoCode}, writeNotBool(d, on, off),
         Contest, handled = NoCode, handled' = NoCode
  PROVE  RadioInv'
<1> DEFINE switch == Recoded(d, on, off)
<1>1. on \in Code /\ on # NoCode /\ off \in Code \cup {NoCode}
  BY RadioAssumption
<1>2. /\ switch \in Radio
      /\ switch.code = on /\ switch.offCode = off
      /\ switch.isToggle = (off \in {NoCode, on})
  BY RecodedWired DEF writeNotBool
<1>3. /\ codeToDevice' \in [Code -> {{e} : e \in RadioDevice} \cup {{}}]
      /\ \A c \in {on, off} \ {NoCode} :
           c \notin contested => codeToDevice'[c] = {d}
      /\ \A c \in Code : c \notin {on, off} /\ c \notin Uses(radio[d]) =>
           codeToDevice'[c] = codeToDevice[c]
  BY TakenWired DEF writeNotBool
<1> HIDE DEF switch
<1>4. /\ radio' = [radio EXCEPT ![d] = switch]
      /\ lamp' = IF radio' = radio THEN lamp
                                   ELSE [lamp EXCEPT ![d] = "unknown"]
      /\ UNCHANGED <<received, learning>>
  BY DEF writeNotBool, switch
<1>5. radio'[d] = switch
  BY <1>4 DEF RadioInv, RadioTypeOK
<1>6. RadioTypeOK'
  BY <1>2, <1>3, <1>4, ContestSteps DEF RadioInv, RadioTypeOK, learning
<1>7. /\ radio'[d] # NoRadio
      /\ Uses(radio'[d]) = {on, off} \ {NoCode}
      /\ Uses(radio'[d]) \subseteq Code
  BY <1>1, <1>2, <1>5 DEF Uses, NoRadio, Radio
<1>8. Wired(d)' /\ Followed(d)'
  <2>1. \A c \in Uses(radio'[d]) \ contested' : c \notin contested
    BY <1>7, ContestSteps
  <2>2. Wired(d)'
    BY <1>1, <1>2, <1>3, <1>5, <1>7, <2>1 DEF Wired
  <2>3. CASE radio' = radio
    <3>1. Followed(d) /\ (OwnCodes(d)' => OwnCodes(d))
      BY <2>3, OwnStays DEF RadioInv
    <3>2. UNCHANGED <<radio, received, handled, lamp>>
      BY <1>4, <2>3
    <3>3. QED BY <2>2, <3>1, <3>2 DEF Followed, Unseen
  <2>4. CASE radio' # radio
    <3>1. lamp'[d] = "unknown" /\ handled' \notin Uses(radio'[d])
      BY <1>4, <1>7, <2>4 DEF RadioInv, RadioTypeOK
    <3>2. QED BY <2>2, <3>1 DEF Followed
  <2>5. QED BY <2>3, <2>4
<1>9. ASSUME NEW e \in RadioDevice \ {d}
      PROVE  Wired(e)' /\ Followed(e)'
  <2>1. /\ radio'[e] = radio[e] /\ lamp'[e] = lamp[e]
        /\ received' = received
    BY <1>4 DEF RadioInv, RadioTypeOK
  <2>2. \A c \in Uses(radio[e]) \ contested' :
          /\ c \in Code /\ c \notin Uses(radio[d])
          /\ c \notin Uses(radio'[d])
    BY <2>1, OwnStays
  <2>3. \A c \in Uses(radio[e]) \ contested' :
          codeToDevice'[c] = codeToDevice[c]
    BY <1>3, <1>7, <2>2, RadioAssumption
  <2>4. QED BY <2>1, <2>3, OthersFollow
<1>10. QED BY <1>6, <1>8, <1>9, ContestSteps DEF RadioInv

LEMMA TestRadioInv ==
  ASSUME RadioInv, NEW d \in RadioDevice, NEW on \in CodesOf[d],
         testRadio(d, on), Contest, handled = NoCode, handled' = NoCode
  PROVE  RadioInv'
<1>1. RadioTypeOK'
  BY ContestSteps DEF RadioInv, RadioTypeOK, testRadio, learning, Heard
<1>2. ASSUME NEW e \in RadioDevice
      PROVE  Wired(e)' /\ Followed(e)'
  <2>1. /\ radio' = radio /\ codeToDevice' = codeToDevice
        /\ received' = NoCode
    BY DEF testRadio
  <2>2. lamp'[e] # "unknown" => lamp'[e] = lamp[e] /\ ~Unseen(e)
    BY DEF testRadio, Heard
  <2>3. QED BY <2>1, <2>2, OthersFollow
<1>3. QED BY <1>1, <1>2, ContestSteps DEF RadioInv

(* A remote control moves the switch; the hub will look at the code it has *)
(* got, unless a second one comes first or loop() gives it up.             *)
LEMMA RemoteInv ==
  ASSUME RadioInv, NEW code \in Code, Remote(code), Contest
  PROVE  RadioInv'
<1>0. code # NoCode
  BY RadioAssumption
<1>1. RadioTypeOK'
  BY ContestSteps DEF RadioInv, RadioTypeOK, Remote, learning, Hears, Heard
<1>2. ASSUME NEW e \in RadioDevice
      PROVE  Wired(e)' /\ Followed(e)'
  <2>1. /\ UNCHANGED <<radio, codeToDevice, handled>> /\ received' = code
        /\ lamp'[e] = Hears(radio[e], Heard(e), code)
    BY DEF Remote
  <2>2. /\ OwnCodes(e)' => OwnCodes(e)
        /\ \A c \in Uses(radio[e]) \ contested' : c \notin contested
    BY <2>1, OwnStays
  <2>3. Wired(e)'
    BY <2>1, <2>2 DEF RadioInv, Wired
  <2>4. Followed(e)'
    <3> SUFFICES ASSUME OwnCodes(e)', lamp'[e] # "unknown"
                 PROVE  /\ radio[e] # NoRadio /\ radio[e].code # NoCode
                        /\ ~radio[e].isToggle
                        /\ code = radio[e].code => lamp'[e] = "on"
                        /\ code = radio[e].offCode => lamp'[e] = "off"
                        /\ ~Unseen(e)' =>
                             radio[e].currentState = (lamp'[e] = "on")
      BY <2>1, <2>2 DEF Followed, RadioInv
    <3>1. radio[e] # NoRadio /\ ~radio[e].isToggle
      BY <2>1 DEF Hears
    <3>2. CASE code \in Uses(radio[e])
      <4>1. /\ code \in {radio[e].code, radio[e].offCode}
            /\ radio[e].code # NoCode
            /\ radio[e].offCode # radio[e].code
        BY <1>0, <3>1, <3>2 DEF Uses, RadioInv, Wired
      <4>2. lamp'[e] = IF code = radio[e].code THEN "on" ELSE "off"
        BY <2>1, <3>1, <4>1 DEF Hears
      <4>3. ASSUME ~Unseen(e)'
            PROVE  radio[e].currentState = (lamp'[e] = "on")
        <5>1. handled = code
          BY <2>1, <3>2, <4>3 DEF Unseen
        <5>2. radio[e].currentState = (code = radio[e].code)
          BY <2>2, <3>1, <3>2, <5>1 DEF RadioInv, Followed
        <5>3. QED BY <4>1, <4>2, <5>2
      <4>4. QED BY <3>1, <4>1, <4>2, <4>3
    <3>3. CASE code \notin Uses(radio[e])
      <4>1. lamp'[e] = lamp[e] /\ ~Unseen(e)
        BY <1>0, <2>1, <3>3, Deaf DEF Heard
      <4>2. /\ radio[e].code # NoCode
            /\ radio[e].currentState = (lamp[e] = "on")
        BY <2>2, <4>1 DEF RadioInv, Followed
      <4>3. code # radio[e].code /\ code # radio[e].offCode
        BY <1>0, <3>1, <3>3 DEF Uses
      <4>4. QED BY <3>1, <4>1, <4>2, <4>3
    <3>4. QED BY <3>2, <3>3
  <2>5. QED BY <2>3, <2>4
<1>3. QED BY <1>1, <1>2, ContestSteps DEF RadioInv

(* The code is for the switch that has it to itself, which is believed     *)
(* where the code put it; a code a device has given up changes nothing.    *)
LEMMA ReceivedInv ==
  ASSUME RadioInv, handleReceivedCode, Contest, handled = NoCode
  PROVE  RadioInv'
<1> DEFINE device == codeToDevice[received] \cap Switches
<1>1. /\ received \in Code /\ received # NoCode /\ handled' = received
      /\ radio' = [d \in RadioDevice |->
           IF d \in device THEN After(radio[d], received) ELSE radio[d]]
      /\ learned' = IF device = {} /\ learningEnabled
                    THEN received ELSE learned
      /\ UNCHANGED <<codeToDevice, received, learningEnabled, lamp>>
  BY DEF handleReceivedCode, RadioInv, RadioTypeOK
<1>2. ASSUME NEW d \in Switches
      PROVE  /\ After(radio[d], received) \in Radio
             /\ After(radio[d], received).code = radio[d].code
             /\ After(radio[d], received).offCode = radio[d].offCode
             /\ After(radio[d], received).isToggle = radio[d].isToggle
  <2>1. radio[d] \in Radio
    BY DEF RadioInv, RadioTypeOK, Switches
  <2>2. QED
    BY <2>1 DEF After, Radio
<1> HIDE DEF device
<1>3. device \subseteq Switches
  BY DEF device
<1>4. RadioTypeOK'
  BY <1>1, <1>2, <1>3, ContestSteps DEF RadioInv, RadioTypeOK
<1>5. ASSUME NEW e \in RadioDevice
      PROVE  Wired(e)' /\ Followed(e)'
  <2>1. CASE radio[e] = NoRadio
    <3>1. radio'[e] = NoRadio
      BY <1>1, <1>3, <2>1 DEF Switches
    <3>2. Uses(NoRadio) = {} /\ OwnCodes(e)
      BY <2>1 DEF Uses, OwnCodes
    <3>3. QED
      BY <1>1, <2>1, <3>1, <3>2 DEF RadioInv, Wired, Followed
  <2>2. CASE radio[e] # NoRadio
    <3>1. /\ radio[e] \in Radio
          /\ radio'[e].code = radio[e].code
          /\ radio'[e].offCode = radio[e].offCode
          /\ radio'[e].isToggle = radio[e].isToggle
          /\ radio'[e] \in Radio
      BY <1>1, <1>2, <1>3, <2>2 DEF RadioInv, RadioTypeOK
    <3>2. radio'[e] # NoRadio
      BY <3>1 DEF NoRadio, Radio
    <3>3. Uses(radio'[e]) = Uses(radio[e])
      BY <2>2, <3>1, <3>2 DEF Uses
    <3>4. /\ OwnCodes(e)' => OwnCodes(e)
          /\ \A c \in Uses(radio[e]) \ contested' : c \notin contested
      BY <3>3, OwnStays
    <3>5. Wired(e)'
      BY <1>1, <2>2, <3>1, <3>3, <3>4 DEF RadioInv, Wired
    <3>6. Followed(e)'
      <4> SUFFICES ASSUME OwnCodes(e)'
                   PROVE  Followed(e)'
        BY DEF Followed
      <4>1. Followed(e) /\ Wired(e) /\ OwnCodes(e)
        BY <3>4 DEF RadioInv
      <4>2. CASE received \in Uses(radio[e])
        <5>1. received \notin contested
          BY <4>1, <4>2 DEF OwnCodes
        <5>2. e \in device
          BY <2>2, <4>1, <4>2, <5>1 DEF Wired, device, Switches
        <5>3. radio'[e] = After(radio[e], received)
          BY <1>1, <5>2
        <5>4. received \in {radio[e].code, radio[e].offCode}
          BY <2>2, <4>2 DEF Uses
        <5>5. ~radio[e].isToggle =>
                radio'[e].currentState = (received = radio[e].code)
          BY <3>1, <5>3, <5>4 DEF After, Radio
        <5>6. lamp[e] # "unknown" =>
                /\ radio[e].code # NoCode /\ ~radio[e].isToggle
                /\ received = radio[e].code => lamp[e] = "on"
                /\ received = radio[e].offCode => lamp[e] = "off"
          BY <4>1 DEF Followed
        <5>7. lamp[e] # "unknown" =>
                radio'[e].currentState = (lamp[e] = "on")
          BY <5>4, <5>5, <5>6
        <5>8. QED
          BY <1>1, <3>1, <3>2, <5>5, <5>6, <5>7 DEF Followed
      <4>3. CASE received \notin Uses(radio[e])
        <5>1. ~radio[e].isToggle => radio'[e] = radio[e]
          <6>1. received \notin {radio[e].code, radio[e].offCode}
            BY <1>1, <2>2, <4>3 DEF Uses
          <6>2. QED BY <1>1, <6>1 DEF After
        <5>2. lamp[e] # "unknown" =>
                /\ radio[e].code # NoCode /\ ~radio[e].isToggle
                /\ received = radio[e].code => lamp[e] = "on"
                /\ received = radio[e].offCode => lamp[e] = "off"
                /\ radio[e].currentState = (lamp[e] = "on")
          BY <4>1, <4>3 DEF Followed, Unseen
        <5>3. QED
          BY <1>1, <3>1, <3>2, <3>3, <4>3, <5>1, <5>2 DEF Followed
      <4>4. QED BY <4>2, <4>3
    <3>7. QED BY <3>5, <3>6
  <2>3. QED BY <2>1, <2>2
<1>6. QED BY <1>4, <1>5, ContestSteps DEF RadioInv

(* What came while the code was handled is given up, and nobody knows      *)
(* where a switch stands that heard it.                                    *)
LEMMA ResetInv ==
  ASSUME RadioInv, resetAvailable, Contest
  PROVE  RadioInv'
<1>1. RadioTypeOK'
  BY ContestSteps DEF RadioInv, RadioTypeOK, resetAvailable, learning, Heard
<1>2. ASSUME NEW e \in RadioDevice
      PROVE  Wired(e)' /\ Followed(e)'
  <2>1. /\ UNCHANGED <<radio, codeToDevice>>
        /\ received' = NoCode /\ handled' = NoCode
        /\ lamp'[e] # "unknown" => lamp'[e] = lamp[e] /\ ~Unseen(e)
    BY DEF resetAvailable, Heard
  <2>2. /\ OwnCodes(e)' => OwnCodes(e)
        /\ \A c \in Uses(radio[e]) \ contested' : c \notin contested
    BY <2>1, OwnStays
  <2>3. Wired(e)'
    BY <2>1, <2>2 DEF RadioInv, Wired
  <2>4. NoCode \notin Uses(radio[e])
    BY DEF Uses
  <2>5. ASSUME OwnCodes(e)', lamp'[e] # "unknown"
        PROVE  /\ radio[e] # NoRadio /\ radio[e].code # NoCode
               /\ ~radio[e].isToggle /\ radio[e].offCode # NoCode
               /\ radio[e].currentState = (lamp[e] = "on")
    <3>1. /\ radio[e] # NoRadio /\ radio[e].code # NoCode
          /\ ~radio[e].isToggle
          /\ radio[e].currentState = (lamp[e] = "on")
      BY <2>1, <2>2, <2>5 DEF RadioInv, Followed
    <3>2. QED BY <3>1 DEF RadioInv, Wired
  <2>6. Followed(e)'
    BY <2>1, <2>4, <2>5 DEF Followed
  <2>7. QED BY <2>3, <2>6
<1>3. QED BY <1>1, <1>2, ContestSteps DEF RadioInv

(* Nothing but the learning mode changes. *)
LEMMA LearningInv ==
  ASSUME RadioInv,
         UNCHANGED <<radio, codeToDevice, received, handled, learned, lamp>>,
         learningEnabled' \in BOOLEAN, Contest
  PROVE  RadioInv'
<1>1. RadioTypeOK'
  BY ContestSteps DEF RadioInv, RadioTypeOK
<1>2. ASSUME NEW e \in RadioDevice
      PROVE  Wired(e)' /\ Followed(e)'
  <2>1. /\ OwnCodes(e)' => OwnCodes(e)
        /\ \A c \in Uses(radio[e]) \ contested' : c \notin contested
    BY OwnStays
  <2>2. QED
    BY <2>1 DEF RadioInv, Wired, Followed, Unseen
<1>3. QED BY <1>1, <1>2, ContestSteps DEF RadioInv

LEMMA RadioNextInv == RadioInv /\ [RadioNext]_radioVars => RadioInv'
<1> SUFFICES ASSUME RadioInv, [RadioNext]_radioVars
             PROVE  RadioInv'
  OBVIOUS
<1>1. CASE RadioCall /\ Contest
  <2>0. handled = NoCode /\ handled' = NoCode /\ Contest
    BY <1>1 DEF RadioCall
  <2>1. CASE \E d \in RadioDevice : initializeRadio(d)
    BY <2>0, <2>1, InitializeRadioInv
  <2>2. CASE \E d \in RadioDevice : removeRadio(d)
    BY <2>0, <2>2, RemoveRadioInv
  <2>3. CASE \E d \in RadioDevice : \E on \in CodesOf[d] : testRadio(d, on)
    BY <2>0, <2>3, TestRadioInv
  <2>4. CASE \E d \in RadioDevice : \E on \in CodesOf[d] :
               \E off \in CodesOf[d] \cup {NoCode} : writeNotBool(d, on, off)
    BY <2>0, <2>4, WriteNotBoolInv
  <2>5. CASE \E d \in RadioDevice : \E on \in CodesOf[d] :
               \E off \in CodesOf[d] \cup {NoCode}, target \in BOOLEAN :
                 writeRadio(d, on, off, target)
    BY <2>0, <2>5, WriteInv
  <2>6. CASE enableLearningMode \/ disableLearningMode
    <3>1. /\ UNCHANGED <<radio, codeToDevice, received, handled, learned, lamp>>
          /\ learningEnabled' \in BOOLEAN
      BY <2>0, <2>6 DEF enableLearningMode, disableLearningMode
    <3>2. QED BY <2>0, <3>1, LearningInv
  <2>7. QED
    BY <1>1, <2>1, <2>2, <2>3, <2>4, <2>5, <2>6 DEF RadioCall
<1>2. CASE (\E code \in Code : Remote(code)) /\ Contest
  BY <1>2, RemoteInv
<1>3. CASE handled = NoCode /\ handleReceivedCode /\ Contest
  BY <1>3, ReceivedInv
<1>4. CASE resetAvailable /\ Contest
  BY <1>4, ResetInv
<1>5. CASE UNCHANGED radioVars
  BY <1>5 DEF radioVars, RadioInv, RadioTypeOK, Shared, Wired, Followed,
              OwnCodes, Unseen, Uses
<1>6. QED
  BY <1>1, <1>2, <1>3, <1>4, <1>5 DEF RadioNext

(* RF433Manager: what readEndpoint reports of a switch with two codes it   *)
(* has to itself is the state the hub and the remote controls have put it  *)
(* in, whatever codes the others share and whenever a code is received.    *)
THEOREM SwitchShown == RadioSpec => []ShowsTheSwitch
<1>1. RadioInv => ShowsTheSwitch
  BY DEF RadioInv, ShowsTheSwitch, Switches, Followed
<1>2. QED
  BY RadioInitInv, RadioNextInv, <1>1, PTL DEF RadioSpec
------------------------------------------------------------------------------
(* Configurations. *)

Doc == Config \cup {Empty, Absent}

(* What is known is managed, and the two tables have their types.  Files   *)
(* do not matter: whatever they hold is cleared before it is loaded.       *)
ConfigInv ==
  /\ deviceConfigs \in [DeviceId -> Doc]
  /\ managed \in [Protocol -> SUBSET DeviceId]
  /\ KnownIsInitialised

LEMMA NoProtocol == Empty.protocol = "" /\ ~Empty.valid
BY DEF Empty

(* A cleared document names no manager, so that none is told to forget. *)
LEMMA NobodyReleases ==
  ASSUME ConfigInv, NEW d \in DeviceId
  PROVE  Released(d) = managed
BY NoProtocol, ConfigAssumption DEF ConfigInv, Released, getDeviceProtocol, to

(* A load that is accepted has its device managed, one that is refused     *)
(* leaves no document of it, and neither touches another device.           *)
LEMMA LoadConfigInv ==
  ASSUME ConfigInv, NEW c \in Config, NEW docs \in [DeviceId -> Doc],
         \A d \in DeviceId : docs[d] # Absent => hasDevice(d)
  PROVE  /\ LoadedDocs(docs, c) \in [DeviceId -> Doc]
         /\ LoadedTable(managed, c) \in [Protocol -> SUBSET DeviceId]
         /\ \A d \in DeviceId : LoadedDocs(docs, c)[d] # Absent =>
              \E p \in Protocol : d \in LoadedTable(managed, c)[p]
<1>1. c.device_id \in DeviceId /\ c.protocol \in Protocol
  BY ConfigAssumption
<1>2. LoadedDocs(docs, c) \in [DeviceId -> Doc]
  BY <1>1 DEF LoadedDocs, Doc
<1>3. LoadedTable(managed, c) \in [Protocol -> SUBSET DeviceId]
  BY <1>1 DEF LoadedTable, ConfigInv
<1>4. \A p \in Protocol : managed[p] \subseteq LoadedTable(managed, c)[p]
  BY <1>1 DEF LoadedTable, ConfigInv
<1>5. ASSUME NEW d \in DeviceId, LoadedDocs(docs, c)[d] # Absent
      PROVE  \E p \in Protocol : d \in LoadedTable(managed, c)[p]
  <2>1. CASE docs[d] # Absent
    BY <2>1, <1>4 DEF ConfigInv, KnownIsInitialised, Devices
  <2>2. CASE docs[d] = Absent
    <3>1. Loads(c) /\ d = c.device_id
      BY <2>2, <1>1, <1>5 DEF LoadedDocs, Loads
    <3>2. d \in LoadedTable(managed, c)[c.protocol]
      BY <3>1, <1>1 DEF LoadedTable, ConfigInv
    <3>3. QED BY <3>2, <1>1
  <2>3. QED BY <2>1, <2>2
<1>6. QED BY <1>2, <1>3, <1>5

LEMMA ConfigInitInv == ConfigInit => ConfigInv
BY DEF ConfigInit, ConfigInv, Doc, KnownIsInitialised, Devices, hasDevice

LEMMA CreateConfigInv ==
  ASSUME ConfigInv, NEW c \in Config, NEW outcome \in Outcome,
         createDevice(c, outcome)
  PROVE  ConfigInv'
<1>1. /\ deviceConfigs \in [DeviceId -> Doc]
      /\ \A d \in DeviceId : deviceConfigs[d] # Absent => hasDevice(d)
  BY DEF ConfigInv, hasDevice
<1>2. /\ deviceConfigs' = LoadedDocs(deviceConfigs, c)
      /\ managed' = LoadedTable(managed, c)
  BY DEF createDevice
<1>3. QED
  BY <1>1, <1>2, LoadConfigInv DEF ConfigInv, KnownIsInitialised, Devices, hasDevice

(* The device that could not be updated is put back without a manager      *)
(* being asked; it still has the one it had.                               *)
LEMMA UpdateConfigInv ==
  ASSUME ConfigInv, NEW c \in Config, NEW d \in DeviceId, NEW outcome \in Outcome,
         updateDevice(d, c, outcome)
  PROVE  ConfigInv'
<1> DEFINE asked == [deviceConfigs EXCEPT ![d] = to(@)]
           docs == LoadedDocs(asked, c)
           old == to(docs[d])
<1>1. /\ asked \in [DeviceId -> Doc]
      /\ \A e \in DeviceId : asked[e] # Absent => hasDevice(e)
  BY DEF ConfigInv, Doc, to, hasDevice, updateDevice
<1> HIDE DEF asked
<1>2. /\ docs \in [DeviceId -> Doc]
      /\ LoadedTable(managed, c) \in [Protocol -> SUBSET DeviceId]
      /\ \A e \in DeviceId : docs[e] # Absent =>
           \E p \in Protocol : e \in LoadedTable(managed, c)[p]
  BY <1>1, LoadConfigInv
<1>3. Released(d) = managed
  BY NobodyReleases
<1>4. old = Empty /\ old \notin Config
  BY NoProtocol, ConfigAssumption DEF to
<1> HIDE DEF docs, old
<1>5. CASE Loads(c)
  <2>1. deviceConfigs' = docs /\ managed' = LoadedTable(managed, c)
    BY <1>5, <1>3 DEF updateDevice, asked, docs
  <2>2. QED
    BY <2>1, <1>2 DEF ConfigInv, KnownIsInitialised, Devices, hasDevice
<1>6. CASE ~Loads(c)
  <2>1. deviceConfigs' = [docs EXCEPT ![d] = old] /\ managed' = managed
    BY <1>6, <1>3, <1>4 DEF updateDevice, asked, docs, old
  <2>2. LoadedTable(managed, c) = managed
    BY <1>6 DEF LoadedTable
  <2>3. \E p \in Protocol : d \in managed[p]
    BY DEF updateDevice, ConfigInv, KnownIsInitialised, Devices
  <2>4. QED
    BY <2>1, <2>2, <2>3, <1>2, <1>4
       DEF ConfigInv, Doc, KnownIsInitialised, Devices, hasDevice
<1>7. QED BY <1>5, <1>6

LEMMA DeleteConfigInv ==
  ASSUME ConfigInv, NEW d \in DeviceId, deleteDevice(d)
  PROVE  ConfigInv'
<1>1. managed' = managed
  BY NobodyReleases DEF deleteDevice
<1>2. QED
  BY <1>1 DEF deleteDevice, ConfigInv, Doc, KnownIsInitialised, Devices, hasDevice

(* Nothing that is read from a file is accepted, so that nobody is known. *)
LEMMA RestartConfigInv ==
  ASSUME Restart
  PROVE  ConfigInv'
<1> DEFINE docs == {to(files[f]) : f \in {f \in File :
                                            files[f] \notin {Absent, Blank}}}
           loaded == {c \in docs : Loads(c)}
<1>1. loaded = {}
  BY NoProtocol DEF to, Loads, validateDeviceConfig
<1> HIDE DEF loaded
<1>2. /\ deviceConfigs' = [d \in DeviceId |->
           IF \E c \in loaded : c.device_id = d
           THEN CHOOSE c \in loaded : c.device_id = d ELSE Absent]
      /\ managed' = [p \in Protocol |->
           {c.device_id : c \in {k \in loaded : k.protocol = p}}]
  BY DEF Restart, loaded
<1>3. /\ deviceConfigs' = [d \in DeviceId |-> Absent]
      /\ managed' = [p \in Protocol |-> {}]
  BY <1>1, <1>2
<1>4. QED
  BY <1>3 DEF ConfigInv, Doc, KnownIsInitialised, Devices, hasDevice

(* The files. *)
LEMMA MaximumExists ==
  ASSUME NEW ids \in SUBSET Nat, IsFiniteSet(ids), ids # {}
  PROVE  \E d \in ids : \A e \in ids : e <= d
<1> DEFINE R == StrictSubsetOrdering(ids)
           S == FiniteSubsetsOf(ids)
           T == {s \in S : s # {} /\ ~\E d \in s : \A e \in s : e <= d}
<1>1. IsWellFoundedOn(R, S)
  BY FS_StrictSubsetOrderingWellFounded
<1>2. SUFFICES ASSUME T # {}
               PROVE  FALSE
  <2>1. ids \in S
    BY DEF FiniteSubsetsOf
  <2>2. ids \notin T
    BY <1>2
  <2>3. QED BY <2>1, <2>2
<1>3. T \subseteq S
  OBVIOUS
<1> HIDE DEF R, S, T
<1>4. PICK s \in T : \A t \in T : <<t, s>> \notin R
  BY <1>1, <1>2, <1>3, WFMin
<1>5. /\ s \in SUBSET ids /\ IsFiniteSet(s) /\ s # {}
      /\ ~\E d \in s : \A e \in s : e <= d
  BY <1>4 DEF T, S, FiniteSubsetsOf
<1>6. PICK x \in s : TRUE
  BY <1>5
<1> DEFINE t == s \ {x}
<1>7. t \in SUBSET ids /\ IsFiniteSet(t) /\ t \subseteq s /\ t # s
  BY <1>5, <1>6, FS_RemoveElement
<1>8. t # {}
  <2>1. SUFFICES ASSUME t = {} PROVE FALSE
    OBVIOUS
  <2>2. \A e \in s : e = x
    BY <2>1
  <2>3. x <= x
    BY <1>5
  <2>4. QED BY <1>5, <1>6, <2>2, <2>3
<1>9. <<t, s>> \in R
  BY <1>5, <1>7 DEF R, StrictSubsetOrdering
<1>10. t \notin T /\ t \in S
  BY <1>4, <1>7, <1>9 DEF S, FiniteSubsetsOf
<1>11. PICK d \in t : \A e \in t : e <= d
  BY <1>8, <1>10 DEF T
<1>12. d \in Nat /\ x \in Nat /\ s \subseteq Nat /\ d \in s
  BY <1>5, <1>7
<1>13. CASE x <= d
  BY <1>5, <1>11, <1>12, <1>13
<1>14. CASE ~(x <= d)
  <2>1. \A e \in s : e <= x
    BY <1>11, <1>12, <1>14
  <2>2. QED BY <1>5, <1>6, <2>1
<1>15. QED BY <1>13, <1>14

Content == Config \cup {Empty, Blank, Absent}

LEMMA StoredContent ==
  ASSUME NEW doc \in Doc, NEW old \in Content, NEW outcome \in Outcome
  PROVE  Stored(doc, old, outcome) \in Content
BY DEF Stored, Outcome, Doc, Content

LEMMA FileExists == \A d \in DeviceId : FileOf[d] \in File
BY DEF File

LEMMA SavedFiles ==
  ASSUME ConfigInv, files \in [File -> Content], NEW outcome \in Outcome,
         saveAllDevices(outcome)
  PROVE  files' \in [File -> Content]
<1> DEFINE ids(f) == {d \in Devices : FileOf[d] = f}
           last(f) == CHOOSE d \in ids(f) : \A e \in ids(f) : e <= d
<1>1. ASSUME NEW f \in File, ids(f) # {}
      PROVE  Stored(deviceConfigs[last(f)], files[f], outcome) \in Content
  <2>1. ids(f) \in SUBSET DeviceId
    BY DEF Devices
  <2>2. ids(f) \in SUBSET Nat /\ IsFiniteSet(ids(f))
    BY <2>1, ConfigAssumption, FS_Subset
  <2>3. \E d \in ids(f) : \A e \in ids(f) : e <= d
    <3> HIDE DEF ids
    <3> QED BY <1>1, <2>2, MaximumExists
  <2>4. last(f) \in DeviceId
    BY <2>1, <2>3
  <2>5. deviceConfigs[last(f)] \in Doc
    BY <2>4 DEF ConfigInv
  <2> HIDE DEF last
  <2>6. QED BY <2>5, StoredContent
<1>2. files' = [f \in File |->
        IF ids(f) = {} THEN files[f]
        ELSE Stored(deviceConfigs[last(f)], files[f], outcome)]
  BY DEF saveAllDevices
<1> HIDE DEF ids, last
<1>3. QED BY <1>1, <1>2

LEMMA FilesNext ==
  ASSUME ConfigInv, files \in [File -> Content], ConfigNext
  PROVE  files' \in [File -> Content]
<1>1. ASSUME NEW c \in Config, NEW outcome \in Outcome,
             createDevice(c, outcome)
      PROVE  files' \in [File -> Content]
  <2>1. FileOf[c.device_id] \in File /\ c \in Doc
    BY FileExists, ConfigAssumption DEF Doc
  <2>2. Stored(c, files[FileOf[c.device_id]], outcome) \in Content
    BY <2>1, StoredContent
  <2>3. QED BY <1>1, <2>1, <2>2 DEF createDevice
<1>2. ASSUME NEW c \in Config, NEW outcome \in Outcome, NEW d \in DeviceId,
             updateDevice(d, c, outcome)
      PROVE  files' \in [File -> Content]
  <2> DEFINE docs == LoadedDocs([deviceConfigs EXCEPT ![d] = to(@)], c)
  <2>1. docs[d] \in Doc
    <3>1. [deviceConfigs EXCEPT ![d] = to(@)] \in [DeviceId -> Doc]
      BY DEF ConfigInv, to, Doc
    <3>2. c \in Doc /\ Absent \in Doc
      BY DEF Doc
    <3>3. QED BY <3>1, <3>2, ConfigAssumption DEF LoadedDocs
  <2> HIDE DEF docs
  <2>2. \/ files' = [files EXCEPT ![FileOf[d]] = Stored(docs[d], @, outcome)]
        \/ files' = files
    BY <1>2 DEF updateDevice, docs
  <2>3. FileOf[d] \in File
    BY FileExists
  <2>4. Stored(docs[d], files[FileOf[d]], outcome) \in Content
    BY <2>1, <2>3, StoredContent
  <2>5. QED BY <2>2, <2>3, <2>4
<1>3. ASSUME NEW d \in DeviceId, NEW outcome \in Outcome,
             saveDevice(d, outcome)
      PROVE  files' \in [File -> Content]
  <2>1. FileOf[d] \in File
    BY FileExists
  <2>2. Stored(deviceConfigs[d], files[FileOf[d]], outcome) \in Content
    BY <2>1, StoredContent DEF ConfigInv
  <2>3. QED BY <1>3, <2>1, <2>2 DEF saveDevice
<1>4. ASSUME NEW d \in DeviceId, deleteDevice(d)
      PROVE  files' \in [File -> Content]
  BY <1>4, FileExists DEF deleteDevice, Content
<1>5. CASE (\E d \in DeviceId : Ask(d)) \/ getStatistics \/ Restart
  BY <1>5 DEF Ask, getStatistics, Restart
<1>6. QED BY <1>1, <1>2, <1>3, <1>4, <1>5, SavedFiles DEF ConfigNext

LEMMA ConfigNextInv == ConfigInv /\ [ConfigNext]_configVars => ConfigInv'
<1> SUFFICES ASSUME ConfigInv, [ConfigNext]_configVars
             PROVE  ConfigInv'
  OBVIOUS
<1> USE DEF ConfigInv, KnownIsInitialised, Devices, hasDevice
<1>1. CASE \E c \in Config, outcome \in Outcome : createDevice(c, outcome)
  BY <1>1, CreateConfigInv
<1>2. CASE \E c \in Config, outcome \in Outcome, d \in DeviceId :
             updateDevice(d, c, outcome)
  BY <1>2, UpdateConfigInv
<1>3. CASE \/ \E d \in DeviceId, outcome \in Outcome : saveDevice(d, outcome)
           \/ \E outcome \in Outcome : saveAllDevices(outcome)
  BY <1>3 DEF saveDevice, saveAllDevices
<1>4. CASE \E d \in DeviceId : deleteDevice(d)
  BY <1>4, DeleteConfigInv
<1>5. CASE \E d \in DeviceId : Ask(d)
  BY <1>5 DEF Ask, to, Doc
<1>6. CASE getStatistics
  BY <1>6 DEF getStatistics, to, Doc
<1>7. CASE Restart
  BY <1>7, RestartConfigInv
<1>8. CASE UNCHANGED configVars
  BY <1>8 DEF configVars
<1>9. QED
  BY <1>1, <1>2, <1>3, <1>4, <1>5, <1>6, <1>7, <1>8 DEF ConfigNext

(* DeviceConfigManager: every device in memory is one that some protocol   *)
(* manager was told of, through every failed load, update and save.        *)
THEOREM KnownDevicesInitialised == ConfigSpec => []KnownIsInitialised
<1>1. ConfigInv => KnownIsInitialised
  BY DEF ConfigInv
<1>2. QED
  BY ConfigInitInv, ConfigNextInv, <1>1, PTL DEF ConfigSpec
------------------------------------------------------------------------------
(* All of them.  The kind that is not there has nothing in its tables, and *)
(* nothing to keep up with the clock.                                      *)
Quiet ==
  /\ part # "zigbee" => Known(zigbee) = {} /\ ~pairingEnabled
  /\ part # "mesh" => Known(legacyDevices) = {}

DevicesInv ==
  /\ part \in {"modules", "zigbee", "mesh", "wifi", "radio", "configs"}
  /\ ModulesInv
  /\ ClockTypeOK
  /\ Quiet
  /\ ZigbeeInv
  /\ MeshInv
  /\ WiFiTypeOK
  /\ RadioInv
  /\ ConfigInv
  /\ files \in [File -> Content]

LEMMA DevicesInitInv == DevicesInit => DevicesInv
<1> SUFFICES ASSUME DevicesInit PROVE DevicesInv
  OBVIOUS
<1>1. /\ part \in {"modules", "zigbee", "mesh", "wifi", "radio", "configs"}
      /\ ModulesInit
      /\ ClockInit /\ ZigbeeInit /\ MeshInit /\ WiFiInit /\ RadioInit
      /\ ConfigInit
  BY DEF DevicesInit
<1>2. Quiet
  BY <1>1 DEF Quiet, ZigbeeInit, MeshInit, Known
<1>3. files \in [File -> Content]
  BY <1>1 DEF ConfigInit, Content
<1>4. QED
  BY <1>1, <1>2, <1>3, ModulesInitInv, ZigbeeInitInv, MeshInitInv,
     WiFiInitInv, RadioInitInv, ConfigInitInv DEF DevicesInv

(* The Zigbee tables stand still, and hold nothing while the clock runs. *)
LEMMA ZigbeeStill ==
  ASSUME ClockTypeOK, ZigbeeInv, Known(zigbee) = {}, ~pairingEnabled,
         UNCHANGED zigbeeVars
  PROVE  ZigbeeInv'
<1>1. UNCHANGED <<zigbee, bridgeOnline, pairingEnabled, pairingEndTime, heard,
                  pairing>>
  BY DEF zigbeeVars
<1>2. ZigbeeTypeOK' /\ WindowInv'
  BY <1>1 DEF ZigbeeInv, ZigbeeTypeOK, WindowInv
<1>3. \A d \in ZigbeeDevice : zigbee[d] = NoDevice
  BY DEF ZigbeeInv, ZigbeeTypeOK, Known, Table
<1>4. \A d \in ZigbeeDevice : ZigbeeHeard(d)'
  BY <1>1, <1>3 DEF ZigbeeHeard
<1>5. QED BY <1>2, <1>4 DEF ZigbeeInv

LEMMA MeshStill ==
  ASSUME MeshInv, Known(legacyDevices) = {}, UNCHANGED meshVars
  PROVE  MeshInv'
<1>1. UNCHANGED <<legacyDevices, mainProgram, said>>
  BY DEF meshVars
<1>2. MeshTypeOK'
  BY <1>1 DEF MeshInv, MeshTypeOK
<1>3. \A n \in Node : legacyDevices[n] = NoDevice
  BY DEF MeshInv, MeshTypeOK, Known, Table
<1>4. \A n \in Node : MeshSaid(n)'
  BY <1>1, <1>3 DEF MeshSaid
<1>5. QED BY <1>2, <1>4 DEF MeshInv

LEMMA RadioStill == RadioInv /\ UNCHANGED radioVars => RadioInv'
BY RadioNextInv

LEMMA ConfigStill ==
  ConfigInv /\ files \in [File -> Content] /\ UNCHANGED configVars
    => ConfigInv' /\ files' \in [File -> Content]
BY ConfigNextInv DEF configVars

LEMMA DevicesNextInv ==
  ASSUME DevicesInv, [DevicesNext]_devicesVars
  PROVE  DevicesInv'
<1>1. CASE UNCHANGED devicesVars
  <2>1. /\ UNCHANGED part /\ UNCHANGED clockVars /\ UNCHANGED zigbeeVars
        /\ UNCHANGED meshVars /\ UNCHANGED wifiVars /\ UNCHANGED radioVars
        /\ UNCHANGED configVars /\ UNCHANGED modulesVars
    BY <1>1 DEF devicesVars, deviceVars
  <2>2. ClockTypeOK' /\ Quiet' /\ WiFiTypeOK'
    BY <2>1 DEF DevicesInv, ClockTypeOK, Quiet, WiFiTypeOK, clockVars,
                zigbeeVars, meshVars, wifiVars, Known
  <2>3. ZigbeeInv'
    BY <2>1 DEF DevicesInv, ZigbeeInv, ZigbeeTypeOK, ZigbeeHeard, WindowInv,
                Left, Since, zigbeeVars, clockVars
  <2>4. MeshInv'
    BY <2>1 DEF DevicesInv, MeshInv, MeshTypeOK, MeshSaid, Since, meshVars,
                clockVars
  <2>5. QED
    BY <2>1, <2>2, <2>3, <2>4, ModulesNextInv, RadioStill, ConfigStill
       DEF DevicesInv
<1>2. CASE part = "zigbee" /\ DevicesNext
  <2>1. /\ UNCHANGED part /\ ZigbeeNext /\ UNCHANGED meshVars
        /\ UNCHANGED wifiVars /\ UNCHANGED radioVars /\ UNCHANGED configVars
        /\ UNCHANGED modulesVars
    BY <1>2 DEF DevicesNext, DeviceNext
  <2>2. Known(legacyDevices) = {}
    BY <1>2 DEF DevicesInv, Quiet
  <2>3. Quiet' /\ WiFiTypeOK'
    BY <1>2, <2>1, <2>2
       DEF DevicesInv, Quiet, WiFiTypeOK, meshVars, wifiVars, Known
  <2>4. ZigbeeInv' /\ ClockTypeOK'
    BY <2>1, ZigbeeNextInv DEF DevicesInv
  <2>5. MeshInv'
    BY <2>1, <2>2, MeshStill DEF DevicesInv
  <2>6. QED
    BY <2>1, <2>3, <2>4, <2>5, ModulesNextInv, RadioStill, ConfigStill
       DEF DevicesInv
<1>3. CASE part = "mesh" /\ DevicesNext
  <2>1. /\ UNCHANGED part /\ MeshNext /\ UNCHANGED zigbeeVars
        /\ UNCHANGED wifiVars /\ UNCHANGED radioVars /\ UNCHANGED configVars
        /\ UNCHANGED modulesVars
    BY <1>3 DEF DevicesNext, DeviceNext
  <2>2. Known(zigbee) = {} /\ ~pairingEnabled
    BY <1>3 DEF DevicesInv, Quiet
  <2>3. Quiet' /\ WiFiTypeOK'
    BY <1>3, <2>1, <2>2
       DEF DevicesInv, Quiet, WiFiTypeOK, zigbeeVars, wifiVars, Known
  <2>4. MeshInv' /\ ClockTypeOK'
    BY <2>1, MeshNextInv DEF DevicesInv
  <2>5. ZigbeeInv'
    BY <2>1, <2>2, ZigbeeStill DEF DevicesInv
  <2>6. QED
    BY <2>1, <2>3, <2>4, <2>5, ModulesNextInv, RadioStill, ConfigStill
       DEF DevicesInv
<1>4. CASE part \notin {"zigbee", "mesh"} /\ DevicesNext
  <2>1. /\ UNCHANGED part /\ UNCHANGED zigbeeVars /\ UNCHANGED meshVars
        /\ \/ WiFiNext
           \/ UNCHANGED clockVars /\ UNCHANGED wifiVars
        /\ RadioNext \/ UNCHANGED radioVars
        /\ ConfigNext \/ UNCHANGED configVars
        /\ ModulesNext \/ UNCHANGED modulesVars
    BY <1>4 DEF DevicesNext, DeviceNext, deviceVars
  <2>2. /\ Known(zigbee) = {} /\ ~pairingEnabled
        /\ Known(legacyDevices) = {}
    BY <1>4 DEF DevicesInv, Quiet
  <2>3. Quiet'
    BY <2>1, <2>2 DEF Quiet, zigbeeVars, meshVars, Known
  <2>4. WiFiTypeOK' /\ ClockTypeOK'
    BY <2>1, WiFiNextInv
       DEF DevicesInv, WiFiTypeOK, ClockTypeOK, wifiVars, clockVars
  <2>5. ZigbeeInv' /\ MeshInv'
    BY <2>1, <2>2, ZigbeeStill, MeshStill DEF DevicesInv
  <2>6. RadioInv' /\ ConfigInv' /\ files' \in [File -> Content]
    BY <2>1, RadioNextInv, ConfigNextInv, ConfigStill, FilesNext DEF DevicesInv
  <2>7. QED
    BY <2>1, <2>3, <2>4, <2>5, <2>6, ModulesNextInv DEF DevicesInv
<1>5. QED BY <1>1, <1>2, <1>3, <1>4

LEMMA DevicesInvImplies ==
  ASSUME DevicesInv
  PROVE  /\ DevicesTypeOK /\ OnlineIsRight /\ PairingEnds /\ ShowsTheSwitch
         /\ KnownIsInitialised /\ RunningIsEnabled
<1>1. DevicesTypeOK
  BY DEF DevicesInv, DevicesTypeOK, ModulesInv, ZigbeeInv, MeshInv, RadioInv, ConfigInv,
         ConfigTypeOK, Doc, Content
<1>2. /\ OfflineTimeout \in Nat /\ MaxGap \in Nat /\ late \in 0 .. MaxGap
      /\ MaxAge \in Nat /\ Wrap \in Nat /\ millis \in 0 .. Wrap - 1
  BY ClockTypes DEF DevicesInv
<1>3. ZigbeeRecent
  <2>1. SUFFICES ASSUME NEW d \in Known(zigbee), zigbee[d].isOnline,
                        zigbee[d].lastSeen > 0
                 PROVE  heard[d] <= OfflineTimeout + MaxGap
    BY DEF ZigbeeRecent
  <2>2. d \in ZigbeeDevice /\ zigbee[d] # NoDevice /\ heard[d] \in 0 .. MaxAge
    BY DEF DevicesInv, ZigbeeInv, ZigbeeTypeOK, Known, Table
  <2>3. heard[d] <= OfflineTimeout + late
    BY <2>1, <2>2 DEF DevicesInv, ZigbeeInv, ZigbeeHeard
  <2>4. QED BY <1>2, <2>2, <2>3
<1>4. ASSUME NEW n \in Known(legacyDevices)
      PROVE  /\ legacyDevices[n].isOnline => said[n] <= OfflineTimeout + MaxGap
             /\ said[n] <= OfflineTimeout => legacyDevices[n].isOnline
  <2>1. n \in Node /\ legacyDevices[n] # NoDevice /\ said[n] \in 0 .. MaxAge
    BY DEF DevicesInv, MeshInv, MeshTypeOK, Known, Table
  <2>2. MeshSaid(n)
    BY <2>1 DEF DevicesInv, MeshInv
  <2>3. QED BY <1>2, <2>1, <2>2 DEF MeshSaid
<1>5. OnlineIsRight
  BY <1>3, <1>4 DEF OnlineIsRight, MeshRecent, MeshKeptOnline
<1>6. PairingEnds
  <2>1. SUFFICES ASSUME pairingEnabled, pairingEndTime + MaxGap < Wrap
                 PROVE  pairing.age <= pairing.duration + MaxGap
    BY DEF PairingEnds
  <2>2. /\ pairing.age \in 0 .. MaxAge /\ pairing.duration \in Nat
        /\ pairingEndTime \in 0 .. Wrap - 1
    BY ZigbeeTypes DEF DevicesInv, ZigbeeInv
  <2>3. \/ pairing.age + Left <= pairing.duration
        \/ /\ millis <= pairingEndTime + late
           /\ pairing.age <= pairing.duration + (millis - pairingEndTime)
    BY <2>1 DEF DevicesInv, ZigbeeInv, WindowInv
  <2>4. Left \in Nat
    BY <1>2, <2>2 DEF Left
  <2>5. QED BY <1>2, <2>2, <2>3, <2>4
<1>7. ShowsTheSwitch /\ KnownIsInitialised /\ RunningIsEnabled
  BY DEF DevicesInv, ModulesInv, RadioInv, ShowsTheSwitch, Switches, Followed, ConfigInv
<1>8. QED BY <1>1, <1>5, <1>6, <1>7

(* The tables of the protocol managers, DeviceConfigManager's documents    *)
(* and files, and millis(): every device, code, document and file holds    *)
(* what it may hold, in every behaviour of all the managers.               *)
THEOREM DevicesTypeCorrect == DevicesSpec => []DevicesTypeOK
<1>1. DevicesInv => DevicesTypeOK
  BY DevicesInvImplies
<1>2. QED
  BY DevicesInitInv, DevicesNextInv, <1>1, PTL DEF DevicesSpec

(* ZigbeeManager::loop and MeshDeviceManager::checkOfflineDevices: nobody  *)
(* is shown online who has been silent longer than the timeout and a round *)
(* of the loop, and a node that is not silent is shown online.             *)
THEOREM OnlineMeansHeard == DevicesSpec => []OnlineIsRight
<1>1. DevicesInv => OnlineIsRight
  BY DevicesInvImplies
<1>2. QED
  BY DevicesInitInv, DevicesNextInv, <1>1, PTL DEF DevicesSpec

(* ZigbeeManager::enablePairing and loop: strangers may join no longer     *)
(* than the duration asked for and a round of the loop.                    *)
THEOREM WindowsEnd == DevicesSpec => []PairingEnds
<1>1. DevicesInv => PairingEnds
  BY DevicesInvImplies
<1>2. QED
  BY DevicesInitInv, DevicesNextInv, <1>1, PTL DEF DevicesSpec

(* RF433Manager and DeviceConfigManager, beside the other kinds: the state *)
(* reported of a switch is the one it is in, and every device in memory is *)
(* one that some protocol manager was told of.                             *)
THEOREM SwitchesAndDocuments ==
  DevicesSpec => [](ShowsTheSwitch /\ KnownIsInitialised)
<1>1. DevicesInv => ShowsTheSwitch /\ KnownIsInitialised
  BY DevicesInvImplies
<1>2. QED
  BY DevicesInitInv, DevicesNextInv, <1>1, PTL DEF DevicesSpec

(* ZigbeeManager: a device that keeps talking is not shown offline; it     *)
(* takes a silence longer than the timeout, whatever millis() does         *)
(* meanwhile, the bridge going away, or a new configuration.               *)
THEOREM TalkersStayOnline == DevicesSpec => ZigbeeKeptOnline
<1>1. ASSUME DevicesInv, [DevicesNext]_devicesVars
      PROVE  [\A d \in ZigbeeDevice :
                ZigbeeDropped(d) =>
                  \/ heard[d] > OfflineTimeout
                  \/ bridgeOnline /\ ~bridgeOnline'
                  \/ zigbee[d]' \in {NoDevice, Seen(FALSE, 0)}
             ]_<<zigbeeVars, clockVars>>
  <2>1. SUFFICES ASSUME NEW d \in ZigbeeDevice, ZigbeeDropped(d)
                 PROVE  \/ heard[d] > OfflineTimeout
                        \/ bridgeOnline /\ ~bridgeOnline'
                        \/ zigbee[d]' \in {NoDevice, Seen(FALSE, 0)}
    OBVIOUS
  <2>2. zigbee' # zigbee
    BY <2>1 DEF ZigbeeDropped
  <2>3. ZigbeeNext
    BY <1>1, <2>2
       DEF DevicesNext, DeviceNext, devicesVars, deviceVars, zigbeeVars
  <2>4. QED BY <1>1, <2>1, <2>3, ZigbeeDrops DEF DevicesInv
<1>2. QED
  BY DevicesInitInv, DevicesNextInv, <1>1, PTL DEF DevicesSpec, ZigbeeKeptOnline
==============================================================================
