----------------------------- MODULE LocalIOProofs ---------------------------
(***************************************************************************)
(* The local I/O manager, for any pins, configurations, mappings, counter  *)
(* units and clocks: no pulse is lost, lasting levels are shown and others *)
(* are not, and each round leaves the program and its pins in agreement.   *)
(***************************************************************************)
EXTENDS LocalIO, FiniteSetTheorems, WellFoundedInduction, TLAPS

(* Induction over the numbers, as far as a set can say what is proved.     *)
LEMMA LeastNatural ==
  ASSUME NEW S \in SUBSET Nat, S # {}
  PROVE  \E n \in S : \A m \in S : n <= m
<1> DEFINE R == {mn \in Nat \X Nat : mn[1] < mn[2]}
<1>1. IsWellFoundedOn(R, Nat)
  BY NatLessThanWellFounded, Zenon DEF OpToRel
<1>2. \A m, n \in Nat : m < n => <<m, n>> \in R
  OBVIOUS
<1> HIDE DEF R
<1>3. PICK n \in S : \A m \in S : <<m, n>> \notin R
  BY <1>1, WFMin
<1>4. \A m \in S : ~(m < n)
  BY <1>2, <1>3
<1>5. QED BY <1>3, <1>4

LEMMA SetInduction ==
  ASSUME NEW T, 0 \in T, \A n \in Nat : n \in T => n + 1 \in T
  PROVE  \A n \in Nat : n \in T
<1> DEFINE S == Nat \ T
<1>1. SUFFICES ASSUME S # {}
               PROVE  FALSE
  OBVIOUS
<1>2. PICK n \in S : \A m \in S : n <= m
  <2> HIDE DEF S
  <2>1. S \in SUBSET Nat
    BY DEF S
  <2>2. QED BY <1>1, <2>1, LeastNatural
<1>3. n \in Nat /\ n # 0 /\ n - 1 \in Nat
  BY <1>2
<1>4. n - 1 \notin S
  BY <1>2, <1>3
<1>5. QED BY <1>2, <1>3, <1>4

(* A function that is defined from its value at the number before exists,  *)
(* so that the one that is chosen is one.                                  *)
Steps(f, N, b, step) ==
  f[0] = b /\ \A n \in 1 .. N : f[n] = step[<<f[n - 1], n>>]

LEMMA Iteration ==
  ASSUME NEW A, NEW N \in Nat, NEW b \in A,
         NEW step \in [A \X (1 .. N) -> A]
  PROVE  \E f \in [0 .. N -> A] : Steps(f, N, b, step)
<1> DEFINE T == {n \in Nat :
                   n <= N => \E f \in [0 .. n -> A] : Steps(f, n, b, step)}
<1>1. 0 \in T
  <2>1. [i \in 0 .. 0 |-> b] \in [0 .. 0 -> A]
    OBVIOUS
  <2>2. Steps([i \in 0 .. 0 |-> b], 0, b, step)
    BY DEF Steps
  <2>3. QED BY <2>1, <2>2
<1>2. ASSUME NEW n \in Nat, n \in T
      PROVE  n + 1 \in T
  <2>1. SUFFICES ASSUME n + 1 <= N
                 PROVE  \E f \in [0 .. n + 1 -> A] : Steps(f, n + 1, b, step)
    OBVIOUS
  <2>2. PICK f \in [0 .. n -> A] : Steps(f, n, b, step)
    BY <1>2, <2>1
  <2> DEFINE last == step[<<f[n], n + 1>>]
             g == [i \in 0 .. n + 1 |-> IF i = n + 1 THEN last ELSE f[i]]
  <2>3. last \in A
    <3>1. <<f[n], n + 1>> \in A \X (1 .. N)
      BY <2>1
    <3>2. QED BY <3>1
  <2> HIDE DEF last
  <2>4. g \in [0 .. n + 1 -> A]
    BY <2>3
  <2>5. g[0] = b
    BY <2>2 DEF Steps
  <2>6. ASSUME NEW i \in 1 .. n + 1
        PROVE  g[i] = step[<<g[i - 1], i>>]
    <3>1. g[i - 1] = f[i - 1]
      OBVIOUS
    <3>2. CASE i = n + 1
      <4>1. g[i] = last /\ i - 1 = n
        BY <3>2
      <4>2. QED BY <3>1, <3>2, <4>1 DEF last
    <3>3. CASE i # n + 1
      <4>1. i \in 1 .. n /\ g[i] = f[i]
        BY <3>3
      <4>2. QED BY <2>2, <3>1, <4>1 DEF Steps
    <3>4. QED BY <3>2, <3>3
  <2>7. Steps(g, n + 1, b, step)
    BY <2>5, <2>6 DEF Steps
  <2>8. QED BY <2>4, <2>7
<1>3. N \in T
  <2> HIDE DEF T
  <2> QED BY <1>1, <1>2, SetInduction
<1>4. QED BY <1>3

(* A total is what adding the samples one by one makes of it.              *)
LEMMA TotalAdds ==
  ASSUME NEW N \in Nat, NEW samples \in [1 .. N -> Nat]
  PROVE  \E sum \in [0 .. N -> Nat] :
           /\ Total(samples) = sum[N]
           /\ sum[0] = 0
           /\ \A n \in 1 .. N : sum[n] = sum[n - 1] + samples[n]
<1> DEFINE sum == CHOOSE f : f = [n \in 0 .. Len(samples) |->
                                    IF n = 0 THEN 0
                                             ELSE f[n - 1] + samples[n]]
           step == [x \in Nat \X (1 .. N) |-> x[1] + samples[x[2]]]
<1>1. Len(samples) = N
  OBVIOUS
<1>2. step \in [Nat \X (1 .. N) -> Nat]
  OBVIOUS
<1>3. PICK f \in [0 .. N -> Nat] : Steps(f, N, 0, step)
  <2> HIDE DEF step
  <2> QED BY <1>2, Iteration
<1>4. f = [n \in 0 .. Len(samples) |-> IF n = 0 THEN 0
                                       ELSE f[n - 1] + samples[n]]
  <2>1. ASSUME NEW n \in 0 .. N
        PROVE  f[n] = IF n = 0 THEN 0 ELSE f[n - 1] + samples[n]
    <3>1. CASE n = 0
      BY <1>3, <3>1 DEF Steps
    <3>2. CASE n # 0
      <4>1. n \in 1 .. N /\ f[n - 1] \in Nat
        BY <3>2
      <4>2. f[n] = step[<<f[n - 1], n>>] /\ <<f[n - 1], n>> \in Nat \X (1 .. N)
        BY <1>3, <4>1 DEF Steps
      <4>3. QED BY <3>2, <4>2
    <3>3. QED BY <3>1, <3>2
  <2>2. QED BY <1>1, <2>1
<1>5. sum = [n \in 0 .. Len(samples) |-> IF n = 0 THEN 0
                                         ELSE sum[n - 1] + samples[n]]
  BY <1>4
<1>6. Total(samples) = sum[Len(samples)]
  BY DEF Total
<1> HIDE DEF sum
<1>7. /\ sum = [n \in 0 .. N |-> IF n = 0 THEN 0
                                 ELSE sum[n - 1] + samples[n]]
      /\ Total(samples) = sum[N]
  BY <1>1, <1>5, <1>6
<1> DEFINE T == {n \in Nat : n <= N => sum[n] \in Nat}
<1>8. \A n \in Nat : n \in T
  <2>1. 0 \in T
    BY <1>7
  <2>2. ASSUME NEW n \in Nat, n \in T
        PROVE  n + 1 \in T
    <3>1. SUFFICES ASSUME n + 1 <= N
                   PROVE  sum[n + 1] \in Nat
      OBVIOUS
    <3>2. n \in 0 .. N /\ n + 1 \in 1 .. N /\ n + 1 - 1 = n
      BY <3>1
    <3>3. sum[n + 1] = sum[n] + samples[n + 1]
      BY <1>7, <3>2
    <3>4. QED BY <2>2, <3>2, <3>3
  <2>3. QED
    <3> HIDE DEF T
    <3> QED BY <2>1, <2>2, SetInduction
<1>9. sum \in [0 .. N -> Nat]
  <2>1. \A n \in 0 .. N : sum[n] \in Nat
    BY <1>8
  <2>2. sum = [n \in 0 .. N |-> sum[n]]
    BY <1>7
  <2>3. QED BY <2>1, <2>2
<1>10. /\ sum[0] = 0
       /\ \A n \in 1 .. N : sum[n] = sum[n - 1] + samples[n]
  BY <1>7
<1>11. QED
  BY <1>7, <1>9, <1>10

LEMMA AverageBounded ==
  ASSUME NEW M \in Nat, NEW N \in Nat \ {0}, NEW samples \in [1 .. N -> 0 .. M]
  PROVE  Total(samples) \div N \in 0 .. M
<1>1. PICK sum \in [0 .. N -> Nat] :
        /\ Total(samples) = sum[N]
        /\ sum[0] = 0
        /\ \A n \in 1 .. N : sum[n] = sum[n - 1] + samples[n]
  <2>1. samples \in [1 .. N -> Nat]
    OBVIOUS
  <2>2. QED BY <2>1, TotalAdds
<1> DEFINE T == {n \in Nat : n <= N => sum[n] <= n * M}
<1>2. \A n \in Nat : n \in T
  <2>1. 0 \in T
    BY <1>1
  <2>2. ASSUME NEW n \in Nat, n \in T
        PROVE  n + 1 \in T
    <3>1. SUFFICES ASSUME n + 1 <= N
                   PROVE  sum[n + 1] <= (n + 1) * M
      OBVIOUS
    <3>2. n \in 0 .. N /\ n + 1 \in 1 .. N /\ n + 1 - 1 = n
      BY <3>1
    <3>3. sum[n + 1] = sum[n] + samples[n + 1] /\ samples[n + 1] \in 0 .. M
      BY <1>1, <3>2
    <3>4. sum[n] <= n * M /\ sum[n] \in Nat
      BY <2>2, <3>2
    <3>5. (n + 1) * M = n * M + M
      OBVIOUS
    <3> DEFINE a == n * M
    <3>6. a \in Nat
      OBVIOUS
    <3> HIDE DEF a
    <3>7. sum[n] <= a
      BY <3>4 DEF a
    <3>8. sum[n + 1] <= a + M
      BY <3>3, <3>4, <3>6, <3>7
    <3>9. QED BY <3>5, <3>8 DEF a
  <2>3. QED
    <3> HIDE DEF T
    <3> QED BY <2>1, <2>2, SetInduction
<1>3. Total(samples) \in Nat /\ Total(samples) <= N * M
  BY <1>1, <1>2
<1> DEFINE total == Total(samples)
           q == total \div N
<1> HIDE DEF total
<1>4. total \in Nat /\ total <= N * M
  BY <1>3 DEF total
<1>5. q \in Int /\ N * q <= total /\ total < N * q + N
  BY <1>4
<1> HIDE DEF q
<1>6. q >= 0
  <2>1. SUFFICES ASSUME q <= -1
                 PROVE  FALSE
    BY <1>5
  <2>2. N * (q + 1) <= 0
    BY <1>5, <2>1
  <2>3. N * (q + 1) = N * q + N
    BY <1>5
  <2>4. N * q \in Int
    BY <1>5
  <2>5. QED BY <1>4, <1>5, <2>2, <2>3, <2>4
<1>7. q <= M
  <2>1. SUFFICES ASSUME q >= M + 1
                 PROVE  FALSE
    BY <1>5
  <2>2. N * q >= N * (M + 1)
    BY <1>5, <2>1
  <2>3. N * (M + 1) = N * M + N
    OBVIOUS
  <2>4. N * M \in Int /\ N * q \in Int
    BY <1>5
  <2>5. QED BY <1>4, <1>5, <2>2, <2>3, <2>4
<1>8. QED BY <1>5, <1>6, <1>7 DEF q, total

------------------------------------------------------------------------------
(* What the kind of a pin says of its configuration.                       *)
LEMMA Configs ==
  ASSUME NEW p \in Name
  PROVE  /\ kind(p) \in {"input", "output", "analog", "pwm", "counter"}
         /\ kind(p) = "input" =>
              /\ PinConfig[p].invert \in BOOLEAN
              /\ PinConfig[p].debounceMs \in Nat
              /\ PinConfig[p].filterSamples \in Nat
              /\ PinConfig[p].debounceMs + MaxGap < Clock
         /\ kind(p) = "output" => /\ PinConfig[p].initialState \in BOOLEAN
                                  /\ PinConfig[p].safeState \in BOOLEAN
         /\ kind(p) = "analog" => PinConfig[p].filterSamples \in Nat
         /\ kind(p) = "counter" => PinConfig[p].sampleWindowMs \in Nat \ {0}
<1> DEFINE c == PinConfig[p]
<1>1. \/ c \in DigitalInputConfig \/ c \in DigitalOutputConfig
      \/ c \in AnalogInputConfig \/ c \in PWMOutputConfig
      \/ c \in PulseCounterConfig
  BY PinsAssumption
<1>2. c \in DigitalInputConfig => c.debounceMs + MaxGap < Clock
  BY LocalIOAssumption
<1> HIDE DEF c
<1>3. CASE c \in DigitalInputConfig
  BY <1>2, <1>3 DEF DigitalInputConfig, kind, c
<1>4. CASE c \in DigitalOutputConfig
  BY <1>4 DEF DigitalOutputConfig, kind, c
<1>5. CASE c \in AnalogInputConfig
  BY <1>5 DEF AnalogInputConfig, kind, c
<1>6. CASE c \in PWMOutputConfig
  BY <1>6 DEF PWMOutputConfig, kind, c
<1>7. CASE c \in PulseCounterConfig
  BY <1>7 DEF PulseCounterConfig, kind, c
<1>8. QED BY <1>1, <1>3, <1>4, <1>5, <1>6, <1>7

(* Times that wrap.                                                        *)
LEMMA Lap ==
  ASSUME NEW N \in Nat \ {0}, NEW x \in -(N - 1) .. N
  PROVE  x % N = IF x < 0 THEN x + N ELSE IF x < N THEN x ELSE 0
OBVIOUS

LEMMA Laps ==
  ASSUME NEW m \in Time, NEW t \in Time
  PROVE  /\ Elapsed(m, t) = IF t <= m THEN m - t ELSE m - t + Clock
         /\ Elapsed(m, t) \in 0 .. Clock - 1
         /\ Elapsed(m, m) = 0
<1>1. Clock \in Nat \ {0} /\ m \in 0 .. Clock - 1 /\ t \in 0 .. Clock - 1
  BY PinsAssumption DEF Time
<1> DEFINE x == m - t
<1>2. x \in -(Clock - 1) .. Clock /\ (x < 0 <=> ~(t <= m)) /\ x < Clock
  BY <1>1
<1>3. x % Clock = IF x < 0 THEN x + Clock ELSE IF x < Clock THEN x ELSE 0
  <2> HIDE DEF x
  <2> QED BY <1>1, <1>2, Lap
<1>4. Elapsed(m, t) = IF t <= m THEN m - t ELSE m - t + Clock
  BY <1>2, <1>3 DEF Elapsed
<1>5. Elapsed(m, m) = 0
  <2>1. m - m = 0 /\ 0 \in -(Clock - 1) .. Clock
    BY <1>1
  <2>2. 0 % Clock = 0
    BY <1>1, <2>1, Lap
  <2>3. QED BY <2>1, <2>2 DEF Elapsed
<1>6. QED BY <1>1, <1>4, <1>5

(* One tick makes every time a tick longer, or a whole lap short.          *)
LEMMA LapsTick ==
  ASSUME NEW m \in Time, NEW t \in Time
  PROVE  /\ (m + 1) % Clock \in Time
         /\ Elapsed((m + 1) % Clock, t) =
              IF Elapsed(m, t) = Clock - 1 THEN 0 ELSE Elapsed(m, t) + 1
<1>1. Clock \in Nat \ {0} /\ m \in 0 .. Clock - 1 /\ t \in 0 .. Clock - 1
  BY PinsAssumption DEF Time
<1> DEFINE x == m + 1
           n == x % Clock
<1>2. x \in -(Clock - 1) .. Clock /\ x \in 1 .. Clock
  BY <1>1
<1>3. n = IF x < 0 THEN x + Clock ELSE IF x < Clock THEN x ELSE 0
  <2> HIDE DEF x
  <2> QED BY <1>1, <1>2, Lap
<1>4. n = (IF m + 1 < Clock THEN m + 1 ELSE 0) /\ n \in Time
  BY <1>1, <1>2, <1>3 DEF Time
<1> HIDE DEF n
<1>5. Elapsed(m, t) = IF t <= m THEN m - t ELSE m - t + Clock
  BY Laps
<1>6. Elapsed(n, t) = IF t <= n THEN n - t ELSE n - t + Clock
  BY <1>4, Laps
<1>7. Elapsed(n, t) = IF Elapsed(m, t) = Clock - 1 THEN 0
                                                  ELSE Elapsed(m, t) + 1
  BY <1>1, <1>4, <1>5, <1>6
<1>8. QED BY <1>4, <1>7 DEF n

LEMMA TheSmaller ==
  ASSUME NEW m \in Int, NEW n \in Int
  PROVE  /\ Smaller(m, n) \in {m, n}
         /\ Smaller(m, n) <= m /\ Smaller(m, n) <= n
BY DEF Smaller
------------------------------------------------------------------------------
(* The last k samples of a buffer are x.                                   *)
Ends(buffer, k, x) ==
  /\ k <= Len(buffer)
  /\ \A i \in 1 .. Len(buffer) : i > Len(buffer) - k => buffer[i] = x

LEMMA Buffers ==
  ASSUME NEW S, NEW N \in Nat, NEW buffer \in BoundedSeq(S, N)
  PROVE  /\ Len(buffer) \in 0 .. N /\ buffer \in [1 .. Len(buffer) -> S]
         /\ buffer \in Seq(S) /\ DOMAIN buffer = 1 .. Len(buffer)
<1>1. PICK m \in 0 .. N : buffer \in [1 .. m -> S]
  BY DEF BoundedSeq, SeqOf
<1>2. Len(buffer) = m /\ buffer \in Seq(S)
  BY <1>1
<1>3. QED BY <1>1, <1>2

LEMMA Bounded ==
  ASSUME NEW S, NEW N \in Nat, NEW buffer \in Seq(S), Len(buffer) <= N
  PROVE  buffer \in BoundedSeq(S, N)
<1>1. Len(buffer) \in 0 .. N /\ buffer \in [1 .. Len(buffer) -> S]
  OBVIOUS
<1>2. QED BY <1>1 DEF BoundedSeq, SeqOf

LEMMA NoSamples ==
  ASSUME NEW S, NEW N \in Nat
  PROVE  << >> \in BoundedSeq(S, N)
<1>1. << >> \in Seq(S) /\ Len(<< >>) <= N
  OBVIOUS
<1>2. QED BY <1>1, Bounded

LEMMA Appended ==
  ASSUME NEW S, NEW N \in Nat, NEW buffer \in BoundedSeq(S, N), NEW x \in S
  PROVE  /\ Append1(buffer, x, N) \in BoundedSeq(S, N)
         /\ N = 0 <=> Append1(buffer, x, N) = << >>
         /\ N > 0 => \A k \in Nat :
              /\ k = 0 \/ Ends(buffer, k, x)
              => Ends(Append1(buffer, x, N), Smaller(k + 1, N), x)
<1> DEFINE longer == Append(buffer, x)
           n == Len(buffer)
           r == Append1(buffer, x, N)
<1>1. n \in 0 .. N /\ buffer \in Seq(S) /\ buffer \in [1 .. n -> S]
  BY Buffers
<1>2. /\ longer \in Seq(S) /\ Len(longer) = n + 1
      /\ \A i \in 1 .. n + 1 : longer[i] = IF i = n + 1 THEN x ELSE buffer[i]
  BY <1>1
<1>r. r = IF Len(longer) > N THEN Tail(longer) ELSE longer
  BY DEF Append1
<1> HIDE DEF longer, r
<1>s. SUFFICES /\ r \in BoundedSeq(S, N)
               /\ N = 0 <=> r = << >>
               /\ N > 0 => \A k \in Nat :
                    /\ k = 0 \/ Ends(buffer, k, x)
                    => Ends(r, Smaller(k + 1, N), x)
  BY DEF r
<1>3. CASE n < N
  <2>1. r = longer
    BY <1>1, <1>2, <1>3, <1>r
  <2>2. r \in BoundedSeq(S, N) /\ N # 0 /\ r # << >>
    BY <1>1, <1>2, <1>3, <2>1, Bounded
  <2>3. ASSUME NEW k \in Nat, k = 0 \/ Ends(buffer, k, x)
        PROVE  Ends(r, Smaller(k + 1, N), x)
    <3>1. /\ k <= n
          /\ \A i \in 1 .. n : i > n - k => buffer[i] = x
      BY <1>1, <2>3 DEF Ends
    <3>2. Smaller(k + 1, N) = k + 1
      BY <1>1, <1>3, <3>1 DEF Smaller
    <3>3. \A i \in 1 .. n + 1 : i > (n + 1) - (k + 1) => longer[i] = x
      BY <1>1, <1>2, <3>1
    <3>4. QED BY <1>1, <1>2, <2>1, <3>1, <3>2, <3>3 DEF Ends
  <2>4. QED BY <2>2, <2>3
<1>4. CASE n = N
  <2>1. r = Tail(longer)
    BY <1>1, <1>2, <1>4, <1>r
  <2>2. /\ Tail(longer) \in Seq(S) /\ Len(Tail(longer)) = n
        /\ \A i \in 1 .. n : Tail(longer)[i] = longer[i + 1]
    BY <1>1, <1>2
  <2>3. r \in BoundedSeq(S, N) /\ (N = 0 <=> r = << >>)
    <3>1. r \in Seq(S) /\ Len(r) = n
      BY <2>1, <2>2
    <3>2. QED BY <1>1, <1>4, <3>1, Bounded
  <2>4. ASSUME NEW k \in Nat, k = 0 \/ Ends(buffer, k, x), N > 0
        PROVE  Ends(r, Smaller(k + 1, N), x)
    <3>1. /\ k <= n
          /\ \A i \in 1 .. n : i > n - k => buffer[i] = x
      BY <1>1, <2>4 DEF Ends
    <3>2. /\ Smaller(k + 1, N) \in Nat /\ Smaller(k + 1, N) <= n
          /\ Smaller(k + 1, N) <= k + 1
      BY <1>1, <1>4, <3>1 DEF Smaller
    <3>3. \A i \in 1 .. n : i > n - (k + 1) => Tail(longer)[i] = x
      <4>1. ASSUME NEW i \in 1 .. n, i > n - (k + 1)
            PROVE  Tail(longer)[i] = x
        <5>1. Tail(longer)[i] = longer[i + 1] /\ i + 1 \in 1 .. n + 1
          BY <1>1, <2>2
        <5>2. i + 1 # n + 1 => i + 1 \in 1 .. n /\ i + 1 > n - k
          BY <1>1, <4>1
        <5>3. QED BY <1>1, <1>2, <3>1, <5>1, <5>2
      <4>2. QED BY <4>1
    <3>4. \A i \in 1 .. n :
            i > n - Smaller(k + 1, N) => Tail(longer)[i] = x
      <4> DEFINE least == Smaller(k + 1, N)
      <4>1. least \in Nat /\ least <= k + 1
        BY <3>2
      <4> HIDE DEF least
      <4>2. \A i \in 1 .. n : i > n - least => i > n - (k + 1)
        BY <1>1, <4>1
      <4>3. QED BY <3>3, <4>2 DEF least
    <3>5. QED BY <2>1, <2>2, <3>2, <3>4 DEF Ends
  <2>5. QED BY <2>3, <2>4
<1>5. n < N \/ n = N
  <2>1. n \in 0 .. N
    BY <1>1
  <2> HIDE DEF n
  <2>2. QED BY <2>1
<1>6. QED BY <1>3, <1>4, <1>5, Zenon

------------------------------------------------------------------------------
(* Inputs: what a pin knows of what its samples have shown.                *)
Raw(p, l) == (l = 1) # PinConfig[p].invert
Sight(p) == [level : {0, 1}, age : 0 .. PinConfig[p].debounceMs,
             agreed : 0 .. Enough(p)]

Fits(p, pin, s, t, g) ==
  LET D == PinConfig[p].debounceMs
      N == PinConfig[p].filterSamples
      e == Elapsed(t, pin.lastDebounceTime)
  IN  /\ pin.lastRaw = Raw(p, s.level)
      /\ D > 0 /\ pin.lastDebounced # pin.lastRaw =>
           e < D + g /\ s.age = Smaller(e, D)
      /\ D > 0 /\ N = 0 => pin.value = pin.lastDebounced
      /\ N > 0 => Ends(pin.filter, s.agreed, Raw(p, s.level))
      /\ s.agreed = Enough(p) => pin.value = Raw(p, s.level)

(* The age of the level that this sample shows.                            *)
AgeOf(s, l) == IF l = s.level THEN s.age ELSE 0

LEMMA DebounceFits ==
  ASSUME NEW p \in Name, kind(p) = "input", NEW pin \in DigitalInput(p),
         NEW s \in Sight(p), NEW l \in {0, 1}, NEW t \in Time, NEW g \in Nat,
         Fits(p, pin, s, t, g)
  PROVE  LET D == PinConfig[p].debounceMs
             d == Debounce(p, pin, Raw(p, l), t)
             e == Elapsed(t, d.lastDebounceTime)
         IN  /\ d \in DigitalInput(p)
             /\ d.filter = pin.filter /\ d.value = pin.value
             /\ d.lastRaw = Raw(p, l)
             /\ D > 0 /\ d.lastDebounced # Raw(p, l) =>
                  e < D /\ AgeOf(s, l) = e
             /\ D > 0 /\ AgeOf(s, l) >= D => d.lastDebounced = Raw(p, l)
             /\ D > 0 /\ d.lastDebounced # pin.lastDebounced =>
                  AgeOf(s, l) >= D
<1> DEFINE D == PinConfig[p].debounceMs
           raw == Raw(p, l)
           since == IF raw # pin.lastRaw THEN t ELSE pin.lastDebounceTime
           shown == IF Elapsed(t, since) >= D THEN raw ELSE pin.lastDebounced
           d == Debounce(p, pin, raw, t)
           age == AgeOf(s, l)
<1>1. /\ D \in Nat /\ raw \in BOOLEAN
      /\ pin.lastRaw \in BOOLEAN /\ pin.lastDebounced \in BOOLEAN
      /\ pin.lastDebounceTime \in Time
      /\ s.level \in {0, 1} /\ s.age \in 0 .. D
  BY Configs DEF Raw, DigitalInput, Sight
<1>2. /\ pin.lastRaw = Raw(p, s.level)
      /\ D > 0 /\ pin.lastDebounced # pin.lastRaw =>
           s.age = Smaller(Elapsed(t, pin.lastDebounceTime), D)
  BY DEF Fits
<1>3. raw = pin.lastRaw <=> l = s.level
  <2>1. PinConfig[p].invert \in BOOLEAN
    BY Configs
  <2>2. QED BY <1>1, <1>2, <2>1 DEF Raw
<1>4. /\ D = 0 => d = [pin EXCEPT !.lastRaw = raw]
      /\ D > 0 => d = [pin EXCEPT !.lastRaw = raw, !.lastDebounceTime = since,
                                  !.lastDebounced = shown]
  BY <1>1 DEF Debounce
<1>5. since \in Time /\ shown \in BOOLEAN
  BY <1>1
<1>6. /\ Elapsed(t, since) \in Nat
      /\ raw # pin.lastRaw => Elapsed(t, since) = 0
  BY <1>1, <1>5, Laps
<1>7. age = IF raw = pin.lastRaw THEN s.age ELSE 0
  BY <1>3 DEF AgeOf
<1>8. D > 0 /\ shown # raw =>
        Elapsed(t, since) < D /\ age = Elapsed(t, since)
  <2>1. SUFFICES ASSUME D > 0, shown # raw
                 PROVE  Elapsed(t, since) < D /\ age = Elapsed(t, since)
    OBVIOUS
  <2>2. Elapsed(t, since) < D /\ pin.lastDebounced # raw
    BY <1>1, <1>6, <2>1
  <2>3. CASE raw # pin.lastRaw
    BY <1>6, <1>7, <2>2, <2>3
  <2>4. CASE raw = pin.lastRaw
    <3>1. s.age = Smaller(Elapsed(t, since), D) /\ age = s.age
      BY <1>2, <1>7, <2>1, <2>2, <2>4
    <3>2. QED
      <4> DEFINE e == Elapsed(t, since)
      <4>1. e \in Nat /\ e < D /\ age = Smaller(e, D)
        BY <1>6, <2>2, <3>1
      <4> HIDE DEF e, age
      <4>2. age = e
        BY <1>1, <4>1 DEF Smaller
      <4>3. QED BY <4>1, <4>2 DEF e
  <2>5. QED BY <2>3, <2>4
<1>9. D > 0 /\ age >= D => shown = raw
  BY <1>1, <1>6, <1>8
<1>10. D > 0 /\ shown # pin.lastDebounced => age >= D
  <2>1. SUFFICES ASSUME D > 0, shown # pin.lastDebounced
                 PROVE  age >= D
    OBVIOUS
  <2>2. Elapsed(t, since) >= D /\ raw # pin.lastDebounced
    BY <2>1
  <2>3. raw = pin.lastRaw
    BY <1>1, <1>6, <2>1, <2>2
  <2>4. s.age = Smaller(Elapsed(t, since), D) /\ age = s.age
    BY <1>2, <1>7, <2>1, <2>2, <2>3
  <2>5. QED
    BY <1>1, <1>6, <2>2, <2>4 DEF Smaller
<1> HIDE DEF since, shown, D, raw, age, d
<1>11. d \in DigitalInput(p)
  <2>1. pin \in DigitalInput(p)
    OBVIOUS
  <2>2. CASE D = 0
    BY <1>1, <1>4, <2>1, <2>2 DEF DigitalInput
  <2>3. CASE D > 0
    BY <1>1, <1>4, <1>5, <2>1, <2>3 DEF DigitalInput
  <2>4. QED BY <1>1, <2>2, <2>3
<1>12. d.filter = pin.filter /\ d.value = pin.value /\ d.lastRaw = raw
  <2>1. CASE D = 0
    BY <1>1, <1>4, <2>1 DEF DigitalInput
  <2>2. CASE D > 0
    BY <1>1, <1>4, <2>2 DEF DigitalInput
  <2>3. QED BY <1>1, <2>1, <2>2
<1>13. D > 0 => d.lastDebounced = shown /\ d.lastDebounceTime = since
  BY <1>4 DEF DigitalInput
<1>14. QED
  <2>1. /\ D > 0 /\ d.lastDebounced # raw =>
             /\ Elapsed(t, d.lastDebounceTime) < D
             /\ age = Elapsed(t, d.lastDebounceTime)
        /\ D > 0 /\ age >= D => d.lastDebounced = raw
        /\ D > 0 /\ d.lastDebounced # pin.lastDebounced => age >= D
    BY <1>8, <1>9, <1>10, <1>13
  <2>2. QED BY <1>11, <1>12, <2>1 DEF D, raw, age, d

LEMMA Majority ==
  ASSUME NEW N \in Nat \ {0}, NEW buffer \in BoundedSeq(BOOLEAN, N),
         NEW x \in BOOLEAN, Ends(buffer, N, x)
  PROVE  (Cardinality({i \in DOMAIN buffer : buffer[i]}) > N \div 2) = x
<1> DEFINE highs == {i \in DOMAIN buffer : buffer[i]}
<1>1. Len(buffer) = N /\ DOMAIN buffer = 1 .. N
  BY Buffers DEF Ends
<1>2. \A i \in 1 .. N : buffer[i] = x
  BY <1>1 DEF Ends
<1>3. N \div 2 \in Nat /\ N \div 2 < N
  OBVIOUS
<1>4. CASE x = TRUE
  <2>1. highs = 1 .. N
    BY <1>1, <1>2, <1>4
  <2>2. Cardinality(1 .. N) = N
    BY FS_Interval
  <2>3. QED BY <1>3, <1>4, <2>1, <2>2
<1>5. CASE x = FALSE
  <2>1. highs = {}
    BY <1>1, <1>2, <1>5
  <2>2. Cardinality({}) = 0
    BY FS_EmptySet
  <2>3. QED BY <1>3, <1>5, <2>1, <2>2
<1>6. QED BY <1>4, <1>5

LEMMA FilterFits ==
  ASSUME NEW p \in Name, kind(p) = "input", NEW pin \in DigitalInput(p),
         NEW x \in BOOLEAN
  PROVE  LET N == PinConfig[p].filterSamples
             f == Filter(p, pin, x)
         IN  /\ f \in DigitalInput(p)
             /\ f.lastRaw = pin.lastRaw
             /\ f.lastDebounced = pin.lastDebounced
             /\ f.lastDebounceTime = pin.lastDebounceTime
             /\ N = 0 => f.value = x
             /\ N > 0 /\ Ends(f.filter, N, x) => f.value = x
             /\ N > 0 => \A k \in Nat :
                  /\ k = 0 \/ Ends(pin.filter, k, x)
                  => Ends(f.filter, Smaller(k + 1, N), x)
<1> DEFINE N == PinConfig[p].filterSamples
           longer == Append1(pin.filter, x, N)
           high == Cardinality({i \in DOMAIN longer : longer[i]}) > N \div 2
           f == Filter(p, pin, x)
<1>1. N \in Nat
  BY Configs
<1>2. /\ pin.filter \in BoundedSeq(BOOLEAN, N) /\ pin.value \in BOOLEAN
      /\ pin.lastRaw \in BOOLEAN /\ pin.lastDebounced \in BOOLEAN
  BY DEF DigitalInput
<1>3. /\ longer \in BoundedSeq(BOOLEAN, N)
      /\ N > 0 => \A k \in Nat :
           /\ k = 0 \/ Ends(pin.filter, k, x)
           => Ends(longer, Smaller(k + 1, N), x)
  <2> DEFINE b == pin.filter
  <2>1. b \in BoundedSeq(BOOLEAN, N)
    BY <1>2
  <2> HIDE DEF b
  <2>2. /\ Append1(b, x, N) \in BoundedSeq(BOOLEAN, N)
        /\ N > 0 => \A k \in Nat :
             /\ k = 0 \/ Ends(b, k, x)
             => Ends(Append1(b, x, N), Smaller(k + 1, N), x)
    <3> HIDE DEF N
    <3> QED BY <1>1, <2>1, Appended
  <2>3. QED BY <2>2 DEF b
<1>4. N > 0 /\ Ends(longer, N, x) => high = x
  <2> HIDE DEF longer, N
  <2>1. SUFFICES ASSUME N > 0, Ends(longer, N, x)
                 PROVE  high = x
    OBVIOUS
  <2>2. N \in Nat \ {0} /\ longer \in BoundedSeq(BOOLEAN, N)
    BY <1>1, <1>3, <2>1
  <2>3. QED BY <2>1, <2>2, Majority
<1>5. /\ N = 0 => f = [pin EXCEPT !.value = x]
      /\ N > 0 => f = [pin EXCEPT !.filter = longer, !.value = high]
  BY <1>1 DEF Filter
<1>6. high \in BOOLEAN
  <2>1. (Cardinality({i \in DOMAIN longer : longer[i]}) > N \div 2)
          \in BOOLEAN
    OBVIOUS
  <2>2. QED BY <2>1
<1> HIDE DEF longer, high, N, f
<1>7. f \in DigitalInput(p)
  <2>1. CASE N = 0
    BY <1>5, <2>1 DEF DigitalInput
  <2>2. CASE N > 0
    BY <1>3, <1>5, <1>6, <2>2 DEF DigitalInput, N
  <2>3. QED BY <1>1, <2>1, <2>2
<1>8. /\ f.lastRaw = pin.lastRaw /\ f.lastDebounced = pin.lastDebounced
      /\ f.lastDebounceTime = pin.lastDebounceTime
  <2>1. CASE N = 0
    BY <1>5, <2>1 DEF DigitalInput
  <2>2. CASE N > 0
    BY <1>5, <2>2 DEF DigitalInput
  <2>3. QED BY <1>1, <2>1, <2>2
<1>9. N = 0 => f.value = x
  BY <1>5 DEF DigitalInput
<1>10. N > 0 => f.value = high /\ f.filter = longer
  BY <1>5 DEF DigitalInput
<1>11. /\ N > 0 /\ Ends(f.filter, N, x) => f.value = x
       /\ N > 0 => \A k \in Nat :
            /\ k = 0 \/ Ends(pin.filter, k, x)
            => Ends(f.filter, Smaller(k + 1, N), x)
  BY <1>3, <1>4, <1>10
<1>12. QED BY <1>7, <1>8, <1>9, <1>11 DEF N, f

(* A round: what the sample adds to the history and what the pin makes of  *)
(* it fit again.                                                           *)
LEMMA SampleFits ==
  ASSUME NEW p \in Name, kind(p) = "input", NEW pin \in DigitalInput(p),
         NEW s \in Sight(p), NEW l \in {0, 1}, NEW t \in Time, NEW g \in Nat,
         Fits(p, pin, s, t, g), NEW s2,
         s2 = LET settled == AgeOf(s, l) >= PinConfig[p].debounceMs
              IN  [level |-> l, age |-> AgeOf(s, l),
                   agreed |-> IF settled /\ l = s.level
                              THEN Smaller(s.agreed + 1, Enough(p))
                              ELSE IF settled THEN 1 ELSE 0]
  PROVE  LET f == UpdateDigitalInput(p, pin, l, t)
         IN  /\ f \in DigitalInput(p)
             /\ s2 \in Sight(p)
             /\ Fits(p, f, s2, t, 0)
             /\ PinConfig[p].filterSamples = 0 /\ f.value # pin.value =>
                  s2.age >= PinConfig[p].debounceMs
<1> DEFINE D == PinConfig[p].debounceMs
           N == PinConfig[p].filterSamples
           raw == Raw(p, l)
           d == Debounce(p, pin, raw, t)
           x == IF D = 0 THEN raw ELSE d.lastDebounced
           f == Filter(p, d, x)
           age == AgeOf(s, l)
           settled == age >= D
           agreed == IF settled /\ l = s.level
                     THEN Smaller(s.agreed + 1, Enough(p))
                     ELSE IF settled THEN 1 ELSE 0
           e == Elapsed(t, d.lastDebounceTime)
<1>1. /\ D \in Nat /\ N \in Nat /\ raw \in BOOLEAN
      /\ s.age \in 0 .. D /\ s.agreed \in 0 .. Enough(p)
      /\ Enough(p) = (IF N = 0 THEN 1 ELSE N)
  BY Configs DEF Raw, Sight, Enough
<1>2. UpdateDigitalInput(p, pin, l, t) = f
  BY DEF UpdateDigitalInput, Raw
<1>3. s2 = [level |-> l, age |-> age, agreed |-> agreed]
  OBVIOUS
<1>4. /\ d \in DigitalInput(p)
      /\ d.filter = pin.filter /\ d.value = pin.value
      /\ d.lastRaw = raw
      /\ D > 0 /\ d.lastDebounced # raw => e < D /\ age = e
      /\ D > 0 /\ age >= D => d.lastDebounced = raw
      /\ D > 0 /\ d.lastDebounced # pin.lastDebounced => age >= D
  BY DebounceFits
<1>5. x \in BOOLEAN
  BY <1>1, <1>4 DEF DigitalInput
<1>6. age \in 0 .. D
  BY <1>1 DEF AgeOf
<1>7. settled => x = raw
  BY <1>1, <1>4
<1>8. /\ N > 0 => Ends(pin.filter, s.agreed, Raw(p, s.level))
      /\ D > 0 /\ N = 0 => pin.value = pin.lastDebounced
  BY DEF Fits
<1>9. e \in Nat
  BY <1>4, Laps DEF DigitalInput
<1>10. agreed \in 0 .. Enough(p)
  <2> DEFINE E == Enough(p)
  <2>1. E \in Nat \ {0} /\ s.agreed \in 0 .. E
    BY <1>1
  <2> HIDE DEF E
  <2>2. Smaller(s.agreed + 1, E) \in 0 .. E
    BY <2>1 DEF Smaller
  <2>3. QED BY <2>1, <2>2 DEF E
<1> HIDE DEF D, N, raw, d, x, age
<1>11. /\ f \in DigitalInput(p)
       /\ f.lastRaw = d.lastRaw
       /\ f.lastDebounced = d.lastDebounced
       /\ f.lastDebounceTime = d.lastDebounceTime
       /\ N = 0 => f.value = x
       /\ N > 0 /\ Ends(f.filter, N, x) => f.value = x
       /\ N > 0 => \A k \in Nat :
            /\ k = 0 \/ Ends(d.filter, k, x)
            => Ends(f.filter, Smaller(k + 1, N), x)
  BY <1>4, <1>5, FilterFits DEF N
<1> HIDE DEF f, agreed, settled
<1>12. s2 \in Sight(p)
  BY <1>3, <1>6, <1>10 DEF Sight, D
<1>13. s2.level = l /\ s2.age = age /\ s2.agreed = agreed
  BY <1>3
<1>14. N > 0 => Ends(f.filter, agreed, raw)
  <2>1. SUFFICES ASSUME N > 0
                 PROVE  Ends(f.filter, agreed, raw)
    OBVIOUS
  <2>2. CASE settled /\ l = s.level
    <3>1. agreed = Smaller(s.agreed + 1, N)
      BY <1>1, <2>1, <2>2 DEF agreed
    <3>2. Ends(d.filter, s.agreed, x)
      BY <1>4, <1>7, <1>8, <2>1, <2>2 DEF raw
    <3>3. s.agreed \in Nat
      BY <1>1
    <3>4. QED BY <1>7, <1>11, <2>1, <2>2, <3>1, <3>2, <3>3
  <2>3. CASE settled /\ l # s.level
    <3>1. agreed = 1 /\ Smaller(0 + 1, N) = 1
      BY <1>1, <2>1, <2>3 DEF agreed, Smaller
    <3>2. Ends(f.filter, Smaller(0 + 1, N), x)
      BY <1>11, <2>1
    <3>3. QED BY <1>7, <2>3, <3>1, <3>2
  <2>4. CASE ~settled
    <3>1. agreed = 0
      BY <2>4 DEF agreed
    <3>2. Len(f.filter) \in Nat
      BY <1>1, <1>11, Buffers DEF DigitalInput, N
    <3>3. QED BY <3>1, <3>2 DEF Ends
  <2>5. QED BY <2>2, <2>3, <2>4
<1>15. agreed = Enough(p) => f.value = raw
  <2>1. SUFFICES ASSUME agreed = Enough(p)
                 PROVE  f.value = raw
    OBVIOUS
  <2>2. settled
    BY <1>1, <2>1 DEF agreed
  <2>3. CASE N = 0
    BY <1>7, <1>11, <2>2, <2>3
  <2>4. CASE N > 0
    BY <1>1, <1>7, <1>11, <1>14, <2>1, <2>2, <2>4
  <2>5. QED BY <1>1, <2>3, <2>4
<1>16. D > 0 /\ N = 0 => f.value = f.lastDebounced
  BY <1>1, <1>11 DEF x
<1>17. N = 0 /\ f.value # pin.value => age >= D
  <2>1. SUFFICES ASSUME N = 0, f.value # pin.value, D > 0
                 PROVE  age >= D
    BY <1>1, <1>6
  <2>2. f.value = d.lastDebounced /\ pin.value = pin.lastDebounced
    BY <1>1, <1>8, <1>11, <2>1 DEF x
  <2>3. QED BY <1>4, <2>1, <2>2
<1>18. D > 0 /\ f.lastDebounced # f.lastRaw =>
         /\ Elapsed(t, f.lastDebounceTime) < D + 0
         /\ age = Smaller(Elapsed(t, f.lastDebounceTime), D)
  <2>1. SUFFICES ASSUME D > 0, f.lastDebounced # f.lastRaw
                 PROVE  e < D + 0 /\ age = Smaller(e, D)
    BY <1>11
  <2>2. e < D /\ age = e
    BY <1>4, <1>11, <2>1
  <2> HIDE DEF e
  <2>3. QED BY <1>1, <1>9, <2>2 DEF Smaller
<1>19. Fits(p, f, s2, t, 0)
  BY <1>4, <1>11, <1>13, <1>14, <1>15, <1>16, <1>18 DEF Fits, D, N, raw
<1>20. QED BY <1>2, <1>11, <1>12, <1>13, <1>17, <1>19 DEF D, N

LEMMA BeginFits ==
  ASSUME NEW p \in Name, kind(p) = "input", NEW l \in {0, 1}, NEW t \in Time,
         NEW g \in Nat, NEW s,
         s = [level |-> l, age |-> 0,
              agreed |-> IF PinConfig[p].debounceMs = 0 THEN 1 ELSE 0]
  PROVE  /\ BeginDigitalInput(p, l, t) \in DigitalInput(p)
         /\ s \in Sight(p)
         /\ Fits(p, BeginDigitalInput(p, l, t), s, t, g)
<1> DEFINE D == PinConfig[p].debounceMs
           N == PinConfig[p].filterSamples
           pin == [value |-> FALSE, lastRaw |-> FALSE, lastDebounced |-> FALSE,
                   lastDebounceTime |-> 0, filter |-> << >>]
           low == IF PinConfig[p].invert THEN 1 ELSE 0
           s0 == [level |-> low, age |-> 0, agreed |-> 0]
           f == UpdateDigitalInput(p, pin, l, t)
<1>1. /\ D \in Nat /\ N \in Nat /\ PinConfig[p].invert \in BOOLEAN
      /\ Enough(p) = (IF N = 0 THEN 1 ELSE N)
  BY Configs DEF Enough
<1>2. low \in {0, 1} /\ Raw(p, low) = FALSE
  BY <1>1 DEF Raw
<1>3. 0 \in Time
  BY PinsAssumption DEF Time
<1>4. << >> \in BoundedSeq(BOOLEAN, N)
  BY <1>1, NoSamples
<1>5. pin \in DigitalInput(p)
  <2> HIDE DEF N
  <2>1. N = PinConfig[p].filterSamples
    BY DEF N
  <2>2. QED BY <1>3, <1>4, <2>1 DEF DigitalInput
<1>6. s0 \in Sight(p)
  BY <1>1, <1>2 DEF Sight
<1>7. Ends(<< >>, 0, FALSE)
  BY DEF Ends
<1>8. Fits(p, pin, s0, t, 0)
  <2>1. s0.agreed = 0 /\ s0.level = low /\ 0 # Enough(p)
    BY <1>1
  <2>2. pin.lastRaw = FALSE /\ pin.lastDebounced = FALSE /\ pin.value = FALSE
        /\ pin.filter = << >>
    OBVIOUS
  <2> HIDE DEF pin, s0, low
  <2>3. QED BY <1>1, <1>2, <1>7, <2>1, <2>2 DEF Fits
<1>9. AgeOf(s0, l) = 0
  BY DEF AgeOf
<1>10. s = LET settled == AgeOf(s0, l) >= D
           IN  [level |-> l, age |-> AgeOf(s0, l),
                agreed |-> IF settled /\ l = s0.level
                           THEN Smaller(s0.agreed + 1, Enough(p))
                           ELSE IF settled THEN 1 ELSE 0]
  <2>1. Smaller(s0.agreed + 1, Enough(p)) = 1
    BY <1>1 DEF Smaller
  <2>2. (0 >= D) <=> (D = 0)
    BY <1>1
  <2> HIDE DEF s0, D
  <2>3. s = [level |-> l, age |-> 0, agreed |-> IF D = 0 THEN 1 ELSE 0]
    BY DEF D
  <2>4. QED BY <1>9, <2>1, <2>2, <2>3
<1> HIDE DEF pin, s0
<1>11. /\ f \in DigitalInput(p) /\ s \in Sight(p)
       /\ Fits(p, f, s, t, 0)
  BY <1>5, <1>6, <1>8, <1>10, SampleFits
<1>12. f = BeginDigitalInput(p, l, t)
  BY DEF BeginDigitalInput, pin
<1> HIDE DEF f, D, N
<1>13. Fits(p, f, s, t, g)
  <2> DEFINE e == Elapsed(t, f.lastDebounceTime)
  <2>1. e \in Nat
    BY <1>11, Laps DEF DigitalInput
  <2> HIDE DEF e
  <2>2. e < D + 0 => e < D + g
    BY <1>1, <2>1
  <2>3. QED BY <1>11, <2>2 DEF Fits, e, D
<1>14. QED BY <1>11, <1>12, <1>13

(* A tick between two rounds.                                              *)
LEMMA TickFits ==
  ASSUME NEW p \in Name, kind(p) = "input", NEW pin \in DigitalInput(p),
         NEW s \in Sight(p), NEW t \in Time, NEW g \in Nat, g < MaxGap,
         Fits(p, pin, s, t, g), NEW s2,
         s2 = [s EXCEPT !.age = Smaller(@ + 1, PinConfig[p].debounceMs)]
  PROVE  s2 \in Sight(p) /\ Fits(p, pin, s2, (t + 1) % Clock, g + 1)
<1> DEFINE D == PinConfig[p].debounceMs
           N == PinConfig[p].filterSamples
           e == Elapsed(t, pin.lastDebounceTime)
           e2 == Elapsed((t + 1) % Clock, pin.lastDebounceTime)
           age == Smaller(s.age + 1, D)
<1>1. /\ D \in Nat /\ D + MaxGap < Clock /\ Clock \in Nat /\ MaxGap \in Nat
      /\ s.age \in 0 .. D /\ s \in Sight(p)
  BY Configs, PinsAssumption, LocalIOAssumption DEF Sight
<1>2. e \in Nat /\ e2 = IF e = Clock - 1 THEN 0 ELSE e + 1
  BY Laps, LapsTick DEF DigitalInput
<1>3. age \in 0 .. D
  BY <1>1 DEF Smaller
<1> HIDE DEF D, N, e, e2, age
<1>4. s2 = [s EXCEPT !.age = age]
  BY DEF age, D
<1>5. /\ s2 \in Sight(p)
      /\ s2.level = s.level /\ s2.agreed = s.agreed /\ s2.age = age
  BY <1>1, <1>3, <1>4 DEF Sight, D
<1>6. D > 0 /\ pin.lastDebounced # pin.lastRaw => e < D + g /\ s.age = Smaller(e, D)
  BY DEF Fits, D, e
<1>7. D > 0 /\ pin.lastDebounced # pin.lastRaw =>
        e2 < D + (g + 1) /\ age = Smaller(e2, D)
  BY <1>1, <1>2, <1>6 DEF Smaller, age
<1>8. QED BY <1>5, <1>7 DEF Fits, D, e2

------------------------------------------------------------------------------
(* The other pins.                                                         *)
LEMMA States ==
  ASSUME NEW p
  PROVE  /\ kind(p) = "input" => PinState(p) = DigitalInput(p)
         /\ kind(p) = "analog" => PinState(p) = AnalogInput(p)
         /\ kind(p) = "output" => PinState(p) = DigitalOutput
         /\ kind(p) = "pwm" => PinState(p) = PWMOutput
         /\ kind(p) = "counter" => PinState(p) = PulseCounter
BY DEF PinState

LEMMA AnalogKept ==
  ASSUME NEW p \in Name, kind(p) = "analog", NEW pin \in AnalogInput(p),
         NEW l \in 0 .. MaxReading
  PROVE  UpdateAnalogInput(p, pin, l) \in AnalogInput(p)
<1> DEFINE N == PinConfig[p].filterSamples
           S == 0 .. MaxReading
           old == pin.filter
           filter == Append1(old, l, N)
           value == IF filter = << >> THEN NaN
                                      ELSE Total(filter) \div Len(filter)
<1>1. N \in Nat /\ MaxReading \in Nat
  BY Configs, PinsAssumption
<1>2. old \in BoundedSeq(S, N)
  BY DEF AnalogInput
<1>3. filter \in BoundedSeq(S, N)
  <2> HIDE DEF old, N
  <2>1. l \in S
    OBVIOUS
  <2> HIDE DEF S
  <2>2. QED BY <1>1, <1>2, <2>1, Appended
<1> HIDE DEF filter
<1>4. value \in S \cup {NaN}
  <2>1. SUFFICES ASSUME filter # << >>
                 PROVE  Total(filter) \div Len(filter) \in S
    OBVIOUS
  <2>2. /\ Len(filter) \in Nat
        /\ filter \in [1 .. Len(filter) -> S] /\ filter \in Seq(S)
    <3> HIDE DEF S, N
    <3> QED BY <1>1, <1>3, Buffers
  <2>3. Len(filter) # 0
    BY <2>1, <2>2
  <2> DEFINE M == Len(filter)
  <2>4. M \in Nat \ {0} /\ filter \in [1 .. M -> 0 .. MaxReading]
    BY <2>2, <2>3
  <2> HIDE DEF M
  <2>5. Total(filter) \div M \in 0 .. MaxReading
    BY <1>1, <2>4, AverageBounded
  <2>6. QED BY <2>5 DEF M
<1>5. UpdateAnalogInput(p, pin, l) = [filter |-> filter, value |-> value]
  BY DEF UpdateAnalogInput, filter
<1> HIDE DEF value
<1>6. QED BY <1>3, <1>4, <1>5 DEF AnalogInput

LEMMA OutputsKept ==
  ASSUME NEW p \in Name, NEW t \in Time
  PROVE  /\ kind(p) = "output" =>
              /\ BeginDigitalOutput(p) \in DigitalOutput
              /\ \A pin \in DigitalOutput :
                   /\ UpdateDigitalOutput(p, pin, t) \in DigitalOutput
                   /\ triggerPulse(pin, t) \in DigitalOutput
                   /\ \A b \in BOOLEAN :
                        [pin EXCEPT !.value = b] \in DigitalOutput
         /\ BeginPWMOutput \in PWMOutput
         /\ \A pin \in PWMOutput, n \in Int \cup {NaN} :
              setDutyCycle(pin, n) \in PWMOutput
<1>1. 0 \in Time /\ MaxDuty \in Nat
  BY PinsAssumption DEF Time
<1>2. ASSUME kind(p) = "output"
      PROVE  BeginDigitalOutput(p) \in DigitalOutput
  <2>1. PinConfig[p].initialState \in BOOLEAN
    BY <1>2, Configs
  <2>2. QED BY <1>1, <2>1 DEF BeginDigitalOutput, DigitalOutput
<1>3. ASSUME NEW pin \in DigitalOutput
      PROVE  /\ UpdateDigitalOutput(p, pin, t) \in DigitalOutput
             /\ triggerPulse(pin, t) \in DigitalOutput
             /\ \A b \in BOOLEAN : [pin EXCEPT !.value = b] \in DigitalOutput
  <2>1. [pin EXCEPT !.pulseActive = FALSE, !.value = FALSE] \in DigitalOutput
    BY <1>3 DEF DigitalOutput
  <2>2. UpdateDigitalOutput(p, pin, t) \in DigitalOutput
    BY <2>1 DEF UpdateDigitalOutput
  <2>3. triggerPulse(pin, t) \in DigitalOutput
    BY DEF triggerPulse, DigitalOutput
  <2>4. ASSUME NEW b \in BOOLEAN
        PROVE  [pin EXCEPT !.value = b] \in DigitalOutput
    BY <1>3, <2>4 DEF DigitalOutput
  <2>5. QED BY <2>2, <2>3, <2>4
<1>4. BeginPWMOutput \in PWMOutput
  BY <1>1 DEF BeginPWMOutput, PWMOutput
<1>5. ASSUME NEW pin \in PWMOutput, NEW n \in Int \cup {NaN}
      PROVE  setDutyCycle(pin, n) \in PWMOutput
  <2>1. Clamped(n) \in 0 .. MaxDuty \cup {NaN}
    BY <1>1 DEF Clamped, Smaller
  <2>2. QED BY <2>1 DEF setDutyCycle, PWMOutput
<1>6. QED BY <1>2, <1>3, <1>4, <1>5

(* The total is not below what the hardware was last seen to have counted. *)
Counts(pin) == pin \in PulseCounter /\ pin.total >= pin.lastCount

LEMMA CounterKept ==
  ASSUME NEW p \in Name, kind(p) = "counter", NEW pin, Counts(pin),
         NEW count \in 0 .. CountLimit - 1, NEW t \in Time
  PROVE  LET f == UpdatePulseCounter(p, pin, count, t)
         IN  /\ Counts(f)
             /\ f.unit = pin.unit
             /\ f.total = pin.total + (count - pin.lastCount)
             /\ f.lastCount = IF Samples(p, pin, t) THEN 0 ELSE count
             /\ f.high = (count > 0)
<1> DEFINE delta == count - pin.lastCount
           elapsed == Elapsed(t, pin.lastSampleTime)
           samples == Samples(p, pin, t)
           measures == Measures(p, delta)
           last == IF samples THEN 0 ELSE count
           time == IF samples \/ measures THEN t ELSE pin.lastSampleTime
           rate == CASE samples -> Frequency(delta, elapsed)
                     [] measures -> Period(delta, elapsed)
                     [] OTHER -> pin.rate
           high == count > 0
           f == UpdatePulseCounter(p, pin, count, t)
<1>1. /\ pin \in PulseCounter
      /\ pin.total \in Int /\ pin.lastCount \in 0 .. CountLimit - 1
      /\ pin.lastSampleTime \in Time /\ pin.rate \in Int
      /\ pin.total >= pin.lastCount /\ CountLimit \in Nat \ {0}
  BY PinsAssumption DEF Counts, PulseCounter
<1>2. f = [pin EXCEPT !.total = @ + delta, !.lastCount = last,
                      !.lastSampleTime = time, !.rate = rate, !.high = high]
  BY DEF UpdatePulseCounter
<1>3. /\ delta \in Int /\ last \in 0 .. CountLimit - 1 /\ last <= count
      /\ time \in Time /\ high \in BOOLEAN
      /\ pin.total + delta \in Int /\ pin.total + delta >= count
  BY <1>1
<1>4. rate \in Int
  <2>1. elapsed \in 0 .. Clock - 1 /\ Clock \in Nat
    BY <1>1, Laps, PinsAssumption
  <2>2. PinConfig[p].sampleWindowMs \in Nat \ {0}
    BY Configs
  <2>3. CASE samples
    <3> DEFINE x == delta * Second
    <3>1. x \in Int
      <4>1. Second \in Int
        BY PinsAssumption
      <4> HIDE DEF delta
      <4>2. QED BY <1>3, <4>1
    <3>2. elapsed \in Nat \ {0}
      BY <2>1, <2>2, <2>3 DEF Samples
    <3> HIDE DEF elapsed, x
    <3>3. x \div elapsed \in Int
      BY <3>1, <3>2
    <3>4. rate = x \div elapsed
      <4>1. ~measures
        BY <2>3 DEF Samples, Measures
      <4> HIDE DEF samples, measures, delta
      <4>2. QED BY <2>3, <4>1 DEF Frequency, x, elapsed
    <3>5. QED BY <3>3, <3>4
  <2>4. CASE measures /\ ~samples
    <3>1. delta \in Nat \ {0} /\ elapsed \in Int
      BY <1>3, <2>1, <2>4 DEF Measures
    <3> HIDE DEF delta, elapsed
    <3>2. elapsed \div delta \in Int
      BY <3>1
    <3> HIDE DEF samples, measures
    <3>3. rate = elapsed \div delta
      BY <2>4 DEF Period
    <3>4. QED BY <3>2, <3>3
  <2>5. CASE ~measures /\ ~samples
    <3> HIDE DEF samples, measures
    <3> QED BY <1>1, <2>5
  <2>6. QED BY <2>3, <2>4, <2>5
<1> HIDE DEF delta, last, time, rate, high, f
<1>5. /\ f \in PulseCounter
      /\ f.unit = pin.unit /\ f.total = pin.total + delta /\ f.lastCount = last
      /\ f.high = high
  BY <1>1, <1>2, <1>3, <1>4 DEF PulseCounter
<1>6. f.total >= f.lastCount
  BY <1>1, <1>3, <1>5
<1>7. QED BY <1>5, <1>6 DEF Counts, delta, last, high, f

LEMMA CounterReset ==
  ASSUME NEW pin, Counts(pin), NEW t \in Time
  PROVE  /\ Counts(resetCounter(pin, t))
         /\ resetCounter(pin, t).unit = pin.unit
         /\ resetCounter(pin, t).total = 0
         /\ resetCounter(pin, t).lastCount = 0
<1>1. CountLimit \in Nat \ {0}
  BY PinsAssumption
<1> DEFINE zero == 0
           r == resetCounter(pin, t)
<1>2. pin \in PulseCounter /\ zero \in 0 .. CountLimit - 1 /\ zero \in Int
  BY <1>1 DEF Counts
<1>3. r = [pin EXCEPT !.total = zero, !.lastCount = zero,
                      !.lastSampleTime = t]
  BY DEF resetCounter
<1> HIDE DEF zero, r
<1>4. /\ r \in PulseCounter
      /\ r.unit = pin.unit /\ r.total = zero /\ r.lastCount = zero
  BY <1>2, <1>3 DEF PulseCounter
<1>5. QED BY <1>4 DEF Counts, r, zero

LEMMA CounterBegins ==
  ASSUME NEW u \in Unit, NEW t \in Time
  PROVE  /\ Counts(BeginPulseCounter(u, t))
         /\ BeginPulseCounter(u, t).unit = u
         /\ BeginPulseCounter(u, t).total = 0
         /\ BeginPulseCounter(u, t).lastCount = 0
<1>1. CountLimit \in Nat \ {0}
  BY PinsAssumption
<1>2. QED BY <1>1 DEF Counts, PulseCounter, BeginPulseCounter

------------------------------------------------------------------------------
(* Loading: the pins that one addPin after another leaves.                 *)
Started(p, pin) ==
  /\ pin \in PinState(p)
  /\ kind(p) = "input" => pin = BeginDigitalInput(p, level[p], now)
  /\ kind(p) = "counter" =>
       Counts(pin) /\ pin.total = 0 /\ pin.lastCount = 0

AnyPin == UNION {PinState(p) : p \in Name}
PinTables == UNION {[D -> AnyPin] : D \in SUBSET (Name \ Broken)}

OwnUnits(pins, used) ==
  /\ \A p \in Counting(pins) : pins[p].unit \in used
  /\ \A p, q \in Counting(pins) : p # q => pins[p].unit # pins[q].unit

Builds ==
  {acc \in [pins : PinTables, used : SUBSET Unit] :
     /\ \A p \in DOMAIN acc.pins : Started(p, acc.pins[p])
     /\ OwnUnits(acc.pins, acc.used)}

LEMMA LowestFree ==
  ASSUME NEW used, Free(used) # {}
  PROVE  Lowest(Free(used)) \in Unit /\ Lowest(Free(used)) \notin used
<1>1. Free(used) \in SUBSET Nat
  BY PinsAssumption DEF Free
<1>2. \E u \in Free(used) : \A w \in Free(used) : u <= w
  BY <1>1, LeastNatural
<1>3. Lowest(Free(used)) \in Free(used)
  <2> DEFINE S == Free(used)
  <2> HIDE DEF S
  <2>1. (\E u \in S : \A w \in S : u <= w) => Lowest(S) \in S
    BY DEF Lowest
  <2>2. QED BY <1>2, <2>1 DEF S
<1>4. QED BY <1>3 DEF Free

LEMMA Levelled ==
  ASSUME TypeOK, NEW p \in Name
  PROVE  /\ level[p] \in 0 .. MaxReading \/ kind(p) = "input"
         /\ kind(p) = "input" => level[p] \in {0, 1}
         /\ now \in Time /\ gap \in 0 .. MaxGap
BY DEF TypeOK, Levels

LEMMA PinStarts ==
  ASSUME TypeOK, NEW p \in Name, NEW used,
         kind(p) = "counter" => Free(used) # {}
  PROVE  /\ Started(p, Begun(p, used))
         /\ kind(p) = "counter" =>
              /\ Begun(p, used).unit = Lowest(Free(used))
<1> DEFINE pin == Begun(p, used)
<1>1. kind(p) \in {"input", "output", "analog", "pwm", "counter"}
  BY Configs
<1>2. now \in Time /\ 0 \in Nat
  BY Levelled
<1>3. CASE kind(p) = "input"
  <2>1. pin = BeginDigitalInput(p, level[p], now) /\ level[p] \in {0, 1}
    BY <1>3, Levelled DEF Begun
  <2>2. pin \in DigitalInput(p)
    <3> DEFINE l == level[p]
               s == [level |-> l, age |-> 0,
                     agreed |-> IF PinConfig[p].debounceMs = 0 THEN 1 ELSE 0]
    <3>1. l \in {0, 1} /\ s = [level |-> l, age |-> 0,
              agreed |-> IF PinConfig[p].debounceMs = 0 THEN 1 ELSE 0]
      BY <2>1
    <3> HIDE DEF l, s
    <3>2. BeginDigitalInput(p, l, now) \in DigitalInput(p)
      BY <1>2, <1>3, <3>1, BeginFits
    <3>3. QED BY <2>1, <3>2 DEF l
  <2>3. PinState(p) = DigitalInput(p)
    BY <1>3, States
  <2>4. QED BY <1>3, <2>1, <2>2, <2>3 DEF Started
<1>4. CASE kind(p) = "analog"
  <2>1. pin = BeginAnalogInput /\ PinState(p) = AnalogInput(p)
    BY <1>4, States DEF Begun
  <2>2. PinConfig[p].filterSamples \in Nat /\ 0 \in 0 .. MaxReading
    BY <1>4, Configs, PinsAssumption
  <2>3. << >> \in BoundedSeq(0 .. MaxReading, PinConfig[p].filterSamples)
    BY <2>2, NoSamples
  <2>4. BeginAnalogInput \in AnalogInput(p)
    BY <2>2, <2>3 DEF BeginAnalogInput, AnalogInput
  <2>5. QED BY <1>4, <2>1, <2>4 DEF Started
<1>5. CASE kind(p) = "output"
  <2>1. pin = BeginDigitalOutput(p) /\ PinState(p) = DigitalOutput
    BY <1>5, States DEF Begun
  <2>2. pin \in DigitalOutput
    BY <1>2, <1>5, <2>1, OutputsKept
  <2>3. QED BY <1>5, <2>1, <2>2 DEF Started
<1>6. CASE kind(p) = "pwm"
  <2>1. pin = BeginPWMOutput /\ PinState(p) = PWMOutput
    BY <1>6, States DEF Begun
  <2>2. pin \in PWMOutput
    BY <1>2, <2>1, OutputsKept
  <2>3. QED BY <1>6, <2>1, <2>2 DEF Started
<1>7. CASE kind(p) = "counter"
  <2> DEFINE u == Lowest(Free(used))
  <2>1. pin = BeginPulseCounter(u, now) /\ PinState(p) = PulseCounter
    BY <1>7, States DEF Begun
  <2>2. u \in Unit
    BY <1>7, LowestFree
  <2> HIDE DEF u
  <2>3. Counts(pin) /\ pin.unit = u /\ pin.total = 0 /\ pin.lastCount = 0
    BY <1>2, <2>1, <2>2, CounterBegins
  <2>4. QED BY <1>7, <2>1, <2>3 DEF Started, Counts, u
<1>8. QED BY <1>1, <1>3, <1>4, <1>5, <1>6, <1>7

LEMMA PinAdded ==
  ASSUME TypeOK, NEW acc \in Builds, NEW p \in Name
  PROVE  addPin(acc, p) \in Builds
<1> DEFINE u == Lowest(Free(acc.used))
           takes == kind(p) = "counter" /\ Free(acc.used) # {}
           used == IF takes THEN acc.used \cup {u} ELSE acc.used
           pin == Begun(p, acc.used)
           more == With(acc.pins, p, pin)
<1>1. /\ acc.pins \in PinTables /\ acc.used \in SUBSET Unit
      /\ \A q \in DOMAIN acc.pins : Started(q, acc.pins[q])
      /\ OwnUnits(acc.pins, acc.used)
  BY DEF Builds
<1>2. takes => u \in Unit /\ u \notin acc.used
  BY LowestFree
<1>3. used \in SUBSET Unit /\ acc.used \subseteq used
  BY <1>1, <1>2
<1>4. OwnUnits(acc.pins, used)
  BY <1>1, <1>3 DEF OwnUnits
<1>5. ASSUME p \notin Broken, p \notin DOMAIN acc.pins,
             kind(p) = "counter" => takes
      PROVE  /\ more \in PinTables /\ OwnUnits(more, used)
             /\ \A q \in DOMAIN more : Started(q, more[q])
  <2>1. Started(p, pin) /\ (kind(p) = "counter" => pin.unit = u /\ takes)
    BY <1>5, PinStarts
  <2> HIDE DEF pin, u, takes
  <2>2. /\ DOMAIN more = DOMAIN acc.pins \cup {p}
        /\ more[p] = pin
        /\ \A q \in DOMAIN acc.pins : more[q] = acc.pins[q]
    BY <1>5 DEF With
  <2>3. PICK D \in SUBSET (Name \ Broken) : acc.pins \in [D -> AnyPin]
    BY <1>1 DEF PinTables
  <2>4. pin \in AnyPin
    BY <2>1 DEF AnyPin, Started
  <2>5. more \in [D \cup {p} -> AnyPin]
    BY <2>3, <2>4 DEF With
  <2>6. more \in PinTables
    <3> HIDE DEF more
    <3>1. D \cup {p} \in SUBSET (Name \ Broken)
      BY <1>5, <2>3
    <3>2. QED BY <2>5, <3>1 DEF PinTables
  <2> HIDE DEF more
  <2>7. \A q \in DOMAIN more : Started(q, more[q])
    BY <1>1, <2>1, <2>2
  <2>8. /\ \A q \in Counting(more) :
             q \in Counting(acc.pins) \/ (q = p /\ kind(p) = "counter")
        /\ \A q \in Counting(acc.pins) : more[q] = acc.pins[q]
    BY <2>2 DEF Counting
  <2>9. \A q \in Counting(more) :
          \/ /\ q \in Counting(acc.pins) /\ more[q].unit = acc.pins[q].unit
             /\ more[q].unit \in acc.used
          \/ q = p /\ more[q].unit = u /\ takes
    BY <1>1, <2>1, <2>2, <2>8 DEF OwnUnits
  <2>10. OwnUnits(more, used)
    <3>1. \A q \in Counting(more) : more[q].unit \in used
      BY <2>9
    <3>2. ASSUME NEW q \in Counting(more), NEW r \in Counting(more), q # r
          PROVE  more[q].unit # more[r].unit
      BY <1>1, <1>2, <2>9, <3>2 DEF OwnUnits, u, takes
    <3>3. QED BY <3>1, <3>2 DEF OwnUnits
  <2>11. QED BY <2>6, <2>7, <2>10
<1>6. addPin(acc, p) =
        IF p \in DOMAIN acc.pins THEN acc
        ELSE [pins |-> IF p \in Broken \/ (kind(p) = "counter" /\ ~takes)
                       THEN acc.pins ELSE more,
              used |-> used]
  BY DEF addPin
<1> HIDE DEF more, used, takes
<1>7. CASE p \in DOMAIN acc.pins
  BY <1>6, <1>7
<1>8. CASE p \notin DOMAIN acc.pins
               /\ (p \in Broken \/ (kind(p) = "counter" /\ ~takes))
  <2>1. addPin(acc, p) = [pins |-> acc.pins, used |-> used]
    BY <1>6, <1>8
  <2>2. QED BY <1>1, <1>3, <1>4, <2>1 DEF Builds
<1>9. CASE p \notin DOMAIN acc.pins
               /\ ~(p \in Broken \/ (kind(p) = "counter" /\ ~takes))
  <2>1. addPin(acc, p) = [pins |-> more, used |-> used]
    BY <1>6, <1>9
  <2>2. QED BY <1>3, <1>5, <1>9, <2>1 DEF Builds
<1>10. QED BY <1>7, <1>8, <1>9

LEMMA AllPinsAdded ==
  ASSUME TypeOK, NEW names \in Seq(Name)
  PROVE  Built(names) \in Builds
<1> DEFINE N == Len(names)
           b == [pins |-> << >>, used |-> pcntUnitsUsed]
           step == [x \in Builds \X (1 .. N) |-> addPin(x[1], names[x[2]])]
           built == CHOOSE f : f = [n \in 0 .. Len(names) |->
                      IF n = 0 THEN [pins |-> << >>, used |-> pcntUnitsUsed]
                               ELSE addPin(f[n - 1], names[n])]
<1>1. N \in Nat /\ \A n \in 1 .. N : names[n] \in Name
  OBVIOUS
<1>2. b \in Builds
  <2>1. << >> \in PinTables
    <3>1. {} \in SUBSET (Name \ Broken) /\ << >> \in [{} -> AnyPin]
      OBVIOUS
    <3>2. QED BY <3>1 DEF PinTables
  <2>2. OwnUnits(<< >>, pcntUnitsUsed) /\ DOMAIN << >> = {}
    BY DEF OwnUnits, Counting
  <2>3. pcntUnitsUsed \in SUBSET Unit
    BY DEF TypeOK
  <2>4. QED BY <2>1, <2>2, <2>3 DEF Builds
<1>3. step \in [Builds \X (1 .. N) -> Builds]
  <2>1. \A x \in Builds \X (1 .. N) : addPin(x[1], names[x[2]]) \in Builds
    BY <1>1, PinAdded
  <2>2. QED BY <2>1
<1>4. PICK f \in [0 .. N -> Builds] : Steps(f, N, b, step)
  <2> HIDE DEF step, b
  <2>1. QED BY <1>1, <1>2, <1>3, Iteration
<1>5. f = [n \in 0 .. N |-> IF n = 0 THEN b ELSE addPin(f[n - 1], names[n])]
  <2>1. ASSUME NEW n \in 0 .. N
        PROVE  f[n] = IF n = 0 THEN b ELSE addPin(f[n - 1], names[n])
    <3>1. CASE n = 0
      BY <1>4, <3>1 DEF Steps
    <3>2. CASE n # 0
      <4>1. n \in 1 .. N /\ f[n - 1] \in Builds
        BY <1>1, <3>2
      <4>2. f[n] = step[<<f[n - 1], n>>] /\ <<f[n - 1], n>> \in Builds \X (1 .. N)
        <5> HIDE DEF step, b
        <5>1. QED BY <1>4, <4>1 DEF Steps
      <4>3. QED BY <3>2, <4>2
    <3>3. QED BY <3>1, <3>2
  <2>2. QED
    <3> HIDE DEF b
    <3> QED BY <2>1
<1>6. built = [n \in 0 .. N |-> IF n = 0 THEN b
                                ELSE addPin(built[n - 1], names[n])]
  BY <1>5
<1>7. Built(names) = built[N]
  BY DEF Built
<1> HIDE DEF built
<1> DEFINE T == {n \in Nat : n <= N => built[n] \in Builds}
<1>8. \A n \in Nat : n \in T
  <2>1. 0 \in T
    <3>1. built[0] = b
      <4> HIDE DEF b
      <4> QED BY <1>1, <1>6
    <3>2. QED BY <1>2, <3>1
  <2>2. ASSUME NEW n \in Nat, n \in T
        PROVE  n + 1 \in T
    <3>1. SUFFICES ASSUME n + 1 <= N
                   PROVE  built[n + 1] \in Builds
      OBVIOUS
    <3>2. n \in 0 .. N /\ n + 1 \in 1 .. N /\ n + 1 - 1 = n
      BY <1>1, <3>1
    <3>3. built[n + 1] = addPin(built[n], names[n + 1])
      <4> HIDE DEF b
      <4> QED BY <1>6, <3>2
    <3>4. built[n] \in Builds /\ names[n + 1] \in Name
      BY <1>1, <2>2, <3>2
    <3>5. QED BY <3>3, <3>4, PinAdded
  <2>3. QED
    <3> HIDE DEF T
    <3> QED BY <2>1, <2>2, SetInduction
<1>9. QED BY <1>1, <1>7, <1>8

------------------------------------------------------------------------------
(* The inductive invariant: the types, the account of each counter and     *)
(* what each input knows of its samples. The account needs the total not   *)
(* to be below the last count, so that it stays positive when the hardware *)
(* starts at 0 again, and both to be equal where nothing is sampled.       *)
Account(p, pin, count, all, lost) ==
  /\ Counts(pin)
  /\ \E n \in Nat :
       all = (pin.total + (count - pin.lastCount)) + lost + n * CountLimit
  /\ PinConfig[p].mode # "FREQUENCY" => lost = 0 /\ pin.total = pin.lastCount

TotalsCount ==
  \A p \in OfKind("counter") :
    Account(p, ioPins[p], register[ioPins[p].unit], pulses[p], missed[p])
InputsFit ==
  \A p \in OfKind("input") : Fits(p, ioPins[p], seen[p], now, gap)

LocalInv == TypeOK /\ TotalsCount /\ InputsFit

LEMMA LoadedPins ==
  ASSUME TypeOK, NEW p \in Loaded
  PROVE  /\ p \in Name /\ ioPins[p] \in PinState(p)
         /\ kind(p) \in {"input", "output", "analog", "pwm", "counter"}
         /\ kind(p) = "input" =>
              ioPins[p] \in DigitalInput(p) /\ seen[p] \in Sight(p)
         /\ kind(p) = "analog" => ioPins[p] \in AnalogInput(p)
         /\ kind(p) = "output" => ioPins[p] \in DigitalOutput
         /\ kind(p) = "pwm" => ioPins[p] \in PWMOutput
         /\ kind(p) = "counter" =>
              /\ ioPins[p] \in PulseCounter /\ ioPins[p].unit \in Unit
              /\ register[ioPins[p].unit] \in 0 .. CountLimit - 1
              /\ pulses[p] \in 0 .. MaxPulses /\ missed[p] \in 0 .. MaxPulses
<1>1. p \in Name /\ ioPins[p] \in PinState(p)
  BY DEF TypeOK
<1>2. kind(p) = "input" => seen[p] \in Sight(p)
  BY DEF TypeOK, OfKind, Sight
<1>3. ASSUME kind(p) = "counter"
      PROVE  /\ ioPins[p] \in PulseCounter /\ ioPins[p].unit \in Unit
             /\ register[ioPins[p].unit] \in 0 .. CountLimit - 1
             /\ pulses[p] \in 0 .. MaxPulses /\ missed[p] \in 0 .. MaxPulses
  <2>1. ioPins[p] \in PulseCounter
    BY <1>1, <1>3, States
  <2>2. ioPins[p].unit \in Unit
    BY <2>1 DEF PulseCounter
  <2>3. register \in [Unit -> 0 .. CountLimit - 1]
        /\ pulses \in [OfKind("counter") -> 0 .. MaxPulses]
        /\ missed \in [OfKind("counter") -> 0 .. MaxPulses]
    BY DEF TypeOK
  <2>4. p \in OfKind("counter")
    BY <1>3 DEF OfKind
  <2>5. QED BY <2>1, <2>2, <2>3, <2>4
<1>4. QED BY <1>1, <1>2, <1>3, Configs, States

(* What changes no input, no counter and nothing they are measured by.     *)
LEMMA OthersKept ==
  ASSUME LocalInv,
         UNCHANGED <<hardware, pcntUnitsUsed, mappings, history>>,
         enabled' \in BOOLEAN, pinsEnabled' \in BOOLEAN,
         plcMemory' \in BOOLEAN, enabled' => pinsEnabled',
         memory' \in [Var -> Int \cup {NaN}],
         DOMAIN ioPins' = DOMAIN ioPins,
         \A p \in Loaded :
           /\ ioPins'[p] \in PinState(p)
           /\ kind(p) \in {"input", "counter"} => ioPins'[p] = ioPins[p]
  PROVE  LocalInv'
<1>1. /\ UNCHANGED <<now, level, register, gap>>
      /\ UNCHANGED <<pcntUnitsUsed, mappings, seen, pulses, missed>>
  BY DEF hardware, history, counts
<1>2. Loaded' = Loaded
  BY DEF Loaded
<1>3. OfKind("input")' = OfKind("input") /\ OfKind("counter")' = OfKind("counter")
  BY <1>2 DEF OfKind
<1>4. /\ \A p \in OfKind("input") : ioPins'[p] = ioPins[p]
      /\ \A p \in OfKind("counter") : ioPins'[p] = ioPins[p]
  BY DEF OfKind
<1>5. TypeOK'
  <2>1. TypeOK
    BY DEF LocalInv
  <2>2. /\ {ioPins'[p].unit : p \in OfKind("counter")} \subseteq pcntUnitsUsed
        /\ \A p, q \in OfKind("counter") :
             p # q => ioPins'[p].unit # ioPins'[q].unit
    BY <1>4, <2>1 DEF TypeOK
  <2>3. QED BY <1>1, <1>2, <1>3, <2>1, <2>2 DEF TypeOK
<1>6. TotalsCount'
  BY <1>1, <1>3, <1>4 DEF LocalInv, TotalsCount
<1>7. InputsFit'
  BY <1>1, <1>3, <1>4 DEF LocalInv, InputsFit
<1>8. QED BY <1>5, <1>6, <1>7 DEF LocalInv

LEMMA InitLocal == Init => LocalInv
<1> SUFFICES ASSUME Init
             PROVE  LocalInv
  OBVIOUS
<1>1. /\ Clock \in Nat \ {0} /\ CountLimit \in Nat \ {0} /\ MaxReading \in Nat
      /\ MaxGap \in Nat
  BY PinsAssumption, LocalIOAssumption
<1>2. Loaded = {} /\ OfKind("input") = {} /\ OfKind("counter") = {}
  BY DEF Init, Loaded, OfKind
<1>3. TypeOK
  <2>1. now \in Time /\ gap \in 0 .. MaxGap
    BY <1>1 DEF Init, Time
  <2>2. DOMAIN level = Name /\ \A p \in Name : level[p] \in Levels(p)
    BY <1>1 DEF Init, Levels
  <2>3. register \in [Unit -> 0 .. CountLimit - 1]
    BY <1>1 DEF Init
  <2>4. mappings \in [inputs : Seq(PLCMapping), outputs : Seq(PLCMapping)]
    BY DEF Init
  <2>5. memory \in [Var -> Int \cup {NaN}]
    BY DEF Init
  <2>6. /\ DOMAIN seen = {} /\ pulses \in [{} -> 0 .. MaxPulses]
        /\ missed \in [{} -> 0 .. MaxPulses]
    BY DEF Init
  <2>7. /\ enabled \in BOOLEAN /\ plcMemory \in BOOLEAN
        /\ pinsEnabled \in BOOLEAN /\ (enabled => pinsEnabled)
        /\ pcntUnitsUsed \subseteq Unit
    BY DEF Init
  <2>8. QED BY <1>2, <2>1, <2>2, <2>3, <2>4, <2>5, <2>6, <2>7 DEF TypeOK
<1>4. QED BY <1>2, <1>3 DEF LocalInv, TotalsCount, InputsFit

LEMMA Memories ==
  ASSUME LocalInv
  PROVE  /\ TypeOK /\ memory \in [Var -> Int \cup {NaN}]
         /\ enabled \in BOOLEAN /\ pinsEnabled \in BOOLEAN
         /\ plcMemory \in BOOLEAN /\ (enabled => pinsEnabled)
         /\ now \in Time /\ gap \in 0 .. MaxGap
BY DEF LocalInv, TypeOK

(* One output changes.                                                     *)
LEMMA ChangeKeeps ==
  ASSUME LocalInv, NEW p \in Loaded, NEW pin, Change(p, pin), UNCHANGED history,
         pin \in PinState(p),
         kind(p) \in {"input", "counter"} => pin = ioPins[p]
  PROVE  LocalInv'
<1>1. /\ ioPins' = [ioPins EXCEPT ![p] = pin]
      /\ UNCHANGED <<hardware, pcntUnitsUsed, history, enabled, pinsEnabled,
                     mappings, plcMemory, memory>>
  BY DEF Change, switches, program
<1>2. /\ DOMAIN ioPins' = DOMAIN ioPins
      /\ \A q \in Loaded :
           /\ ioPins'[q] \in PinState(q)
           /\ kind(q) \in {"input", "counter"} => ioPins'[q] = ioPins[q]
  BY <1>1, Memories, LoadedPins DEF Loaded
<1>3. QED BY <1>1, <1>2, Memories, OthersKept

(* What a write of a number makes of a pin.                                *)
LEMMA WriteKeeps ==
  ASSUME NEW p \in Name, NEW pin \in PinState(p), NEW n \in Int \cup {NaN}
  PROVE  /\ Write(p, pin, n) \in PinState(p)
         /\ kind(p) \in {"input", "counter", "analog"} =>
              Write(p, pin, n) = pin
<1>1. kind(p) \in {"input", "output", "analog", "pwm", "counter"}
  BY Configs
<1>2. CASE kind(p) = "output"
  <2>1. PinState(p) = DigitalOutput /\ pin \in DigitalOutput
    BY <1>2, States
  <2> DEFINE b == Positive(n)
  <2>2. b \in BOOLEAN /\ Write(p, pin, n) = [pin EXCEPT !.value = b]
    BY <1>2 DEF Write, Positive
  <2> HIDE DEF b
  <2>3. [pin EXCEPT !.value = b] \in DigitalOutput
    BY <2>1, <2>2 DEF DigitalOutput
  <2>4. QED BY <1>2, <2>1, <2>2, <2>3
<1>3. CASE kind(p) = "pwm"
  <2>1. PinState(p) = PWMOutput /\ Write(p, pin, n) = setDutyCycle(pin, n)
    BY <1>3, States DEF Write
  <2>2. 0 \in Time
    BY PinsAssumption DEF Time
  <2>3. setDutyCycle(pin, n) \in PWMOutput
    BY <2>1, <2>2, OutputsKept
  <2>4. QED BY <1>3, <2>1, <2>3
<1>4. CASE kind(p) \in {"input", "counter", "analog"}
  BY <1>4 DEF Write
<1>5. QED BY <1>1, <1>2, <1>3, <1>4

LEMMA CommandsKeep ==
  ASSUME LocalInv, NEW p \in Name, NEW n \in Int,
         writePin(p, n) \/ setPWMDutyCycle(p, n) \/ Pulse(p) \/ toggle(p)
  PROVE  LocalInv'
<1>1. TypeOK /\ now \in Time
  BY Memories
<1>2. CASE writePin(p, n)
  <2>1. p \in Loaded /\ Change(p, Write(p, ioPins[p], n)) /\ UNCHANGED history
    BY <1>2 DEF writePin
  <2>2. ioPins[p] \in PinState(p)
    BY <1>1, <2>1, LoadedPins
  <2>3. QED BY <2>1, <2>2, WriteKeeps, ChangeKeeps
<1>3. CASE setPWMDutyCycle(p, n)
  <2>1. /\ p \in Loaded /\ kind(p) = "pwm"
        /\ Change(p, setDutyCycle(ioPins[p], n)) /\ UNCHANGED history
    BY <1>3 DEF setPWMDutyCycle, OfKind
  <2>2. ioPins[p] \in PWMOutput /\ PinState(p) = PWMOutput
    BY <1>1, <2>1, LoadedPins, States
  <2>3. setDutyCycle(ioPins[p], n) \in PinState(p)
    BY <1>1, <2>2, OutputsKept
  <2>4. QED BY <2>1, <2>3, ChangeKeeps
<1>4. CASE Pulse(p)
  <2>1. /\ p \in Loaded /\ kind(p) = "output"
        /\ Change(p, triggerPulse(ioPins[p], now)) /\ UNCHANGED history
    BY <1>4 DEF Pulse, OfKind
  <2>2. ioPins[p] \in DigitalOutput /\ PinState(p) = DigitalOutput
    BY <1>1, <2>1, LoadedPins, States
  <2>3. triggerPulse(ioPins[p], now) \in PinState(p)
    BY <1>1, <2>1, <2>2, OutputsKept
  <2>4. QED BY <2>1, <2>3, ChangeKeeps
<1>5. CASE toggle(p)
  <2> DEFINE b == ~ioPins[p].value
  <2>1. /\ p \in Loaded /\ kind(p) = "output"
        /\ Change(p, [ioPins[p] EXCEPT !.value = b]) /\ UNCHANGED history
    BY <1>5 DEF toggle, OfKind
  <2>2. ioPins[p] \in DigitalOutput /\ PinState(p) = DigitalOutput
    BY <1>1, <2>1, LoadedPins, States
  <2>3. b \in BOOLEAN
    OBVIOUS
  <2> HIDE DEF b
  <2>4. [ioPins[p] EXCEPT !.value = b] \in PinState(p)
    BY <1>1, <2>1, <2>2, <2>3, OutputsKept
  <2>5. QED BY <2>1, <2>4, ChangeKeeps
<1>6. QED BY <1>2, <1>3, <1>4, <1>5

LEMMA SafeKeeps ==
  ASSUME LocalInv, setSafeState
  PROVE  LocalInv'
<1>1. TypeOK /\ now \in Time
  BY Memories
<1>2. ASSUME NEW p \in Loaded
      PROVE  /\ Safe(p) \in PinState(p)
             /\ kind(p) \in {"input", "counter"} => Safe(p) = ioPins[p]
  <2>1. /\ p \in Name /\ ioPins[p] \in PinState(p)
        /\ kind(p) \in {"input", "output", "analog", "pwm", "counter"}
    BY <1>1, LoadedPins
  <2>2. CASE kind(p) = "output"
    <3> DEFINE b == PinConfig[p].safeState
    <3>1. b \in BOOLEAN /\ Safe(p) = [ioPins[p] EXCEPT !.value = b]
      BY <2>1, <2>2, Configs DEF Safe
    <3>2. ioPins[p] \in DigitalOutput /\ PinState(p) = DigitalOutput
      BY <1>1, <2>2, LoadedPins, States
    <3> HIDE DEF b
    <3>3. [ioPins[p] EXCEPT !.value = b] \in DigitalOutput
      BY <1>1, <2>1, <2>2, <3>1, <3>2, OutputsKept
    <3>4. QED BY <2>2, <3>1, <3>2, <3>3
  <2>3. CASE kind(p) = "pwm"
    <3>1. Safe(p) = setDutyCycle(ioPins[p], 0) /\ PinState(p) = PWMOutput
      BY <2>3, States DEF Safe
    <3>2. setDutyCycle(ioPins[p], 0) \in PWMOutput
      BY <1>1, <2>1, <3>1, OutputsKept
    <3>3. QED BY <2>3, <3>1, <3>2
  <2>4. CASE kind(p) \in {"input", "counter", "analog"}
    BY <2>1, <2>4 DEF Safe
  <2>5. QED BY <2>1, <2>2, <2>3, <2>4
<1>3. /\ ioPins' = [p \in Loaded |-> Safe(p)]
      /\ UNCHANGED <<hardware, pcntUnitsUsed, history, enabled, pinsEnabled,
                     mappings, plcMemory, memory>>
  BY DEF setSafeState, switches, program
<1>4. /\ DOMAIN ioPins' = DOMAIN ioPins
      /\ \A q \in Loaded :
           /\ ioPins'[q] \in PinState(q)
           /\ kind(q) \in {"input", "counter"} => ioPins'[q] = ioPins[q]
  BY <1>2, <1>3 DEF Loaded
<1>5. QED BY <1>3, <1>4, Memories, OthersKept

LEMMA ProgramKeeps ==
  ASSUME LocalInv,
         \/ \E enable \in BOOLEAN : setEnabled(enable)
         \/ \E given \in BOOLEAN : setPlcMemory(given)
         \/ \E v \in Var, n \in {-1, 0, MaxDuty} : ProgramWrites(v, n)
         \/ UNCHANGED vars
  PROVE  LocalInv'
<1>1. /\ UNCHANGED <<hardware, ioPins, pcntUnitsUsed, mappings, history>>
      /\ enabled' \in BOOLEAN /\ pinsEnabled' \in BOOLEAN
      /\ plcMemory' \in BOOLEAN /\ (enabled' => pinsEnabled')
      /\ memory' \in [Var -> Int \cup {NaN}]
  <2>1. CASE \E enable \in BOOLEAN : setEnabled(enable)
    BY <2>1, Memories DEF setEnabled, program
  <2>2. CASE \E given \in BOOLEAN : setPlcMemory(given)
    BY <2>2, Memories DEF setPlcMemory, switches
  <2>3. CASE \E v \in Var, n \in {-1, 0, MaxDuty} : ProgramWrites(v, n)
    <3>1. PICK v \in Var, n \in {-1, 0, MaxDuty} : ProgramWrites(v, n)
      BY <2>3
    <3>2. n \in Int /\ memory' = [memory EXCEPT ![v] = n]
      BY <3>1, PinsAssumption DEF ProgramWrites
    <3>3. memory' \in [Var -> Int \cup {NaN}]
      BY <3>2, Memories
    <3>4. QED BY <3>1, <3>3, Memories DEF ProgramWrites, switches
  <2>4. CASE UNCHANGED vars
    BY <2>4, Memories DEF vars, hardware, history, counts
  <2>5. QED BY <2>1, <2>2, <2>3, <2>4, Zenon
<1>2. \A q \in Loaded : ioPins[q] \in PinState(q)
  BY Memories, LoadedPins
<1>3. QED BY <1>1, <1>2, OthersKept

LEMMA LevelKeeps ==
  ASSUME LocalInv, NEW p \in Name, NEW n \in 0 .. MaxReading, SetLevel(p, n)
  PROVE  LocalInv'
<1>1. TypeOK
  BY Memories
<1>2. /\ level' = [level EXCEPT ![p] = n] /\ DOMAIN level = Name
      /\ kind(p) = "input" => n \in {0, 1}
      /\ UNCHANGED <<now, register, gap, ioPins, pcntUnitsUsed, enabled,
                     pinsEnabled, mappings, plcMemory, memory, seen, pulses,
                     missed>>
  BY <1>1 DEF SetLevel, switches, program, history, counts, TypeOK
<1>3. UNCHANGED <<Loaded, OfKind("input"), OfKind("counter")>>
  BY <1>2 DEF Loaded, OfKind
<1>4. DOMAIN level' = Name /\ \A q \in Name : level'[q] \in Levels(q)
  <2>1. n \in Levels(p)
    BY <1>2 DEF Levels
  <2>2. \A q \in Name : level[q] \in Levels(q)
    BY <1>1 DEF TypeOK
  <2>3. QED BY <1>2, <2>1, <2>2
<1>5. TypeOK'
  BY <1>1, <1>2, <1>3, <1>4 DEF TypeOK
<1>6. TotalsCount' /\ InputsFit'
  BY <1>2, <1>3 DEF LocalInv, TotalsCount, InputsFit
<1>7. QED BY <1>5, <1>6 DEF LocalInv

LEMMA TickKeeps ==
  ASSUME LocalInv, Tick
  PROVE  LocalInv'
<1>1. TypeOK /\ now \in Time /\ gap \in 0 .. MaxGap /\ MaxGap \in Nat
  BY Memories, LocalIOAssumption
<1>2. /\ gap < MaxGap /\ gap' = gap + 1 /\ now' = (now + 1) % Clock
      /\ seen' = [p \in DOMAIN seen |->
                    [seen[p] EXCEPT
                       !.age = Smaller(@ + 1, PinConfig[p].debounceMs)]]
      /\ UNCHANGED <<level, register, ioPins, pcntUnitsUsed, enabled,
                     pinsEnabled, mappings, plcMemory, memory, pulses,
                     missed>>
  BY DEF Tick, switches, program, counts
<1>3. UNCHANGED <<Loaded, OfKind("input"), OfKind("counter")>>
  BY <1>2 DEF Loaded, OfKind
<1>4. now' \in Time /\ gap' \in 0 .. MaxGap
  BY <1>1, <1>2, LapsTick
<1>5. DOMAIN seen = OfKind("input")
  BY <1>1 DEF TypeOK
<1>6. ASSUME NEW p \in OfKind("input")
      PROVE  /\ seen'[p] \in Sight(p)
             /\ Fits(p, ioPins[p], seen'[p], now', gap')
  <2>1. /\ p \in Name /\ kind(p) = "input" /\ ioPins[p] \in DigitalInput(p)
        /\ seen[p] \in Sight(p)
    BY <1>1, LoadedPins DEF OfKind
  <2>2. Fits(p, ioPins[p], seen[p], now, gap)
    BY DEF LocalInv, InputsFit
  <2>3. seen'[p] = [seen[p] EXCEPT
                      !.age = Smaller(@ + 1, PinConfig[p].debounceMs)]
    BY <1>2, <1>5
  <2> DEFINE s2 == seen'[p]
             s == seen[p]
  <2>4. s2 = [s EXCEPT !.age = Smaller(@ + 1, PinConfig[p].debounceMs)]
    BY <2>3
  <2>5. s \in Sight(p) /\ Fits(p, ioPins[p], s, now, gap) /\ gap \in Nat
    BY <1>1, <2>1, <2>2
  <2> HIDE DEF s, s2
  <2>6. s2 \in Sight(p) /\ Fits(p, ioPins[p], s2, (now + 1) % Clock, gap + 1)
    BY <1>1, <1>2, <2>1, <2>4, <2>5, TickFits
  <2>7. QED BY <1>2, <2>6 DEF s2
<1>7. TypeOK'
  <2>1. DOMAIN seen' = OfKind("input")
    BY <1>2, <1>5
  <2>2. /\ pulses' \in [OfKind("counter")' -> 0 .. MaxPulses]
        /\ missed' \in [OfKind("counter")' -> 0 .. MaxPulses]
    BY <1>1, <1>2, <1>3 DEF TypeOK
  <2>3. \A p \in DOMAIN seen' : seen'[p] \in Sight(p)
    BY <1>6, <2>1
  <2>4. /\ DOMAIN level' = Name /\ \A p \in Name : level'[p] \in Levels(p)
        /\ register' \in [Unit -> 0 .. CountLimit - 1]
        /\ Loaded' \subseteq Name \ Broken
        /\ \A p \in Loaded' : ioPins'[p] \in PinState(p)
        /\ pcntUnitsUsed' \subseteq Unit
        /\ enabled' \in BOOLEAN /\ plcMemory' \in BOOLEAN
        /\ pinsEnabled' \in BOOLEAN /\ (enabled' => pinsEnabled')
        /\ mappings' \in [inputs : Seq(PLCMapping), outputs : Seq(PLCMapping)]
        /\ memory' \in [Var -> Int \cup {NaN}]
    BY <1>1, <1>2, <1>3 DEF TypeOK
  <2>5. /\ {ioPins'[p].unit : p \in OfKind("counter")'} \subseteq pcntUnitsUsed'
        /\ \A p, q \in OfKind("counter")' :
             p # q => ioPins'[p].unit # ioPins'[q].unit
    BY <1>1, <1>2, <1>3 DEF TypeOK
  <2>6. DOMAIN seen' = OfKind("input")'
    BY <1>3, <2>1
  <2>7. QED
    BY <1>4, <2>2, <2>3, <2>4, <2>5, <2>6 DEF TypeOK, Sight
<1>8. TotalsCount'
  BY <1>2, <1>3 DEF LocalInv, TotalsCount
<1>9. InputsFit'
  BY <1>2, <1>3, <1>6 DEF InputsFit
<1>10. QED BY <1>7, <1>8, <1>9 DEF LocalInv

(* The account of a counter when it begins, and when a pulse arrives: the   *)
(* hardware counts it, or starts at 0 again.                               *)
LEMMA AccountBegins ==
  ASSUME NEW p, NEW pin, Counts(pin), pin.total = 0, pin.lastCount = 0
  PROVE  Account(p, pin, 0, 0, 0)
<1>1. CountLimit \in Nat /\ 0 * CountLimit = 0
  BY PinsAssumption
<1>2. 0 = (pin.total + (0 - pin.lastCount)) + 0 + 0 * CountLimit
  BY <1>1
<1>3. QED BY <1>2 DEF Account

LEMMA OnceMore ==
  ASSUME NEW n \in Nat, NEW L \in Nat \ {0}
  PROVE  n * L \in Nat /\ n * L >= n /\ (n + 1) * L = n * L + L
OBVIOUS

LEMMA PulseCounted ==
  ASSUME NEW p, NEW pin, NEW count \in 0 .. CountLimit - 1, NEW up,
         up = IF count + 1 < CountLimit THEN count + 1 ELSE 0,
         NEW all \in Nat, NEW lost \in Nat, Account(p, pin, count, all, lost)
  PROVE  Account(p, pin, up, all + 1, lost)
<1>1. CountLimit \in Nat \ {0}
  BY PinsAssumption
<1>2. /\ Counts(pin) /\ pin.total \in Int /\ pin.lastCount \in Int
      /\ PinConfig[p].mode # "FREQUENCY" =>
           lost = 0 /\ pin.total = pin.lastCount
  BY <1>1 DEF Account, Counts, PulseCounter
<1>3. PICK n \in Nat :
        all = (pin.total + (count - pin.lastCount)) + lost + n * CountLimit
  BY DEF Account
<1> DEFINE x == n * CountLimit
           y == (n + 1) * CountLimit
<1>4. x \in Nat /\ y = x + CountLimit
  BY <1>1, OnceMore
<1>5. all = (pin.total + (count - pin.lastCount)) + lost + x
  BY <1>3
<1> HIDE DEF x, y
<1>6. CASE count + 1 < CountLimit
  <2>1. all + 1 = (pin.total + (up - pin.lastCount)) + lost + x
    BY <1>2, <1>4, <1>5, <1>6
  <2>2. QED BY <1>2, <2>1 DEF Account, x
<1>7. CASE ~(count + 1 < CountLimit)
  <2>1. count = CountLimit - 1 /\ up = 0
    BY <1>1, <1>7
  <2>2. all + 1 = (pin.total + (up - pin.lastCount)) + lost + y
    BY <1>1, <1>2, <1>4, <1>5, <2>1
  <2>3. n + 1 \in Nat
    OBVIOUS
  <2>4. QED BY <1>2, <2>2, <2>3 DEF Account, y
<1>8. QED BY <1>6, <1>7

LEMMA PulseKeeps ==
  ASSUME LocalInv, NEW p \in Name, PulseArrives(p)
  PROVE  LocalInv'
<1> DEFINE u == ioPins[p].unit
           counters == OfKind("counter")
<1>1. TypeOK /\ CountLimit \in Nat \ {0} /\ MaxPulses \in Nat
  BY Memories, PinsAssumption, LocalIOAssumption
<1>2. /\ p \in counters /\ pulses[p] < MaxPulses
      /\ register' = [register EXCEPT ![u] = (@ + 1) % CountLimit]
      /\ pulses' = [pulses EXCEPT ![p] = @ + 1]
      /\ UNCHANGED <<now, level, gap, ioPins, pcntUnitsUsed, enabled,
                     pinsEnabled, mappings, plcMemory, memory, seen, missed>>
  BY DEF PulseArrives, switches, program
<1>3. UNCHANGED <<Loaded, OfKind("input"), OfKind("counter")>>
  BY <1>2 DEF Loaded, OfKind
<1>4. /\ register \in [Unit -> 0 .. CountLimit - 1] /\ u \in Unit
      /\ pulses \in [counters -> 0 .. MaxPulses]
      /\ register[u] \in 0 .. CountLimit - 1 /\ pulses[p] \in 0 .. MaxPulses
  BY <1>1, <1>2, LoadedPins DEF TypeOK, OfKind
<1> DEFINE up == (register[u] + 1) % CountLimit
<1>5. up = IF register[u] + 1 < CountLimit THEN register[u] + 1 ELSE 0
  <2> DEFINE x == register[u] + 1
  <2>1. x \in -(CountLimit - 1) .. CountLimit /\ ~(x < 0)
    BY <1>1, <1>4
  <2> HIDE DEF x
  <2>2. x % CountLimit = IF x < CountLimit THEN x ELSE 0
    BY <1>1, <2>1, Lap
  <2>3. QED BY <2>2 DEF x
<1> HIDE DEF up
<1>6. up \in 0 .. CountLimit - 1
  BY <1>1, <1>4, <1>5
<1>7. register' = [register EXCEPT ![u] = up]
  BY <1>2 DEF up
<1>8. TypeOK'
  <2>1. register' \in [Unit -> 0 .. CountLimit - 1]
    <3> HIDE DEF u
    <3> QED BY <1>4, <1>6, <1>7
  <2>2. pulses' \in [counters -> 0 .. MaxPulses]
    <3>1. pulses[p] + 1 \in 0 .. MaxPulses
      BY <1>1, <1>2, <1>4
    <3>2. QED BY <1>2, <1>4, <3>1
  <2>3. QED BY <1>1, <1>2, <1>3, <2>1, <2>2 DEF TypeOK
<1>9. InputsFit'
  BY <1>2, <1>3 DEF LocalInv, InputsFit
<1>10. TotalsCount'
  <2>1. SUFFICES ASSUME NEW q \in counters
                 PROVE  Account(q, ioPins[q], register'[ioPins[q].unit],
                                pulses'[q], missed[q])
    BY <1>2, <1>3 DEF TotalsCount
  <2>2. Account(q, ioPins[q], register[ioPins[q].unit], pulses[q], missed[q])
    BY DEF LocalInv, TotalsCount
  <2>3. CASE q = p
    <3>1. pulses'[q] = pulses[p] + 1 /\ register'[ioPins[q].unit] = up
      BY <1>2, <1>4, <1>7, <2>3
    <3>2. missed[p] \in Nat
      BY <1>1, <1>2, LoadedPins DEF OfKind
    <3>3. Account(p, ioPins[p], up, pulses[p] + 1, missed[p])
      BY <1>1, <1>4, <1>5, <2>2, <2>3, <3>2, PulseCounted
    <3>4. QED BY <2>3, <3>1, <3>3
  <2>4. CASE q # p
    <3>1. ioPins[q].unit # u
      BY <1>1, <1>2, <2>4 DEF TypeOK
    <3>2. /\ pulses'[q] = pulses[q]
          /\ register'[ioPins[q].unit] = register[ioPins[q].unit]
      <4>1. ioPins[q].unit \in Unit
        BY <1>1, LoadedPins DEF OfKind
      <4>2. QED BY <1>2, <1>4, <2>4, <3>1, <4>1
    <3>3. QED BY <2>2, <3>2
  <2>5. QED BY <2>3, <2>4
<1>11. QED BY <1>8, <1>9, <1>10 DEF LocalInv

LEMMA ResetKeeps ==
  ASSUME LocalInv, NEW p \in Name, resetPulseCounter(p)
  PROVE  LocalInv'
<1> DEFINE u == ioPins[p].unit
           counters == OfKind("counter")
           pin == resetCounter(ioPins[p], now)
<1>1. /\ TypeOK /\ CountLimit \in Nat \ {0} /\ now \in Time
      /\ MaxPulses \in Nat
  BY Memories, PinsAssumption, LocalIOAssumption
<1>2. /\ p \in counters
      /\ ioPins' = [ioPins EXCEPT ![p] = pin]
      /\ register' = [register EXCEPT ![u] = 0]
      /\ pulses' = [pulses EXCEPT ![p] = 0]
      /\ missed' = [missed EXCEPT ![p] = 0]
      /\ UNCHANGED <<now, level, gap, pcntUnitsUsed, enabled,
                     pinsEnabled, mappings, plcMemory, memory, seen>>
  BY DEF resetPulseCounter, switches, program
<1>3. UNCHANGED <<Loaded, OfKind("input"), OfKind("counter")>>
  BY <1>2 DEF Loaded, OfKind
<1>4. /\ register \in [Unit -> 0 .. CountLimit - 1] /\ u \in Unit
      /\ pulses \in [counters -> 0 .. MaxPulses]
      /\ missed \in [counters -> 0 .. MaxPulses] /\ kind(p) = "counter"
  BY <1>1, <1>2, LoadedPins DEF TypeOK, OfKind
<1>5. /\ Counts(pin) /\ pin.unit = u /\ pin.total = 0 /\ pin.lastCount = 0
  <2>1. Counts(ioPins[p])
    BY <1>2 DEF LocalInv, TotalsCount, Account
  <2>2. QED BY <1>1, <2>1, CounterReset
<1> HIDE DEF pin
<1>6. /\ \A q \in Loaded : ioPins'[q] = IF q = p THEN pin ELSE ioPins[q]
      /\ \A q \in counters : ioPins'[q].unit = ioPins[q].unit
      /\ p \notin OfKind("input")
  BY <1>2, <1>5 DEF Loaded, OfKind
<1>7. TypeOK'
  <2>1. register' \in [Unit -> 0 .. CountLimit - 1]
    <3>1. 0 \in 0 .. CountLimit - 1
      BY <1>1
    <3>2. QED BY <1>2, <1>4, <3>1
  <2>2. /\ pulses' \in [counters -> 0 .. MaxPulses]
        /\ missed' \in [counters -> 0 .. MaxPulses]
    <3>1. 0 \in 0 .. MaxPulses
      BY <1>1
    <3>2. QED BY <1>2, <1>4, <3>1
  <2>3. \A q \in Loaded : ioPins'[q] \in PinState(q)
    <3>1. pin \in PinState(p)
      BY <1>4, <1>5, States DEF Counts
    <3>2. QED BY <1>1, <1>6, <3>1, LoadedPins
  <2>4. /\ {ioPins'[q].unit : q \in counters} \subseteq pcntUnitsUsed
        /\ \A q, r \in counters :
             q # r => ioPins'[q].unit # ioPins'[r].unit
    <3>1. /\ \A q \in counters : ioPins[q].unit \in pcntUnitsUsed
          /\ \A q, r \in counters :
               q # r => ioPins[q].unit # ioPins[r].unit
      BY <1>1 DEF TypeOK
    <3>2. \A q \in counters : ioPins'[q].unit = ioPins[q].unit
      BY <1>6
    <3> HIDE DEF counters
    <3>3. QED BY <3>1, <3>2
  <2>5. QED BY <1>1, <1>2, <1>3, <2>1, <2>2, <2>3, <2>4 DEF TypeOK
<1>8. InputsFit'
  <2>1. \A q \in OfKind("input") : ioPins'[q] = ioPins[q]
    BY <1>6 DEF OfKind
  <2>2. QED BY <1>2, <1>3, <2>1 DEF LocalInv, InputsFit
<1>9. TotalsCount'
  <2>1. SUFFICES ASSUME NEW q \in counters
                 PROVE  Account(q, ioPins'[q], register'[ioPins'[q].unit],
                                pulses'[q], missed'[q])
    BY <1>3 DEF TotalsCount
  <2>2. q \in Loaded
    BY DEF OfKind
  <2>3. CASE q = p
    <3>1. /\ ioPins'[q] = pin /\ pulses'[q] = 0 /\ missed'[q] = 0
          /\ register'[ioPins'[q].unit] = 0
      BY <1>2, <1>4, <1>5, <1>6, <2>2, <2>3
    <3>2. QED BY <1>5, <3>1, AccountBegins
  <2>4. CASE q # p
    <3>1. ioPins[q].unit # u
      BY <1>1, <1>2, <2>4 DEF TypeOK
    <3>2. /\ pulses'[q] = pulses[q] /\ ioPins'[q] = ioPins[q]
          /\ missed'[q] = missed[q]
          /\ register'[ioPins[q].unit] = register[ioPins[q].unit]
      <4>1. ioPins[q].unit \in Unit
        BY <1>1, LoadedPins DEF OfKind
      <4>2. QED BY <1>2, <1>4, <1>6, <2>2, <2>4, <3>1, <4>1
    <3>3. QED BY <3>2 DEF LocalInv, TotalsCount
  <2>5. QED BY <2>3, <2>4
<1>10. QED BY <1>7, <1>8, <1>9 DEF LocalInv

------------------------------------------------------------------------------
LEMMA LoadKeeps ==
  ASSUME LocalInv, NEW file \in Files, loadConfig(file), loadPLCMapping(file)
  PROVE  LocalInv'
<1> DEFINE built == Built(file.pins)
           pins == built.pins
           counting == Counting(pins)
           taken == {pins[p].unit : p \in counting}
           inputs == {p \in DOMAIN pins : kind(p) = "input"}
           First(p) == [level |-> level[p], age |-> 0,
                        agreed |-> IF PinConfig[p].debounceMs = 0 THEN 1 ELSE 0]
<1>1. TypeOK /\ now \in Time /\ gap \in 0 .. MaxGap /\ MaxGap \in Nat
      /\ CountLimit \in Nat \ {0} /\ MaxPulses \in Nat
  BY Memories, LocalIOAssumption, PinsAssumption
<1>2. /\ file.pins \in Seq(Name) /\ file.inputs \in Seq(PLCMapping)
      /\ file.outputs \in Seq(PLCMapping)
  BY LocalIOAssumption
<1>3. built \in Builds
  BY <1>1, <1>2, AllPinsAdded
<1>4. /\ ioPins' = pins /\ pcntUnitsUsed' = built.used
      /\ register' = [u \in Unit |-> IF u \in taken THEN 0 ELSE register[u]]
      /\ pulses' = [p \in counting |-> 0]
      /\ missed' = [p \in counting |-> 0]
      /\ seen' = [p \in inputs |-> First(p)]
      /\ pinsEnabled' = TRUE
      /\ UNCHANGED <<now, level, gap, enabled, plcMemory, memory>>
  BY DEF loadConfig
<1> HIDE DEF built
<1>5. /\ pins \in PinTables /\ built.used \in SUBSET Unit
      /\ \A p \in DOMAIN pins : Started(p, pins[p])
      /\ OwnUnits(pins, built.used)
  BY <1>3 DEF Builds
<1> HIDE DEF pins
<1>6. DOMAIN pins \subseteq Name \ Broken
  BY <1>5 DEF PinTables
<1>7. /\ Loaded' = DOMAIN pins /\ OfKind("input")' = inputs
      /\ OfKind("counter")' = counting
  BY <1>4 DEF Loaded, OfKind, Counting
<1>8. ASSUME NEW p \in counting
      PROVE  /\ Counts(pins[p]) /\ pins[p].total = 0 /\ pins[p].lastCount = 0
             /\ register'[pins[p].unit] = 0
  <2>1. Counts(pins[p]) /\ pins[p].total = 0 /\ pins[p].lastCount = 0
    BY <1>5 DEF Counting, Started
  <2>2. pins[p].unit \in Unit /\ pins[p].unit \in taken
    BY <2>1 DEF Counts, PulseCounter
  <2>3. QED
    <3> HIDE DEF taken, counting
    <3> QED BY <1>4, <2>1, <2>2
<1>9. ASSUME NEW p \in inputs
      PROVE  seen'[p] \in Sight(p) /\ Fits(p, pins[p], seen'[p], now, gap)
  <2>1. /\ p \in Name /\ kind(p) = "input" /\ level[p] \in {0, 1}
        /\ pins[p] = BeginDigitalInput(p, level[p], now)
    BY <1>1, <1>5, <1>6, Levelled DEF Started
  <2> DEFINE s == First(p)
             l == level[p]
  <2>2. s = [level |-> l, age |-> 0,
             agreed |-> IF PinConfig[p].debounceMs = 0 THEN 1 ELSE 0]
    OBVIOUS
  <2>3. seen'[p] = s
    BY <1>4
  <2>4. l \in {0, 1} /\ pins[p] = BeginDigitalInput(p, l, now) /\ gap \in Nat
    BY <1>1, <2>1
  <2> HIDE DEF s, l, inputs
  <2>5. s \in Sight(p) /\ Fits(p, BeginDigitalInput(p, l, now), s, now, gap)
    BY <1>1, <2>1, <2>2, <2>4, BeginFits
  <2>6. QED BY <2>3, <2>4, <2>5
<1>10. TypeOK'
  <2>1. register' \in [Unit -> 0 .. CountLimit - 1]
    <3>1. 0 \in 0 .. CountLimit - 1 /\ register \in [Unit -> 0 .. CountLimit - 1]
      BY <1>1 DEF TypeOK
    <3> HIDE DEF taken
    <3>2. QED BY <1>4, <3>1
  <2>2. /\ pulses' \in [counting -> 0 .. MaxPulses]
        /\ missed' \in [counting -> 0 .. MaxPulses]
    <3>1. 0 \in 0 .. MaxPulses
      BY <1>1
    <3>2. QED BY <1>4, <3>1
  <2>3. \A p \in DOMAIN pins : pins[p] \in PinState(p)
    BY <1>5 DEF Started
  <2>4. /\ {pins[p].unit : p \in counting} \subseteq built.used
        /\ \A p, q \in counting : p # q => pins[p].unit # pins[q].unit
    BY <1>5 DEF OwnUnits
  <2>5. mappings' \in [inputs : Seq(PLCMapping), outputs : Seq(PLCMapping)]
    <3>1. mappings \in [inputs : Seq(PLCMapping), outputs : Seq(PLCMapping)]
      BY <1>1 DEF TypeOK
    <3>2. [inputs |-> file.inputs, outputs |-> file.outputs]
            \in [inputs : Seq(PLCMapping), outputs : Seq(PLCMapping)]
      BY <1>2
    <3>3. QED BY <3>1, <3>2 DEF loadPLCMapping
  <2>6. DOMAIN seen' = inputs
        /\ \A p \in inputs : seen'[p] \in Sight(p)
    BY <1>4, <1>9
  <2>7. /\ now' \in Time /\ gap' \in 0 .. MaxGap
        /\ DOMAIN level' = Name /\ \A p \in Name : level'[p] \in Levels(p)
        /\ enabled' \in BOOLEAN /\ plcMemory' \in BOOLEAN
        /\ pinsEnabled' \in BOOLEAN /\ (enabled' => pinsEnabled')
        /\ memory' \in [Var -> Int \cup {NaN}]
    BY <1>1, <1>4 DEF TypeOK
  <2> HIDE DEF counting, inputs, taken
  <2>8. QED
    BY <1>4, <1>5, <1>6, <1>7, <2>1, <2>2, <2>3, <2>4, <2>5, <2>6, <2>7
    DEF TypeOK, Sight
<1>11. TotalsCount'
  <2>1. \A p \in counting : pulses'[p] = 0 /\ missed'[p] = 0
    BY <1>4
  <2> HIDE DEF counting, taken
  <2>2. \A p \in counting :
          Account(p, pins[p], register'[pins[p].unit], pulses'[p], missed'[p])
    BY <1>8, <2>1, AccountBegins
  <2>3. QED BY <1>4, <1>7, <2>2 DEF TotalsCount
<1>12. InputsFit'
  <2> HIDE DEF inputs
  <2>1. QED BY <1>4, <1>7, <1>9 DEF InputsFit
<1>13. QED BY <1>10, <1>11, <1>12 DEF LocalInv

(* The last of some mappings.                                              *)
LEMMA LatestOf ==
  ASSUME NEW n \in Nat, NEW S \in SUBSET (1 .. n), S # {}
  PROVE  Latest(S) \in S /\ \A j \in S : j <= Latest(S)
<1> DEFINE T == {k \in Nat : \E i \in S : k = n - i}
<1>1. T # {} /\ T \in SUBSET Nat
  <2>1. PICK i \in S : TRUE
    OBVIOUS
  <2>2. n - i \in T
    BY <2>1
  <2>3. QED BY <2>2
<1>2. PICK k \in T : \A m \in T : k <= m
  <2> HIDE DEF T
  <2> QED BY <1>1, LeastNatural
<1>3. PICK i \in S : k = n - i
  BY <1>2
<1>4. \A j \in S : j <= i
  <2>1. SUFFICES ASSUME NEW j \in S
                 PROVE  j <= i
    OBVIOUS
  <2>2. n - j \in T
    BY <2>1
  <2>3. k <= n - j
    BY <1>2, <2>2
  <2>4. QED BY <1>3, <2>3
<1>5. QED BY <1>3, <1>4 DEF Latest

(* What a program reads, of pins in any state.                             *)
Readable(pins) ==
  /\ DOMAIN pins = Loaded
  /\ \A p \in Loaded : /\ pins[p] \in PinState(p)
                       /\ kind(p) = "counter" => Counts(pins[p])

LEMMA ShownNumbers ==
  ASSUME TypeOK, NEW pins, Readable(pins), NEW p \in Loaded, NEW type,
         type \in Type
  PROVE  Shown(pins, p, type) \in Int \cup {NaN}
<1>1. /\ pins[p] \in PinState(p) /\ type \in {"bool", "real", "int"}
      /\ kind(p) \in {"input", "output", "analog", "pwm", "counter"}
      /\ kind(p) = "counter" => Counts(pins[p])
  BY LoadedPins DEF Readable, Type
<1>2. CASE kind(p) \in {"input", "output"}
  BY <1>2 DEF Shown
<1>3. CASE kind(p) = "counter"
  <2>1. pins[p].total \in Int /\ pins[p].rate \in Int
    BY <1>1, <1>3 DEF Counts, PulseCounter
  <2>2. CounterShown(pins[p], type) \in Int
    BY <1>1, <2>1 DEF CounterShown
  <2>3. QED BY <1>3, <2>2 DEF Shown
<1>4. CASE kind(p) = "analog"
  <2>1. pins[p].value \in 0 .. MaxReading \cup {NaN} /\ MaxReading \in Nat
    <3>1. pins[p] \in AnalogInput(p)
      BY <1>1, <1>4, States
    <3>2. QED BY <3>1, PinsAssumption DEF AnalogInput
  <2>2. Bool(pins[p].value) \in Int
    BY DEF Bool
  <2>3. Shown(pins, p, type) = IF type = "bool" THEN Bool(pins[p].value)
                                                ELSE pins[p].value
    BY <1>4 DEF Shown
  <2>4. QED BY <2>1, <2>2, <2>3
<1>5. CASE kind(p) = "pwm"
  <2> DEFINE duty == pins[p].value
             x == duty * DutySteps
  <2>1. /\ duty \in 0 .. MaxDuty \cup {NaN} /\ MaxDuty \in Nat \ {0}
        /\ DutySteps \in Nat
    <3>1. pins[p] \in PWMOutput
      BY <1>1, <1>5, States
    <3>2. QED BY <3>1, PinsAssumption DEF PWMOutput
  <2> HIDE DEF duty
  <2>2. duty # NaN => x \div MaxDuty \in Int
    <3>1. duty # NaN => x \in Int
      BY <2>1
    <3> HIDE DEF x
    <3>2. QED BY <2>1, <3>1
  <2>3. Bool(duty) \in Int
    BY DEF Bool
  <2>4. DutyShown(duty, type) =
          IF type = "bool" THEN Bool(duty)
          ELSE IF type = "real" \/ duty = NaN THEN duty ELSE x \div MaxDuty
    BY <1>1 DEF DutyShown
  <2> HIDE DEF x
  <2>5. DutyShown(duty, type) \in Int \cup {NaN}
    BY <2>1, <2>2, <2>3, <2>4
  <2>6. QED BY <1>5, <2>5 DEF Shown, duty
<1>6. QED BY <1>1, <1>2, <1>3, <1>4, <1>5

LEMMA AsNumbers ==
  ASSUME NEW type, NEW n \in Int \cup {NaN}
  PROVE  As(type, n) \in Int \cup {NaN}
BY DEF As, Bool

LEMMA MappingsOf ==
  ASSUME TypeOK
  PROVE  /\ \A i \in DOMAIN mappings.inputs :
              mappings.inputs[i] \in PLCMapping
         /\ \A i \in DOMAIN mappings.outputs :
              mappings.outputs[i] \in PLCMapping
         /\ \A pins, v : Stored(pins, v) \in SUBSET (1 .. Len(mappings.inputs))
         /\ \A p : Driving(p) \in SUBSET (1 .. Len(mappings.outputs))
         /\ Len(mappings.inputs) \in Nat /\ Len(mappings.outputs) \in Nat
<1>1. /\ mappings.inputs \in Seq(PLCMapping)
      /\ mappings.outputs \in Seq(PLCMapping)
  BY DEF TypeOK
<1>2. /\ \A pins, v : Stored(pins, v) \subseteq DOMAIN mappings.inputs
      /\ \A p : Driving(p) \subseteq DOMAIN mappings.outputs
  BY DEF Stored, Driving
<1>3. QED BY <1>1, <1>2

LEMMA ReadNumbers ==
  ASSUME LocalInv, NEW pins, Readable(pins)
  PROVE  Read(pins) \in [Var -> Int \cup {NaN}]
<1>1. TypeOK /\ memory \in [Var -> Int \cup {NaN}]
  BY Memories
<1>2. ASSUME NEW v \in Var, Stored(pins, v) # {}
      PROVE  LET m == mappings.inputs[Latest(Stored(pins, v))]
             IN  Shown(pins, m.ioPinName, m.type) \in Int \cup {NaN}
  <2> DEFINE S == Stored(pins, v)
             m == mappings.inputs[Latest(S)]
  <2>1. Latest(S) \in S
    <3> HIDE DEF S
    <3>1. S \in SUBSET (1 .. Len(mappings.inputs)) /\ S # {}
          /\ Len(mappings.inputs) \in Nat
      BY <1>1, <1>2, MappingsOf DEF S
    <3>2. QED BY <3>1, LatestOf
  <2>2. m.ioPinName \in Loaded
    BY <2>1 DEF Stored, Readable
  <2>3. m.type \in Type
    BY <1>1, <2>1, MappingsOf DEF Stored, PLCMapping
  <2> HIDE DEF m
  <2>4. Shown(pins, m.ioPinName, m.type) \in Int \cup {NaN}
    BY <1>1, <2>2, <2>3, ShownNumbers
  <2>5. QED BY <2>4 DEF m
<1>3. QED BY <1>1, <1>2 DEF Read

LEMMA DrivenKept ==
  ASSUME LocalInv, NEW pins, Readable(pins),
         NEW values \in [Var -> Int \cup {NaN}], NEW p \in Loaded
  PROVE  /\ DOMAIN Driven(pins, values) = Loaded
         /\ Driven(pins, values)[p] \in PinState(p)
         /\ kind(p) \in {"input", "counter", "analog"} =>
              Driven(pins, values)[p] = pins[p]
<1>1. /\ TypeOK /\ p \in Name
      /\ DOMAIN pins = Loaded /\ pins[p] \in PinState(p)
  BY Memories, LoadedPins DEF Readable
<1>2. DOMAIN Driven(pins, values) = Loaded
  BY <1>1 DEF Driven
<1>3. CASE Driving(p) = {}
  BY <1>1, <1>2, <1>3 DEF Driven
<1>4. CASE Driving(p) # {}
  <2> DEFINE S == Driving(p)
             m == mappings.outputs[Latest(S)]
             n == As(m.type, values[m.plcVarName])
  <2>1. Latest(S) \in S
    <3> HIDE DEF S
    <3>1. S \in SUBSET (1 .. Len(mappings.outputs)) /\ S # {}
          /\ Len(mappings.outputs) \in Nat
      BY <1>1, <1>4, MappingsOf DEF S
    <3>2. QED BY <3>1, LatestOf
  <2>2. m \in PLCMapping
    BY <1>1, <2>1, MappingsOf DEF Driving
  <2>3. values[m.plcVarName] \in Int \cup {NaN}
    BY <2>2 DEF PLCMapping
  <2>4. n \in Int \cup {NaN}
    BY <2>3, AsNumbers
  <2>5. Driven(pins, values)[p] = Write(p, pins[p], n)
    BY <1>1, <1>4 DEF Driven
  <2> HIDE DEF n
  <2>6. QED BY <1>1, <1>2, <2>4, <2>5, WriteKeeps
<1>5. QED BY <1>3, <1>4

(* One round of updates.                                                   *)
LEMMA UpdateKeeps ==
  ASSUME LocalInv, NEW p \in Loaded
  PROVE  /\ Updated(p) \in PinState(p)
         /\ kind(p) = "input" =>
              /\ Sampled(p) \in Sight(p)
              /\ Fits(p, Updated(p), Sampled(p), now, 0)
              /\ /\ PinConfig[p].filterSamples = 0
                 /\ Updated(p).value # ioPins[p].value
                 => Sampled(p).age >= PinConfig[p].debounceMs
         /\ kind(p) = "counter" =>
              /\ Counts(Updated(p))
              /\ Updated(p).unit = ioPins[p].unit
              /\ Updated(p).total =
                   ioPins[p].total
                     + (register[ioPins[p].unit] - ioPins[p].lastCount)
              /\ Updated(p).lastCount = IF Samples(p, ioPins[p], now) THEN 0
                                        ELSE register[ioPins[p].unit]
              /\ Updated(p).high = (register[ioPins[p].unit] > 0)
<1>1. /\ TypeOK /\ now \in Time /\ gap \in Nat
      /\ p \in Name /\ ioPins[p] \in PinState(p)
      /\ kind(p) \in {"input", "output", "analog", "pwm", "counter"}
  BY Memories, LoadedPins, LocalIOAssumption
<1>2. CASE kind(p) = "input"
  <2> DEFINE pin == ioPins[p]
             s == seen[p]
             s2 == Sampled(p)
             l == level[p]
  <2>1. pin \in DigitalInput(p) /\ s \in Sight(p) /\ l \in {0, 1}
    BY <1>1, <1>2, LoadedPins, Levelled
  <2>2. Fits(p, pin, s, now, gap)
    BY <1>2 DEF LocalInv, InputsFit, OfKind
  <2>3. s2 = LET settled == AgeOf(s, l) >= PinConfig[p].debounceMs
             IN  [level |-> l, age |-> AgeOf(s, l),
                  agreed |-> IF settled /\ l = s.level
                             THEN Smaller(s.agreed + 1, Enough(p))
                             ELSE IF settled THEN 1 ELSE 0]
    BY DEF Sampled, AgeOf
  <2>4. Updated(p) = UpdateDigitalInput(p, pin, l, now)
    BY <1>2 DEF Updated
  <2>5. PinState(p) = DigitalInput(p)
    BY <1>2, States
  <2> HIDE DEF pin, s, s2, l
  <2>6. /\ UpdateDigitalInput(p, pin, l, now) \in DigitalInput(p)
        /\ s2 \in Sight(p)
        /\ Fits(p, UpdateDigitalInput(p, pin, l, now), s2, now, 0)
        /\ /\ PinConfig[p].filterSamples = 0
           /\ UpdateDigitalInput(p, pin, l, now).value # pin.value
           => s2.age >= PinConfig[p].debounceMs
    BY <1>1, <1>2, <2>1, <2>2, <2>3, SampleFits
  <2>7. QED BY <1>2, <2>4, <2>5, <2>6 DEF pin, s2
<1>3. CASE kind(p) = "analog"
  <2>1. /\ ioPins[p] \in AnalogInput(p) /\ PinState(p) = AnalogInput(p)
        /\ Updated(p) = UpdateAnalogInput(p, ioPins[p], level[p])
        /\ level[p] \in 0 .. MaxReading
    BY <1>1, <1>3, LoadedPins, States, Levelled DEF Updated
  <2>2. QED BY <1>1, <1>3, <2>1, AnalogKept
<1>4. CASE kind(p) = "output"
  <2>1. /\ ioPins[p] \in DigitalOutput /\ PinState(p) = DigitalOutput
        /\ Updated(p) = UpdateDigitalOutput(p, ioPins[p], now)
    BY <1>1, <1>4, LoadedPins, States DEF Updated
  <2>2. QED BY <1>1, <1>4, <2>1, OutputsKept
<1>5. CASE kind(p) = "pwm"
  BY <1>1, <1>5 DEF Updated
<1>6. CASE kind(p) = "counter"
  <2> DEFINE count == register[ioPins[p].unit]
             pin == ioPins[p]
             f == UpdatePulseCounter(p, pin, count, now)
  <2>1. Updated(p) = f /\ PinState(p) = PulseCounter
    BY <1>6, States DEF Updated
  <2>2. count \in 0 .. CountLimit - 1
    BY <1>1, <1>6, LoadedPins
  <2>3. Counts(pin)
    BY <1>1, <1>6 DEF LocalInv, TotalsCount, Account, OfKind
  <2> HIDE DEF count, pin
  <2>4. /\ Counts(f) /\ f.unit = pin.unit
        /\ f.total = pin.total + (count - pin.lastCount)
        /\ f.lastCount = IF Samples(p, pin, now) THEN 0 ELSE count
        /\ f.high = (count > 0)
    BY <1>1, <1>6, <2>2, <2>3, CounterKept
  <2> HIDE DEF f
  <2>5. f \in PulseCounter
    BY <2>4 DEF Counts
  <2>6. QED BY <1>6, <2>1, <2>4, <2>5 DEF count, pin
<1>7. QED BY <1>1, <1>2, <1>3, <1>4, <1>5, <1>6

UpdatedPins == [p \in Loaded |-> Updated(p)]

LEMMA UpdatedReadable ==
  ASSUME LocalInv
  PROVE  Readable(UpdatedPins)
BY UpdateKeeps DEF Readable, UpdatedPins

LEMMA RoundPins ==
  ASSUME LocalInv, Round
  PROVE  /\ memory' \in [Var -> Int \cup {NaN}]
         /\ DOMAIN ioPins' = Loaded
         /\ \A p \in Loaded :
              /\ ioPins'[p] \in PinState(p)
              /\ kind(p) \in {"input", "counter", "analog"} =>
                   ioPins'[p] = Updated(p)
<1>1. Readable(UpdatedPins)
  BY UpdatedReadable
<1>2. syncWithPLC(UpdatedPins)
  BY DEF Round, loop, UpdatedPins
<1>3. CASE plcMemory
  <2>1. memory' = Read(UpdatedPins) /\ ioPins' = Driven(UpdatedPins, memory')
    BY <1>2, <1>3 DEF syncWithPLC
  <2>2. memory' \in [Var -> Int \cup {NaN}]
    BY <1>1, <2>1, ReadNumbers
  <2>3. PICK values \in [Var -> Int \cup {NaN}] : values = memory'
    BY <2>2
  <2>4. ioPins' = Driven(UpdatedPins, values)
    BY <2>1, <2>3
  <2>5. DOMAIN Driven(UpdatedPins, values) = Loaded
    <3>1. DOMAIN UpdatedPins = Loaded
      BY DEF UpdatedPins
    <3>2. QED BY <3>1 DEF Driven
  <2>6. ASSUME NEW p \in Loaded
        PROVE  /\ ioPins'[p] \in PinState(p)
               /\ kind(p) \in {"input", "counter", "analog"} =>
                    ioPins'[p] = Updated(p)
    <3>1. /\ Driven(UpdatedPins, values)[p] \in PinState(p)
          /\ kind(p) \in {"input", "counter", "analog"} =>
               Driven(UpdatedPins, values)[p] = UpdatedPins[p]
      BY <1>1, DrivenKept
    <3>2. QED BY <2>4, <3>1 DEF UpdatedPins
  <2>7. QED BY <2>2, <2>4, <2>5, <2>6
<1>4. CASE ~plcMemory
  <2>1. memory' = memory /\ ioPins' = UpdatedPins
    BY <1>2, <1>4 DEF syncWithPLC
  <2>2. QED BY <2>1, Memories, UpdateKeeps DEF UpdatedPins
<1>5. QED BY <1>3, <1>4

(* What the account says: no less than nothing is counted, and no more     *)
(* than there was.                                                         *)
LEMMA AccountBounds ==
  ASSUME LocalInv, NEW p \in OfKind("counter")
  PROVE  /\ Counted(p) \in Nat
         /\ missed[p] <= pulses[p] /\ Counted(p) <= pulses[p] - missed[p]
         /\ \E n \in 0 .. MaxPulses :
              pulses[p] = Counted(p) + missed[p] + n * CountLimit
         /\ PinConfig[p].mode # "FREQUENCY" =>
              missed[p] = 0 /\ Counted(p) < CountLimit
<1>1. TypeOK /\ CountLimit \in Nat \ {0} /\ p \in Loaded /\ kind(p) = "counter"
  BY Memories, PinsAssumption DEF OfKind
<1>2. Account(p, ioPins[p], register[ioPins[p].unit], pulses[p], missed[p])
  BY DEF LocalInv, TotalsCount
<1> DEFINE c == Counted(p)
           count == register[ioPins[p].unit]
<1>3. /\ count \in 0 .. CountLimit - 1
      /\ pulses[p] \in 0 .. MaxPulses /\ missed[p] \in 0 .. MaxPulses
      /\ ioPins[p].total \in Int /\ ioPins[p].lastCount \in Int
      /\ ioPins[p].total >= ioPins[p].lastCount
  <2>1. Counts(ioPins[p])
    BY <1>2 DEF Account
  <2>2. QED BY <1>1, <2>1, LoadedPins DEF Counts, PulseCounter
<1>4. c \in Nat /\ c >= count
  <2>1. c = ioPins[p].total + (count - ioPins[p].lastCount)
    BY DEF Counted
  <2> HIDE DEF c, count
  <2>2. QED BY <1>1, <1>3, <2>1
<1>5. PICK n \in Nat : pulses[p] = c + missed[p] + n * CountLimit
  BY <1>2 DEF Account, Counted
<1> DEFINE x == n * CountLimit
<1>6. x \in Nat /\ x >= n
  BY <1>1, OnceMore
<1>7. pulses[p] = c + missed[p] + x
  BY <1>5
<1>8. PinConfig[p].mode # "FREQUENCY" => missed[p] = 0 /\ c = count
  <2>1. PinConfig[p].mode # "FREQUENCY" =>
          missed[p] = 0 /\ ioPins[p].total = ioPins[p].lastCount
    BY <1>2 DEF Account
  <2>2. c = ioPins[p].total + (count - ioPins[p].lastCount)
    BY DEF Counted
  <2> HIDE DEF c, count
  <2>3. QED BY <1>1, <1>3, <2>1, <2>2
<1> HIDE DEF x, c, count
<1>9. /\ missed[p] <= pulses[p] /\ c <= pulses[p] - missed[p]
      /\ n \in 0 .. MaxPulses
  BY <1>3, <1>4, <1>6, <1>7, LocalIOAssumption
<1>10. PinConfig[p].mode # "FREQUENCY" => missed[p] = 0 /\ c < CountLimit
  BY <1>1, <1>3, <1>8
<1>11. \E k \in 0 .. MaxPulses : pulses[p] = c + missed[p] + k * CountLimit
  BY <1>7, <1>9 DEF x
<1>12. QED BY <1>4, <1>9, <1>10, <1>11 DEF c

(* What a round makes of a counter.                                        *)
LEMMA RoundCounts ==
  ASSUME LocalInv, Round, NEW p \in OfKind("counter")
  PROVE  /\ Counts(ioPins'[p]) /\ ioPins'[p].unit = ioPins[p].unit
         /\ ioPins[p].unit \in Unit
         /\ ioPins'[p].total = Counted(p)
         /\ ioPins'[p].lastCount = register'[ioPins[p].unit]
         /\ PinConfig[p].mode # "FREQUENCY" =>
              register'[ioPins[p].unit] = register[ioPins[p].unit]
<1>1. TypeOK /\ p \in Loaded /\ kind(p) = "counter"
  BY Memories DEF OfKind
<1>2. PICK arrived \in Arrivals : Cleared(arrived)
  BY DEF Round
<1>3. ioPins'[p] = Updated(p)
  BY <1>1, RoundPins
<1>4. ioPins[p].unit \in Unit
  BY <1>1, LoadedPins
<1>5. (\E q \in Sampling : ioPins[q].unit = ioPins[p].unit)
        <=> Samples(p, ioPins[p], now)
  BY <1>1 DEF TypeOK, Sampling
<1>6. register'[ioPins[p].unit] =
        IF Samples(p, ioPins[p], now) THEN 0 ELSE register[ioPins[p].unit]
  BY <1>2, <1>4, <1>5 DEF Cleared
<1>7. QED BY <1>1, <1>3, <1>4, <1>6, UpdateKeeps DEF Counted, Samples

LEMMA RoundKeeps ==
  ASSUME LocalInv, Round
  PROVE  LocalInv'
<1> DEFINE counters == OfKind("counter")
<1>1. /\ TypeOK /\ now \in Time /\ MaxGap \in Nat
      /\ CountLimit \in Nat \ {0} /\ MaxPulses \in Nat
  BY Memories, LocalIOAssumption, PinsAssumption
<1>2. /\ memory' \in [Var -> Int \cup {NaN}]
      /\ DOMAIN ioPins' = Loaded
      /\ \A p \in Loaded :
           /\ ioPins'[p] \in PinState(p)
           /\ kind(p) \in {"input", "counter", "analog"} =>
                ioPins'[p] = Updated(p)
  BY RoundPins
<1>3. PICK arrived \in Arrivals : Cleared(arrived)
  BY DEF Round
<1>13. /\ gap' = 0 /\ seen' = [p \in DOMAIN seen |-> Sampled(p)]
       /\ UNCHANGED <<now, level, pcntUnitsUsed, enabled, pinsEnabled,
                      mappings, plcMemory>>
  BY DEF Round, switches
<1>4. UNCHANGED <<Loaded, OfKind("input"), OfKind("counter")>>
  BY <1>2 DEF Loaded, OfKind
<1>5. DOMAIN seen = OfKind("input")
  BY <1>1 DEF TypeOK
<1>6. ASSUME NEW p \in OfKind("input")
      PROVE  /\ seen'[p] \in Sight(p)
             /\ Fits(p, ioPins'[p], seen'[p], now, 0)
  <2>1. p \in Loaded /\ kind(p) = "input"
    BY DEF OfKind
  <2>2. ioPins'[p] = Updated(p) /\ seen'[p] = Sampled(p)
    BY <1>2, <1>13, <1>5, <2>1
  <2>3. QED BY <2>1, <2>2, UpdateKeeps
<1>7. ASSUME NEW p \in counters
      PROVE  \E n \in 0 .. MaxPulses :
               /\ pulses'[p] = pulses[p] + n /\ missed'[p] = missed[p] + n
               /\ pulses'[p] <= MaxPulses
               /\ PinConfig[p].mode # "FREQUENCY" => n = 0
  <2>1. /\ p \in DOMAIN pulses /\ p \in DOMAIN missed
        /\ pulses[p] \in 0 .. MaxPulses /\ missed[p] \in 0 .. MaxPulses
    BY <1>1 DEF TypeOK
  <2>2. CASE p \in Sampling
    <3>1. arrived[p] \in 0 .. MaxPulses /\ pulses[p] + arrived[p] <= MaxPulses
      BY <1>3, <2>2 DEF Arrivals
    <3>2. PinConfig[p].mode = "FREQUENCY"
      BY <2>2 DEF Sampling, Samples
    <3>3. pulses'[p] = pulses[p] + arrived[p]
          /\ missed'[p] = missed[p] + arrived[p]
      BY <1>3, <2>1, <2>2 DEF Cleared
    <3>4. QED BY <3>1, <3>2, <3>3
  <2>3. CASE p \notin Sampling
    <3>1. pulses'[p] = pulses[p] /\ missed'[p] = missed[p]
      BY <1>3, <2>1, <2>3 DEF Cleared
    <3>2. /\ pulses[p] + 0 = pulses[p] /\ missed[p] + 0 = missed[p]
          /\ 0 \in 0 .. MaxPulses /\ pulses[p] <= MaxPulses
      BY <1>1, <2>1
    <3>3. QED BY <3>1, <3>2
  <2>4. QED BY <2>2, <2>3
<1>8. ASSUME NEW p \in counters
      PROVE  /\ Counts(ioPins'[p]) /\ ioPins'[p].unit = ioPins[p].unit
             /\ ioPins[p].unit \in Unit
             /\ ioPins'[p].total = Counted(p)
             /\ ioPins'[p].lastCount = register'[ioPins[p].unit]
             /\ PinConfig[p].mode # "FREQUENCY" =>
                  register'[ioPins[p].unit] = register[ioPins[p].unit]
  BY RoundCounts
<1>9. TypeOK'
  <2>1. register' \in [Unit -> 0 .. CountLimit - 1]
    <3>1. 0 \in 0 .. CountLimit - 1 /\ register \in [Unit -> 0 .. CountLimit - 1]
      BY <1>1 DEF TypeOK
    <3>2. QED BY <1>3, <3>1 DEF Cleared
  <2>2. DOMAIN seen' = OfKind("input") /\ gap' \in 0 .. MaxGap
    BY <1>1, <1>13, <1>5
  <2>3. /\ {ioPins'[q].unit : q \in counters} \subseteq pcntUnitsUsed
        /\ \A q, r \in counters :
             q # r => ioPins'[q].unit # ioPins'[r].unit
    <3>1. /\ \A q \in counters : ioPins[q].unit \in pcntUnitsUsed
          /\ \A q, r \in counters :
               q # r => ioPins[q].unit # ioPins[r].unit
      BY <1>1 DEF TypeOK
    <3>2. \A q \in counters : ioPins'[q].unit = ioPins[q].unit
      BY <1>8
    <3> HIDE DEF counters
    <3>3. QED BY <3>1, <3>2
  <2>4. /\ pulses' \in [counters -> 0 .. MaxPulses]
        /\ missed' \in [counters -> 0 .. MaxPulses]
    <3>1. DOMAIN pulses' = counters /\ DOMAIN missed' = counters
      BY <1>1, <1>3 DEF TypeOK, Cleared
    <3>2. ASSUME NEW p \in counters
          PROVE  pulses'[p] \in 0 .. MaxPulses /\ missed'[p] \in 0 .. MaxPulses
      <4>1. pulses[p] \in 0 .. MaxPulses /\ missed[p] \in 0 .. MaxPulses
        BY <1>1 DEF TypeOK
      <4>2. missed[p] <= pulses[p]
        BY <1>1, AccountBounds
      <4>3. QED BY <1>1, <1>7, <4>1, <4>2
    <3>3. /\ pulses' = [p \in counters |-> pulses'[p]]
          /\ missed' = [p \in counters |-> missed'[p]]
      BY <1>1, <1>3 DEF TypeOK, Cleared
    <3> HIDE DEF counters
    <3>4. QED BY <3>2, <3>3
  <2>5. QED
    BY <1>1, <1>2, <1>13, <1>4, <1>6, <2>1, <2>2, <2>3, <2>4 DEF TypeOK, Sight
<1>10. TotalsCount'
  <2>1. SUFFICES ASSUME NEW p \in counters
                 PROVE  Account(p, ioPins'[p], register'[ioPins'[p].unit],
                                pulses'[p], missed'[p])
    BY <1>4 DEF TotalsCount
  <2> DEFINE pin == ioPins'[p]
             count == register'[ioPins[p].unit]
             old == Counted(p)
  <2>2. PICK k \in 0 .. MaxPulses :
          /\ pulses'[p] = pulses[p] + k /\ missed'[p] = missed[p] + k
          /\ PinConfig[p].mode # "FREQUENCY" => k = 0
    BY <1>7
  <2>3. /\ pulses[p] \in Int /\ missed[p] \in Int /\ k \in Int
        /\ pin.total \in Int /\ pin.lastCount \in Int /\ count \in Int
    <3>1. pulses[p] \in 0 .. MaxPulses /\ missed[p] \in 0 .. MaxPulses
      BY <1>1 DEF TypeOK
    <3>2. pin \in PulseCounter /\ ioPins[p].unit \in Unit
      BY <1>8 DEF Counts
    <3>3. register' \in [Unit -> 0 .. CountLimit - 1]
      BY <1>9 DEF TypeOK
    <3>4. QED BY <1>1, <3>1, <3>2, <3>3 DEF PulseCounter
  <2>4. Account(p, ioPins[p], register[ioPins[p].unit], pulses[p], missed[p])
    BY DEF LocalInv, TotalsCount
  <2>5. PICK n \in Nat : pulses[p] = old + missed[p] + n * CountLimit
    BY <2>4 DEF Account, Counted
  <2>6. Counts(pin) /\ pin.total = old /\ pin.lastCount = count
        /\ pin.unit = ioPins[p].unit
    BY <1>8
  <2>7. PinConfig[p].mode # "FREQUENCY" =>
          missed'[p] = 0 /\ pin.total = pin.lastCount
    <3>1. ASSUME PinConfig[p].mode # "FREQUENCY"
          PROVE  missed[p] = 0 /\ old = register[ioPins[p].unit]
      <4>1. /\ missed[p] = 0 /\ ioPins[p].total = ioPins[p].lastCount
            /\ Counts(ioPins[p])
        BY <2>4, <3>1 DEF Account
      <4>2. ioPins[p].total \in Int /\ register[ioPins[p].unit] \in Int
        BY <1>1, <1>8, <3>1, <4>1, <2>3 DEF Counts, PulseCounter
      <4>3. QED BY <4>1, <4>2 DEF Counted
    <3>2. QED BY <1>8, <2>2, <2>3, <2>6, <3>1
  <2> DEFINE x == n * CountLimit
  <2>8. x \in Int
    BY <1>1, OnceMore
  <2>9. pulses[p] = old + missed[p] + x
    BY <2>5
  <2> HIDE DEF x, old, pin, count
  <2>10. pulses'[p] = (pin.total + (count - pin.lastCount)) + missed'[p] + x
    BY <2>2, <2>3, <2>6, <2>8, <2>9
  <2>11. Account(p, pin, count, pulses'[p], missed'[p])
    BY <2>6, <2>7, <2>10 DEF Account, x
  <2>12. QED BY <2>6, <2>11 DEF pin, count
<1>11. InputsFit'
  BY <1>13, <1>4, <1>6 DEF InputsFit
<1>12. QED BY <1>9, <1>10, <1>11 DEF LocalInv

LEMMA NextLocal ==
  ASSUME LocalInv, [Next]_vars
  PROVE  LocalInv'
<1>1. CASE \E file \in Files : loadConfig(file) /\ loadPLCMapping(file)
  BY <1>1, LoadKeeps
<1>2. CASE Round
  BY <1>2, RoundKeeps
<1>3. CASE \E p \in Name : \/ \E n \in {0, 1, MaxDuty} : writePin(p, n)
                           \/ \E n \in -1 .. MaxDuty + 1 : setPWMDutyCycle(p, n)
                           \/ Pulse(p) \/ toggle(p)
                           \/ resetPulseCounter(p) \/ PulseArrives(p)
  <2>1. PICK p \in Name : \/ \E n \in {0, 1, MaxDuty} : writePin(p, n)
                          \/ \E n \in -1 .. MaxDuty + 1 : setPWMDutyCycle(p, n)
                          \/ Pulse(p) \/ toggle(p)
                          \/ resetPulseCounter(p) \/ PulseArrives(p)
    BY <1>3
  <2>2. CASE \E n \in {0, 1, MaxDuty} : writePin(p, n)
    <3>1. PICK n \in {0, 1, MaxDuty} : writePin(p, n)
      BY <2>2
    <3>2. n \in Int
      BY PinsAssumption
    <3>3. QED BY <3>1, <3>2, CommandsKeep
  <2>3. CASE \E n \in -1 .. MaxDuty + 1 : setPWMDutyCycle(p, n)
    <3>1. PICK n \in -1 .. MaxDuty + 1 : setPWMDutyCycle(p, n)
      BY <2>3
    <3>2. n \in Int
      BY PinsAssumption
    <3>3. QED BY <3>1, <3>2, CommandsKeep
  <2>4. CASE Pulse(p) \/ toggle(p)
    <3>1. 0 \in Int
      OBVIOUS
    <3>2. QED BY <2>4, <3>1, CommandsKeep
  <2>5. CASE resetPulseCounter(p)
    BY <2>5, ResetKeeps
  <2>6. CASE PulseArrives(p)
    BY <2>6, PulseKeeps
  <2>7. QED BY <2>1, <2>2, <2>3, <2>4, <2>5, <2>6
<1>4. CASE \E p \in Name, n \in 0 .. MaxReading : SetLevel(p, n)
  BY <1>4, LevelKeeps
<1>5. CASE setSafeState
  BY <1>5, SafeKeeps
<1>6. CASE \/ \E enable \in BOOLEAN : setEnabled(enable)
           \/ \E given \in BOOLEAN : setPlcMemory(given)
           \/ \E v \in Var, n \in {-1, 0, MaxDuty} : ProgramWrites(v, n)
           \/ UNCHANGED vars
  BY <1>6, ProgramKeeps
<1>7. CASE Tick
  BY <1>7, TickKeeps
<1>8. QED
  BY <1>1, <1>2, <1>3, <1>4, <1>5, <1>6, <1>7 DEF Next

(* The inductive invariant holds in every behaviour of the manager.        *)
THEOREM LocalInvariant == Spec => []LocalInv
<1>1. Init => LocalInv
  BY InitLocal
<1>2. LocalInv /\ [Next]_vars => LocalInv'
  BY NextLocal
<1>3. QED BY <1>1, <1>2, PTL DEF Spec
------------------------------------------------------------------------------
(* The state of the manager, its pins, its history and the program's       *)
(* memory always has its type: no counter's total becomes negative, two    *)
(* pulse counters never share a unit, and a PWM output stays within 100 %  *)
(* or NaN.                                                                 *)
THEOREM LocalTypeCorrect == Spec => []TypeOK
<1>1. LocalInv => TypeOK
  BY DEF LocalInv
<1>2. QED BY <1>1, LocalInvariant, PTL

(* PulseCounterPin::update and resetCounter: a counter's total, with what  *)
(* the hardware has counted since, is the pulses since it began or was     *)
(* reset, but for those between the reading and the clearing of a sample   *)
(* (PulseCounterPin.h:99, :117) and one full count for each time the       *)
(* hardware went back to 0; without samples, it is what the hardware has.  *)
THEOREM PulsesCounted == Spec => []PulsesAccounted
<1>1. LocalInv => PulsesAccounted
  <2>1. SUFFICES ASSUME LocalInv, NEW p \in OfKind("counter")
                 PROVE  /\ Counted(p) \in 0 .. pulses[p] - missed[p]
                        /\ \E n \in 0 .. MaxPulses :
                             pulses[p] = Counted(p) + missed[p] + n * CountLimit
                        /\ PinConfig[p].mode # "FREQUENCY" =>
                             missed[p] = 0 /\ Counted(p) < CountLimit
    BY DEF PulsesAccounted
  <2>2. pulses[p] \in Int /\ missed[p] \in Int
    BY <2>1, Memories DEF TypeOK
  <2> DEFINE c == Counted(p)
             d == pulses[p] - missed[p]
  <2>3. c \in Nat /\ c <= d /\ d \in Int
    BY <2>1, <2>2, AccountBounds
  <2> HIDE DEF c, d
  <2>4. c \in 0 .. d
    BY <2>3
  <2>5. QED BY <2>1, <2>4, AccountBounds DEF c, d
<1>2. QED BY <1>1, LocalInvariant, PTL

(* DigitalInputPin::update: a level that has been there for the debounce   *)
(* time, in as many samples as the filter has, is what the input shows.    *)
THEOREM LastingLevelsSeen == Spec => []LastingSeen
<1>1. LocalInv => LastingSeen
  <2>1. SUFFICES ASSUME LocalInv, NEW p \in OfKind("input"),
                        seen[p].agreed = Enough(p)
                 PROVE  ioPins[p].value =
                          ((seen[p].level = 1) # PinConfig[p].invert)
    BY DEF LastingSeen
  <2>2. Fits(p, ioPins[p], seen[p], now, gap)
    BY <2>1 DEF LocalInv, InputsFit
  <2>3. QED BY <2>1, <2>2 DEF Fits, Raw
<1>2. QED BY <1>1, LocalInvariant, PTL

(* DigitalInputPin::update: an input without a filter does not follow a    *)
(* level before all samples have shown it for the debounce time.           *)
THEOREM InputsDebounced == Spec => Debounced
<1> DEFINE Step == Round =>
                     \A p \in OfKind("input") :
                       /\ PinConfig[p].filterSamples = 0
                       /\ ioPins'[p].value # ioPins[p].value
                       => seen'[p].age >= PinConfig[p].debounceMs
<1>1. LocalInv /\ [Next]_vars => [Step]_vars
  <2>1. SUFFICES ASSUME LocalInv, Round, NEW p \in OfKind("input"),
                        PinConfig[p].filterSamples = 0,
                        ioPins'[p].value # ioPins[p].value
                 PROVE  seen'[p].age >= PinConfig[p].debounceMs
    OBVIOUS
  <2>2. p \in Loaded /\ kind(p) = "input"
    BY DEF OfKind
  <2>3. ioPins'[p] = Updated(p)
    BY <2>1, <2>2, RoundPins
  <2>4. p \in DOMAIN seen
    BY <2>1, Memories DEF TypeOK
  <2>5. seen'[p] = Sampled(p)
    BY <2>1, <2>4 DEF Round
  <2>6. QED BY <2>1, <2>2, <2>3, <2>5, UpdateKeeps
<1>2. QED BY <1>1, LocalInvariant, PTL DEF Spec, Debounced

(* The last mapping of a variable, or of an output, decides.               *)
LEMMA LastDecides ==
  ASSUME NEW n \in Nat, NEW S \in SUBSET (1 .. n), NEW i \in S,
         \A j \in S : ~(j > i)
  PROVE  Latest(S) = i
<1>1. Latest(S) \in S /\ \A j \in S : j <= Latest(S)
  BY LatestOf
<1> DEFINE k == Latest(S)
<1>2. k \in 1 .. n /\ i \in 1 .. n /\ ~(k > i) /\ i <= k
  BY <1>1
<1> HIDE DEF k
<1>3. k = i
  BY <1>2
<1>4. QED BY <1>3 DEF k

LEMMA InputsRead ==
  ASSUME LocalInv, Round, plcMemory, NEW i \in DOMAIN mappings.inputs,
         NEW p \in Loaded \ Outputs, mappings.inputs[i].ioPinName = p,
         \A j \in DOMAIN mappings.inputs :
           j > i =>
             mappings.inputs[j].plcVarName # mappings.inputs[i].plcVarName
  PROVE  ReadIn(p, mappings.inputs[i].type,
                memory'[mappings.inputs[i].plcVarName])
<1> DEFINE m == mappings.inputs[i]
           v == m.plcVarName
           S == Stored(UpdatedPins, v)
<1>1. TypeOK /\ p \in Loaded /\ p \notin Outputs /\ m.ioPinName = p
  BY Memories
<1>2. m \in PLCMapping /\ v \in Var /\ m.type \in {"bool", "real", "int"}
  BY <1>1, MappingsOf DEF PLCMapping, Type
<1>3. /\ i \in S /\ \A j \in S : ~(j > i)
      /\ S \in SUBSET (1 .. Len(mappings.inputs))
      /\ Len(mappings.inputs) \in Nat
  <2>1. DOMAIN UpdatedPins = Loaded
    BY DEF UpdatedPins
  <2>2. i \in S /\ \A j \in S : ~(j > i)
    BY <1>1, <2>1 DEF Stored
  <2>3. QED BY <1>1, <2>2, MappingsOf
<1>4. Latest(S) = i
  <2> HIDE DEF S
  <2> QED BY <1>3, LastDecides
<1>5. memory' = Read(UpdatedPins)
  BY DEF Round, loop, syncWithPLC, UpdatedPins
<1>6. Read(UpdatedPins)[v] = Shown(UpdatedPins, p, m.type)
  <2>1. S # {}
    BY <1>3
  <2>2. Read(UpdatedPins)[v] =
          Shown(UpdatedPins, mappings.inputs[Latest(S)].ioPinName,
                mappings.inputs[Latest(S)].type)
    BY <1>2, <2>1 DEF Read
  <2>3. QED BY <1>1, <1>4, <2>2
<1>7. kind(p) \in {"input", "counter", "analog"}
  BY <1>1, LoadedPins DEF Outputs, OfKind
<1>8. ioPins'[p] = Updated(p) /\ UpdatedPins[p] = Updated(p)
  BY <1>1, <1>7, RoundPins DEF UpdatedPins
<1> DEFINE n == memory'[v]
           type == m.type
<1>9. n = Shown(UpdatedPins, p, type) /\ type \in {"bool", "real", "int"}
  BY <1>2, <1>5, <1>6
<1> HIDE DEF n, type, S, m, v
<1>10. ASSUME kind(p) = "input"
       PROVE  ReadIn(p, type, n)
  <2>1. n = IF Updated(p).value THEN 1 ELSE 0
    BY <1>8, <1>9, <1>10 DEF Shown
  <2>2. QED BY <1>8, <1>10, <2>1 DEF ReadIn
<1>11. ASSUME kind(p) = "analog"
       PROVE  ReadIn(p, type, n)
  <2>1. n = IF type = "bool" THEN Bool(Updated(p).value) ELSE Updated(p).value
    BY <1>8, <1>9, <1>11 DEF Shown
  <2>2. CASE type = "bool"
    BY <1>8, <1>11, <2>1, <2>2 DEF ReadIn, Bool
  <2>3. CASE type # "bool"
    BY <1>8, <1>11, <2>1, <2>3 DEF ReadIn
  <2>4. QED BY <2>2, <2>3
<1>12. ASSUME kind(p) = "counter"
       PROVE  ReadIn(p, type, n)
  <2>1. p \in OfKind("counter")
    BY <1>1, <1>12 DEF OfKind
  <2>2. n = CounterShown(Updated(p), type)
    BY <1>8, <1>9, <1>12 DEF Shown
  <2>3. Updated(p).high = (register[ioPins[p].unit] > 0)
    BY <1>1, <1>12, UpdateKeeps
  <2>4. Updated(p).total = Counted(p)'
    <3>2. Updated(p).lastCount = register'[Updated(p).unit]
      BY <1>8, <2>1, RoundCounts
    <3>3. /\ Updated(p).total \in Int /\ Updated(p).lastCount \in Int
      <4>1. Updated(p) \in PulseCounter
        BY <1>1, <1>12, UpdateKeeps DEF Counts
      <4>2. QED BY <4>1, PinsAssumption DEF PulseCounter
    <3>4. Counted(p)' = Updated(p).total
                          + (register'[Updated(p).unit] - Updated(p).lastCount)
      BY <1>8 DEF Counted
    <3>5. QED BY <3>2, <3>3, <3>4
  <2>5. CASE type = "bool"
    <3>1. n = IF register[ioPins[p].unit] > 0 THEN 1 ELSE 0
      BY <2>2, <2>3, <2>5 DEF CounterShown
    <3>2. QED BY <1>12, <2>5, <3>1 DEF ReadIn
  <2>6. CASE type = "real"
    <3>1. n = Updated(p).rate
      BY <2>2, <2>6 DEF CounterShown
    <3>2. QED BY <1>8, <1>12, <2>6, <3>1 DEF ReadIn
  <2>7. CASE type = "int"
    <3>1. n = Counted(p)'
      BY <2>2, <2>4, <2>7 DEF CounterShown
    <3>2. QED BY <1>12, <2>7, <3>1 DEF ReadIn
  <2>8. QED BY <1>9, <2>5, <2>6, <2>7
<1>13. ReadIn(p, type, n)
  BY <1>7, <1>10, <1>11, <1>12
<1>14. QED BY <1>13 DEF n, type, v, m

LEMMA OutputsWritten ==
  ASSUME LocalInv, Round, plcMemory, NEW i \in DOMAIN mappings.outputs,
         NEW p \in Outputs, mappings.outputs[i].ioPinName = p,
         mappings.outputs[i].type # "int",
         \A j \in DOMAIN mappings.outputs :
           j > i => mappings.outputs[j].ioPinName # p
  PROVE  WrittenOut(p, mappings.outputs[i].type,
                    memory'[mappings.outputs[i].plcVarName])
<1> DEFINE m == mappings.outputs[i]
           S == Driving(p)
<1>1. /\ TypeOK /\ p \in Loaded /\ m.type # "int"
      /\ kind(p) = "output" \/ kind(p) = "pwm"
  BY Memories DEF Outputs, OfKind
<1>2. m \in PLCMapping /\ m.plcVarName \in Var
  BY <1>1, MappingsOf DEF PLCMapping
<1>3. /\ i \in S /\ \A j \in S : ~(j > i)
      /\ S \in SUBSET (1 .. Len(mappings.outputs))
      /\ Len(mappings.outputs) \in Nat
  <2>1. i \in S /\ \A j \in S : ~(j > i)
    BY <1>1 DEF Driving
  <2>2. QED BY <1>1, <2>1, MappingsOf
<1>4. Latest(S) = i /\ S # {}
  <2> HIDE DEF S
  <2> QED BY <1>3, LastDecides
<1>5. Readable(UpdatedPins) /\ DOMAIN UpdatedPins = Loaded
  BY UpdatedReadable DEF Readable
<1>6. ioPins' = Driven(UpdatedPins, memory')
  BY DEF Round, loop, syncWithPLC, UpdatedPins
<1> DEFINE n == As(m.type, memory'[m.plcVarName])
           old == UpdatedPins[p]
<1>7. Driven(UpdatedPins, memory')[p] = Write(p, old, n)
  <2>1. Driven(UpdatedPins, memory')[p] =
          Write(p, old, As(mappings.outputs[Latest(S)].type,
                           memory'[mappings.outputs[Latest(S)].plcVarName]))
    BY <1>1, <1>4, <1>5 DEF Driven
  <2>2. QED BY <1>4, <2>1
<1>8. old \in PinState(p)
  BY <1>1, <1>5 DEF Readable
<1>9. ioPins'[p] = Write(p, old, n)
  BY <1>6, <1>7
<1> HIDE DEF n, old
<1>10. CASE kind(p) = "output"
  <2> DEFINE b == Positive(n)
  <2>1. old \in DigitalOutput
    BY <1>8, <1>10, States
  <2>2. ioPins'[p] = [old EXCEPT !.value = b]
    BY <1>9, <1>10 DEF Write
  <2> HIDE DEF b
  <2>3. ioPins'[p].value = b
    BY <2>1, <2>2 DEF DigitalOutput
  <2>4. QED BY <1>10, <2>3 DEF WrittenOut, b, n
<1>11. CASE kind(p) = "pwm"
  <2> DEFINE d == Clamped(n)
  <2>1. old \in PWMOutput
    BY <1>8, <1>11, States
  <2>2. ioPins'[p] = [old EXCEPT !.value = d]
    BY <1>9, <1>11 DEF Write, setDutyCycle
  <2> HIDE DEF d
  <2>3. ioPins'[p].value = d
    BY <2>1, <2>2 DEF PWMOutput
  <2>4. QED BY <1>11, <2>3 DEF WrittenOut, d, n
<1>12. QED BY <1>1, <1>10, <1>11

(* LocalIOManager::syncWithPLC: after a round the program has what each    *)
(* input shows in it, the pulses, the rate or whether the hardware has     *)
(* counted for a counter, and the outputs, duty cycles too, are what the   *)
(* program has: of several mappings to one variable, or to one output, the *)
(* last decides. Outputs mapped as an int are not written.                 *)
THEOREM ImagesConsistent == Spec => ImageConsistent
<1> DEFINE
  InputsAre ==
    \A i \in DOMAIN mappings.inputs, p \in Loaded \ Outputs :
      LET m == mappings.inputs[i]
      IN  /\ m.ioPinName = p
          /\ \A j \in DOMAIN mappings.inputs :
               j > i => mappings.inputs[j].plcVarName # m.plcVarName
          => ReadIn(p, m.type, memory'[m.plcVarName])
  OutputsAre ==
    \A i \in DOMAIN mappings.outputs, p \in Outputs :
      LET m == mappings.outputs[i]
      IN  /\ m.ioPinName = p /\ m.type # "int"
          /\ \A j \in DOMAIN mappings.outputs :
               j > i => mappings.outputs[j].ioPinName # p
          => WrittenOut(p, m.type, memory'[m.plcVarName])
  Step == Round /\ plcMemory => InputsAre /\ OutputsAre
<1>1. LocalInv /\ Round /\ plcMemory => InputsAre
  BY InputsRead
<1>2. LocalInv /\ Round /\ plcMemory => OutputsAre
  BY OutputsWritten
<1>3. LocalInv /\ [Next]_vars => [Step]_vars
  <2> HIDE DEF InputsAre, OutputsAre
  <2> QED BY <1>1, <1>2
<1>4. QED BY <1>3, LocalInvariant, PTL DEF Spec, ImageConsistent
==============================================================================
