--------------------------- MODULE MeshExportProofs --------------------------
(***************************************************************************)
(* The mesh export, for any hubs, variables, types, intervals, timeouts    *)
(* and clocks: a change that lasts is sent in time, silence is seen, and a *)
(* subscription outlasts the messages its timeout leaves room for.         *)
(***************************************************************************)
EXTENDS MeshExport, FiniteSetTheorems, SequenceTheorems, TLAPS

(* Times that wrap at N. *)
LEMMA Lap ==
  ASSUME NEW N \in Nat \ {0}, NEW x \in -(N - 1) .. 2 * N - 1
  PROVE  /\ x % N = IF x < 0 THEN x + N ELSE IF x < N THEN x ELSE x - N
         /\ x % N \in 0 .. N - 1
OBVIOUS

LEMMA Laps ==
  ASSUME NEW m \in Time, NEW t \in Time
  PROVE  /\ (m - t) % Clock = IF t <= m THEN m - t ELSE m - t + Clock
         /\ (m - t) % Clock \in 0 .. Clock - 1
<1>1. Clock \in Nat \ {0} /\ m \in 0 .. Clock - 1 /\ t \in 0 .. Clock - 1
  BY MeshExportAssumption DEF Time
<1> DEFINE x == m - t
<1>2. x \in -(Clock - 1) .. 2 * Clock - 1 /\ (x < 0 <=> ~(t <= m)) /\ x < Clock
  BY <1>1
<1>3. /\ x % Clock = IF x < 0 THEN x + Clock ELSE IF x < Clock THEN x
                                                          ELSE x - Clock
      /\ x % Clock \in 0 .. Clock - 1
  <2> HIDE DEF x
  <2> QED BY <1>1, <1>2, Lap
<1>4. QED BY <1>2, <1>3

(* One tick makes every time a tick longer, or a whole lap short.          *)
LEMMA LapsTick ==
  ASSUME NEW m \in Time, NEW t \in Time
  PROVE  /\ (m + 1) % Clock \in Time
         /\ (((m + 1) % Clock) - t) % Clock =
              IF (m - t) % Clock = Clock - 1 THEN 0 ELSE ((m - t) % Clock) + 1
<1>1. Clock \in Nat \ {0} /\ m \in 0 .. Clock - 1 /\ t \in 0 .. Clock - 1
  BY MeshExportAssumption DEF Time
<1> DEFINE x == m + 1
           n == x % Clock
<1>2. x \in -(Clock - 1) .. 2 * Clock - 1 /\ x \in 1 .. Clock
  BY <1>1
<1>3. /\ n = IF x < 0 THEN x + Clock ELSE IF x < Clock THEN x ELSE x - Clock
      /\ n \in 0 .. Clock - 1
  <2> HIDE DEF x
  <2> QED BY <1>1, <1>2, Lap
<1>4. n = (IF m + 1 < Clock THEN m + 1 ELSE 0) /\ n \in Time
  BY <1>1, <1>2, <1>3 DEF Time
<1> HIDE DEF n
<1>5. (m - t) % Clock = IF t <= m THEN m - t ELSE m - t + Clock
  BY Laps
<1>6. (n - t) % Clock = IF t <= n THEN n - t ELSE n - t + Clock
  BY <1>4, Laps
<1>7. (n - t) % Clock =
        IF (m - t) % Clock = Clock - 1 THEN 0 ELSE ((m - t) % Clock) + 1
  BY <1>1, <1>4, <1>5, <1>6
<1>8. QED BY <1>4, <1>7 DEF n
------------------------------------------------------------------------------
(* Messages on their way, as far as it matters which they are.             *)
Carries(m, p) == m.type = "sync" /\ m.hub = p[1] /\ m.var = p[2]
Carried(q, p) == \E i \in DOMAIN q : Carries(q[i], p)
NotFrom(q, h) == \A i \in DOMAIN q : q[i].hub # h

LEMMA NothingCarried ==
  ASSUME NEW p, NEW h
  PROVE  ~Carried(<< >>, p) /\ NotFrom(<< >>, h)
BY DEF Carried, NotFrom

LEMMA RestCarried ==
  ASSUME NEW M, NEW q \in Seq(M), q # << >>, NEW p, NEW h
  PROVE  /\ Head(q) \in M /\ Tail(q) \in Seq(M)
         /\ Carries(Head(q), p) => Carried(q, p)
         /\ Carried(Tail(q), p) => Carried(q, p)
         /\ Carried(q, p) => Carries(Head(q), p) \/ Carried(Tail(q), p)
         /\ NotFrom(q, h) => Head(q).hub # h /\ NotFrom(Tail(q), h)
<1>1. /\ Head(q) \in M /\ Tail(q) \in Seq(M) /\ Head(q) = q[1]
      /\ Len(q) \in Nat \ {0} /\ Len(Tail(q)) = Len(q) - 1
      /\ \A i \in 1 .. Len(Tail(q)) : Tail(q)[i] = q[i + 1]
      /\ DOMAIN q = 1 .. Len(q) /\ DOMAIN Tail(q) = 1 .. Len(Tail(q))
  OBVIOUS
<1>2. 1 \in DOMAIN q /\ \A i \in DOMAIN Tail(q) : i + 1 \in DOMAIN q
  BY <1>1
<1>3. \A i \in DOMAIN q : i = 1 \/ (i - 1 \in DOMAIN Tail(q)
                                      /\ Tail(q)[i - 1] = q[i])
  BY <1>1
<1>4. QED BY <1>1, <1>2, <1>3 DEF Carried, NotFrom

LEMMA BothCarried ==
  ASSUME NEW M, NEW q \in Seq(M), NEW r \in Seq(M), NEW p, NEW h
  PROVE  /\ q \o r \in Seq(M)
         /\ Carried(q \o r, p) <=> Carried(q, p) \/ Carried(r, p)
         /\ NotFrom(q, h) /\ NotFrom(r, h) => NotFrom(q \o r, h)
<1>1. /\ q \o r \in Seq(M) /\ Len(q) \in Nat /\ Len(r) \in Nat
      /\ DOMAIN (q \o r) = 1 .. Len(q) + Len(r)
      /\ DOMAIN q = 1 .. Len(q) /\ DOMAIN r = 1 .. Len(r)
  OBVIOUS
<1>2. \A i \in DOMAIN (q \o r) :
        \/ i \in DOMAIN q /\ (q \o r)[i] = q[i]
        \/ i - Len(q) \in DOMAIN r /\ (q \o r)[i] = r[i - Len(q)]
  BY <1>1
<1>3. /\ \A i \in DOMAIN q : i \in DOMAIN (q \o r) /\ (q \o r)[i] = q[i]
      /\ \A i \in DOMAIN r : /\ i + Len(q) \in DOMAIN (q \o r)
                             /\ (q \o r)[i + Len(q)] = r[i]
  BY <1>1
<1>4. QED BY <1>1, <1>2, <1>3 DEF Carried, NotFrom

(* The community module's sequence of a set has its elements and no other. *)
LEMMA SequenceOfSet ==
  ASSUME NEW S, IsFiniteSet(S)
  PROVE  /\ SetToSeq(S) \in Seq(S)
         /\ \A m \in S : \E i \in DOMAIN SetToSeq(S) : SetToSeq(S)[i] = m
<1> DEFINE n == Cardinality(S)
           q == SetToSeq(S)
<1>1. n \in Nat /\ ExistsBijection(1 .. n, S)
  BY FS_CardinalityType
<1>2. PICK f \in [1 .. n -> S] : IsInjective(f)
  BY <1>1 DEF ExistsBijection, Bijection, Injection
<1>3. q \in [1 .. n -> S] /\ IsInjective(q)
  BY <1>2 DEF SetToSeq
<1>4. q \in Injection(1 .. n, S)
  BY <1>3 DEF Injection
<1>5. Cardinality(1 .. n) = n
  BY <1>1, FS_Interval
<1>6. q \in Surjection(1 .. n, S)
  <2> HIDE DEF q
  <2> QED BY <1>4, <1>5, FS_Injection
<1>7. QED BY <1>1, <1>3, <1>6 DEF Surjection

(* What the hub that has the rules for due tells the others.               *)
LEMMA MessagesCarried ==
  ASSUME TypeOK, NEW due \in SUBSET Published, NEW h, \A q \in due : q[1] # h
  PROVE  LET sent == SetToSeq({Message(q) : q \in due})
         IN  /\ sent \in Seq(Sync \cup Request)
             /\ \A p \in Hub \X Var : Carried(sent, p) <=> p \in due
             /\ NotFrom(sent, h)
<1> DEFINE S == {Message(q) : q \in due}
           sent == SetToSeq(S)
<1>1. IsFiniteSet(due) /\ due \subseteq Hub \X Var
  BY FS_Subset, MeshExportAssumption
<1>2. S \subseteq Sync
  BY <1>1, MeshExportAssumption DEF TypeOK, Message, Sync
<1>3. IsFiniteSet(S)
  <2> DEFINE f == [q \in due |-> Message(q)]
  <2>1. f \in Surjection(due, S)
    BY DEF Surjection
  <2>2. QED
    <3> HIDE DEF f, S
    <3> QED BY <1>1, <2>1, FS_Surjection
<1>4. /\ sent \in Seq(S)
      /\ \A m \in S : \E i \in DOMAIN sent : sent[i] = m
  <2> HIDE DEF S
  <2> QED BY <1>3, SequenceOfSet
<1>5. \A i \in DOMAIN sent : sent[i] \in S
  <2> HIDE DEF S, sent
  <2> QED BY <1>4
<1>6. sent \in Seq(Sync \cup Request)
  <2> HIDE DEF S, sent
  <2> QED BY <1>2, <1>4
<1>7. \A q \in due, p \in Hub \X Var : Carries(Message(q), p) <=> q = p
  BY <1>1 DEF Carries, Message
<1>8. ASSUME NEW p \in Hub \X Var
      PROVE  Carried(sent, p) <=> p \in due
  <2> HIDE DEF sent
  <2>1. ASSUME NEW i \in DOMAIN sent, Carries(sent[i], p)
        PROVE  p \in due
    BY <1>5, <1>7, <2>1
  <2>2. ASSUME p \in due
        PROVE  Carried(sent, p)
    BY <1>4, <1>7, <2>2 DEF Carried
  <2>3. QED BY <2>1, <2>2 DEF Carried
<1>9. NotFrom(sent, h)
  <2> HIDE DEF sent
  <2> QED BY <1>5 DEF NotFrom, Message
<1>10. QED BY <1>6, <1>8, <1>9
------------------------------------------------------------------------------
(* Ages, in ticks.                                                         *)
Age(p) == Elapsed(publishRules[p].lastSync)
SinceCheck(h) == Elapsed(lastCheck[h])
Silence(s) == Elapsed(subscribeRules[s].lastReceived)

LEMMA Constants ==
  /\ Clock \in Nat \ {0} /\ Timeout \in Nat /\ MaxLost \in Nat
  /\ CheckPeriod \in Nat /\ CheckPeriod + 1 < Clock
  /\ Time = 0 .. Clock - 1 /\ 0 \in Time
  /\ \A interval \in Intervals : interval \in Nat
                                   /\ interval + CheckPeriod < Clock
  /\ \A p \in Published : p \in Hub \X Var /\ p[1] \in Hub /\ p[2] \in Var
  /\ \A s \in Subscribed :
       s[1] \in Hub /\ s[2] \in Hub \X Var /\ s[2][1] \in Hub
BY MeshExportAssumption DEF Time, Remote

(* What the type invariant says of the parts.                              *)
LEMMA ExportTypes ==
  ASSUME TypeOK
  PROVE  /\ now \in Time
         /\ lastCheck \in [Hub -> Time]
         /\ \A p \in DOMAIN publishRules :
              /\ p \in Published
              /\ publishRules[p] \in MeshPublishRule
              /\ publishRules[p].lastSync \in Time
              /\ publishRules[p].syncInterval \in Intervals
              /\ publishRules[p].syncOnChange \in BOOLEAN
              /\ Age(p) \in 0 .. Clock - 1
         /\ \A s \in DOMAIN subscribeRules :
              /\ s \in Subscribed
              /\ subscribeRules[s] \in MeshSubscribeRule
              /\ subscribeRules[s].lastReceived \in Time
              /\ subscribeRules[s].isStale \in BOOLEAN
              /\ Silence(s) \in 0 .. Clock - 1
         /\ \A h \in Hub : SinceCheck(h) \in 0 .. Clock - 1
         /\ net \in [Hub -> Seq(Sync \cup Request)]
         /\ lostRow \in [Subscribed -> 0 .. MaxLost]
         /\ calm \in [Subscribed -> {"no", "sent", "yes"}]
         /\ pending \in [Published -> Nat]
         /\ value \in [Published -> Value]
<1>1. \A t \in Time : Elapsed(t) \in 0 .. Clock - 1
  BY Laps DEF TypeOK, Elapsed
<1>2. \A p \in DOMAIN publishRules :
        /\ publishRules[p] \in MeshPublishRule
        /\ publishRules[p].lastSync \in Time
        /\ publishRules[p].syncInterval \in Intervals
        /\ publishRules[p].syncOnChange \in BOOLEAN
  BY DEF TypeOK, MeshPublishRule
<1>3. \A s \in DOMAIN subscribeRules :
        /\ subscribeRules[s] \in MeshSubscribeRule
        /\ subscribeRules[s].lastReceived \in Time
        /\ subscribeRules[s].isStale \in BOOLEAN
  BY DEF TypeOK, MeshSubscribeRule
<1>4. QED BY <1>1, <1>2, <1>3 DEF TypeOK, Age, Silence, SinceCheck

LEMMA NothingElapsed ==
  ASSUME TypeOK
  PROVE  Elapsed(now) = 0
BY Laps, Constants DEF TypeOK, Elapsed

(* publishVariable, for the variables that are due.                        *)
LEMMA PublishTypes ==
  ASSUME TypeOK, NEW h, NEW due \in SUBSET DOMAIN publishRules, publish(h, due)
  PROVE  /\ DOMAIN publishRules' = DOMAIN publishRules
         /\ \A p \in DOMAIN publishRules' : publishRules'[p] \in MeshPublishRule
         /\ \A p \in DOMAIN publishRules :
              /\ publishRules'[p].syncInterval = publishRules[p].syncInterval
              /\ publishRules'[p].syncOnChange = publishRules[p].syncOnChange
              /\ p \in due => publishRules'[p].lastSync = now
              /\ p \notin due => publishRules'[p] = publishRules[p]
         /\ calm' \in [Subscribed -> {"no", "sent", "yes"}]
         /\ pending' \in [Published -> Nat]
<1>1. publishRules' = [p \in DOMAIN publishRules |->
                         IF p \in due THEN Synced(p) ELSE publishRules[p]]
  BY DEF publish
<1>2. ASSUME NEW p \in DOMAIN publishRules
      PROVE  /\ Synced(p) \in MeshPublishRule
             /\ Synced(p).syncInterval = publishRules[p].syncInterval
             /\ Synced(p).syncOnChange = publishRules[p].syncOnChange
             /\ Synced(p).lastSync = now
  <2>1. Current(p) \in Type \X Value
    BY Constants, MeshExportAssumption, ExportTypes DEF Current
  <2>2. publishRules[p] \in MeshPublishRule /\ now \in Time
    BY ExportTypes
  <2>3. QED
    BY <2>1, <2>2 DEF Synced, MeshPublishRule
<1>3. calm' \in [Subscribed -> {"no", "sent", "yes"}]
  BY ExportTypes DEF publish
<1>4. pending' \in [Published -> Nat]
  BY ExportTypes DEF publish
<1>5. QED BY <1>1, <1>2, <1>3, <1>4, ExportTypes

(* What a hub broadcasts in its round or when it is asked.                 *)
LEMMA RoundSends ==
  ASSUME TypeOK, NEW h \in Hub, Check(h)
  PROVE  /\ net' \in [Hub -> Seq(Sync \cup Request)]
         /\ net'[h] = net[h]
         /\ \A g \in Hub, p \in Hub \X Var : g # h =>
              (Carried(net'[g], p) <=> Carried(net[g], p)
                                         \/ (p \in Due(h) /\ Sends(p)))
         /\ \A g \in Hub : g # h /\ NotFrom(net[g], g) => NotFrom(net'[g], g)
<1> DEFINE due == {q \in Due(h) : Sends(q)}
           sent == SetToSeq({Message(p) : p \in due})
<1>1. net' = [g \in Hub |-> IF g = h THEN net[g] ELSE net[g] \o sent]
  BY DEF Check, Broadcast
<1>2. due \in SUBSET Published /\ \A q \in due : q[1] = h
  BY ExportTypes DEF Due, Rules
<1>3. net \in [Hub -> Seq(Sync \cup Request)]
  BY ExportTypes
<1>4. ASSUME NEW g \in Hub, g # h
      PROVE  /\ sent \in Seq(Sync \cup Request)
             /\ \A p \in Hub \X Var : Carried(sent, p) <=> p \in due
             /\ NotFrom(sent, g)
  <2>1. \A q \in due : q[1] # g
    BY <1>2, <1>4
  <2> HIDE DEF due
  <2>2. QED BY <1>2, <2>1, MessagesCarried
<1> HIDE DEF sent, due
<1>5. ASSUME NEW g \in Hub, g # h
      PROVE  /\ net'[g] \in Seq(Sync \cup Request)
             /\ \A p \in Hub \X Var :
                  Carried(net'[g], p) <=> Carried(net[g], p) \/ p \in due
             /\ NotFrom(net[g], g) => NotFrom(net'[g], g)
  <2>1. net'[g] = net[g] \o sent /\ net[g] \in Seq(Sync \cup Request)
    BY <1>1, <1>3, <1>5
  <2>2. /\ sent \in Seq(Sync \cup Request)
        /\ \A p \in Hub \X Var : Carried(sent, p) <=> p \in due
        /\ NotFrom(sent, g)
    BY <1>4, <1>5
  <2>3. net[g] \o sent \in Seq(Sync \cup Request)
    BY <2>1, <2>2
  <2>4. ASSUME NEW p \in Hub \X Var
        PROVE  Carried(net'[g], p) <=> Carried(net[g], p) \/ p \in due
    <3>1. Carried(net[g] \o sent, p) <=> Carried(net[g], p) \/ Carried(sent, p)
      BY <2>1, <2>2, BothCarried
    <3>2. QED BY <2>1, <2>2, <3>1
  <2>5. NotFrom(net[g], g) => NotFrom(net[g] \o sent, g)
    BY <2>1, <2>2, BothCarried
  <2>6. QED BY <2>1, <2>3, <2>4, <2>5
<1>6. net'[h] = net[h] /\ net' \in [Hub -> Seq(Sync \cup Request)]
  BY <1>1, <1>3, <1>5
<1>7. QED BY <1>5, <1>6 DEF due

(* What the hubs have to read after one has read a message.                *)
LEMMA ReceiptSends ==
  ASSUME TypeOK, NEW h \in Hub, receivedCallback(h)
  PROVE  LET m == Head(net[h])
         IN  /\ net[h] # << >> /\ m \in Sync \cup Request
             /\ net' \in [Hub -> Seq(Sync \cup Request)]
             /\ net'[h] = Tail(net[h])
             /\ \A g \in Hub, p \in Hub \X Var : g # h =>
                  (Carried(net'[g], p) <=>
                     \/ Carried(net[g], p)
                     \/ /\ m.type = "request" /\ p = <<h, m.var>>
                        /\ p \in DOMAIN publishRules /\ Sends(p))
             /\ \A g \in Hub : NotFrom(net[g], g) => NotFrom(net'[g], g)
<1> DEFINE m == Head(net[h])
           asked == <<h, m.var>>
           answers == /\ m.type = "request" /\ asked \in DOMAIN publishRules
                      /\ Sends(asked)
<1>1. net \in [Hub -> Seq(Sync \cup Request)]
  BY ExportTypes
<1>2. /\ net[h] # << >>
      /\ net' = [g \in Hub |-> IF g = h THEN Tail(net[g])
                               ELSE net[g] \o Answer(h, m)]
  BY DEF receivedCallback
<1>3. m \in Sync \cup Request /\ Tail(net[h]) \in Seq(Sync \cup Request)
  BY <1>1, <1>2, RestCarried
<1>4. answers => Message(asked) \in Sync
  <2>1. \A p \in DOMAIN publishRules :
          p[1] \in Hub /\ p[2] \in Var /\ value[p] \in Value
    BY ExportTypes, Constants
  <2>2. QED BY <2>1 DEF Message, Sync
<1>5. Answer(h, m) = IF answers THEN <<Message(asked)>> ELSE << >>
  BY DEF Answer
<1>6. Answer(h, m) \in Seq(Sync \cup Request)
  <2> DEFINE reply == Message(asked)
  <2>1. Answer(h, m) = IF answers THEN <<reply>> ELSE << >>
    BY <1>5
  <2>2. answers => reply \in Sync \cup Request
    BY <1>4
  <2> HIDE DEF answers, reply, m
  <2>3. CASE answers
    <3>1. reply \in Sync \cup Request
      BY <2>2, <2>3
    <3>2. <<reply>> \in Seq(Sync \cup Request)
      BY <3>1
    <3>3. QED BY <2>1, <2>3, <3>2
  <2>4. CASE ~answers
    BY <2>1, <2>4
  <2>5. QED BY <2>3, <2>4
<1>7. \A p \in Hub \X Var : Carried(Answer(h, m), p) <=> answers /\ p = asked
  <2>1. ASSUME NEW p \in Hub \X Var, answers
        PROVE  Carried(Answer(h, m), p) <=> p = asked
    <3>1. \A i \in DOMAIN <<Message(asked)>> :
            <<Message(asked)>>[i] = Message(asked)
      OBVIOUS
    <3>2. 1 \in DOMAIN <<Message(asked)>>
      OBVIOUS
    <3>3. Carries(Message(asked), p) <=> p = asked
      BY DEF Carries, Message
    <3>4. QED BY <1>5, <2>1, <3>1, <3>2, <3>3 DEF Carried
  <2>2. ASSUME NEW p \in Hub \X Var, ~answers
        PROVE  ~Carried(Answer(h, m), p)
    BY <1>5, <2>2, NothingCarried
  <2> HIDE DEF answers, asked
  <2>3. QED BY <2>1, <2>2
<1>8. ASSUME NEW g \in Hub, g # h
      PROVE  NotFrom(Answer(h, m), g)
  <2>1. CASE answers
    BY <1>5, <1>8, <2>1 DEF NotFrom, Message
  <2>2. CASE ~answers
    BY <1>5, <2>2, NothingCarried
  <2>3. QED BY <2>1, <2>2
<1>9. NotFrom(net[h], h) => NotFrom(Tail(net[h]), h)
  BY <1>1, <1>2, RestCarried
<1> HIDE DEF m
<1>10. ASSUME NEW g \in Hub, g # h
       PROVE  /\ net'[g] \in Seq(Sync \cup Request)
              /\ \A p \in Hub \X Var :
                   Carried(net'[g], p) <=> Carried(net[g], p)
                                             \/ (answers /\ p = asked)
              /\ NotFrom(net[g], g) => NotFrom(net'[g], g)
  <2>1. net'[g] = net[g] \o Answer(h, m) /\ net[g] \in Seq(Sync \cup Request)
    BY <1>1, <1>2, <1>10
  <2>2. net[g] \o Answer(h, m) \in Seq(Sync \cup Request)
    BY <1>6, <2>1
  <2> HIDE DEF answers, asked
  <2>3. ASSUME NEW p \in Hub \X Var
        PROVE  Carried(net'[g], p) <=> Carried(net[g], p)
                                         \/ (answers /\ p = asked)
    <3>1. Carried(net[g] \o Answer(h, m), p)
            <=> Carried(net[g], p) \/ Carried(Answer(h, m), p)
      BY <1>6, <2>1, BothCarried
    <3>2. QED BY <1>7, <2>1, <3>1
  <2>4. NotFrom(net[g], g) => NotFrom(net[g] \o Answer(h, m), g)
    BY <1>6, <1>8, <1>10, <2>1, BothCarried
  <2>5. QED BY <2>1, <2>2, <2>3, <2>4
<1>11. net'[h] = Tail(net[h]) /\ net' \in [Hub -> Seq(Sync \cup Request)]
  BY <1>2, <1>3, <1>10
<1>12. QED BY <1>2, <1>3, <1>9, <1>10, <1>11 DEF m

(* A request goes to everybody else.                                       *)
LEMMA RequestSends ==
  ASSUME TypeOK, NEW s \in Subscribed, requestRemoteVariable(s)
  PROVE  /\ net' \in [Hub -> Seq(Sync \cup Request)]
         /\ \A g \in Hub, p \in Hub \X Var :
              Carried(net'[g], p) <=> Carried(net[g], p)
         /\ \A g \in Hub : NotFrom(net[g], g) => NotFrom(net'[g], g)
<1> DEFINE asks == [type |-> "request", hub |-> s[1], var |-> s[2][2]]
           q == <<asks>>
<1>1. /\ net \in [Hub -> Seq(Sync \cup Request)]
      /\ net' = [g \in Hub |-> IF g = s[1] THEN net[g] ELSE net[g] \o q]
  BY ExportTypes DEF requestRemoteVariable, Broadcast
<1>2. asks \in Request
  BY Constants DEF Request
<1>3. q \in Seq(Sync \cup Request)
  <2> HIDE DEF asks
  <2> QED BY <1>2
<1>4. \A i \in DOMAIN q : q[i] = asks
  OBVIOUS
<1>5. \A p : ~Carried(q, p)
  <2> HIDE DEF q
  <2> QED BY <1>4 DEF Carried, Carries
<1>6. \A g : g # s[1] => NotFrom(q, g)
  <2> HIDE DEF q
  <2> QED BY <1>4 DEF NotFrom
<1> HIDE DEF q
<1>7. ASSUME NEW g \in Hub, g # s[1]
      PROVE  /\ net'[g] \in Seq(Sync \cup Request)
             /\ \A p \in Hub \X Var : Carried(net'[g], p) <=> Carried(net[g], p)
             /\ NotFrom(net[g], g) => NotFrom(net'[g], g)
  <2>1. net'[g] = net[g] \o q /\ net[g] \in Seq(Sync \cup Request)
    BY <1>1, <1>7
  <2>2. net[g] \o q \in Seq(Sync \cup Request)
    BY <1>3, <2>1
  <2>3. ASSUME NEW p \in Hub \X Var
        PROVE  Carried(net'[g], p) <=> Carried(net[g], p)
    <3>1. Carried(net[g] \o q, p) <=> Carried(net[g], p) \/ Carried(q, p)
      BY <1>3, <2>1, BothCarried
    <3>2. QED BY <1>5, <2>1, <3>1
  <2>4. NotFrom(net[g], g) => NotFrom(net[g] \o q, g)
    BY <1>3, <1>6, <1>7, <2>1, BothCarried
  <2>5. QED BY <2>1, <2>2, <2>3, <2>4
<1>8. net'[s[1]] = net[s[1]]
  BY <1>1, Constants
<1>9. QED BY <1>1, <1>7, <1>8
------------------------------------------------------------------------------
(* The inductive invariant.  No hub's checks are more than their period    *)
(* and a tick apart.                                                       *)
ChecksRun ==
  \A h \in Hub :
    SinceCheck(h) <= IF h \in ran THEN CheckPeriod ELSE CheckPeriod + 1

(* What is fresh was so at the last check.                                 *)
FreshWhenChecked ==
  \A s \in DOMAIN subscribeRules :
    ~subscribeRules[s].isStale => Silence(s) <= Timeout + SinceCheck(s[1])

(* A change that waits is younger than the last check, or the interval had *)
(* not passed then; and it waits no longer than since the last publication *)
(* or, when that is more than a lap of millis() ago, a check's period more *)
(* than since that lap.                                                    *)
Younger(p) ==
  \/ pending[p] <= SinceCheck(p[1])
  \/ Age(p) < publishRules[p].syncInterval + SinceCheck(p[1])
ChangesWait ==
  \A p \in DOMAIN publishRules :
    /\ pending[p] > 0 => Waiting(p) /\ Younger(p)
    /\ pending[p] <= Age(p) + CheckPeriod + 1

(* Nobody hears himself.                                                   *)
InFlight(s) == Carried(net[s[1]], s[2])
FromOthers == \A h \in Hub : NotFrom(net[h], h)

(* A variable that has been published since its rule was set: its messages *)
(* arrive in the tick they are sent in, and under a periodic rule the last *)
(* check has found the interval not passed, or published.                  *)
Periodic(p) == ~publishRules[p].syncOnChange
Served(p) ==
  \/ Age(p) <= SinceCheck(p[1])
  \/ Age(p) < publishRules[p].syncInterval + SinceCheck(p[1])
ServedInTime ==
  \A s \in Subscribed : calm[s] # "no" =>
    /\ s[2] \in DOMAIN publishRules
    /\ InFlight(s) => Age(s[2]) = 0
    /\ Periodic(s[2]) => Served(s[2])

(* The longest time between two publications under a periodic rule. Each   *)
(* message lost in a row makes the silence that much longer.               *)
Gap(p) == publishRules[p].syncInterval + CheckPeriod
Regular(p) == Periodic(p) /\ publishRules[p].syncInterval > 0 /\ Sends(p)
Expected(s) == lostRow[s] * Gap(s[2])
                 + (IF InFlight(s) THEN Gap(s[2]) ELSE Age(s[2]))
LossesCount ==
  \A s \in Subscribed : calm[s] = "yes" =>
    /\ s[1] # s[2][1]
    /\ s \in DOMAIN subscribeRules /\ Regular(s[2]) => Silence(s) <= Expected(s)

ExportInv ==
  /\ TypeOK /\ ChecksRun /\ FreshWhenChecked /\ ChangesWait
  /\ FromOthers /\ ServedInTime /\ LossesCount

(* Steps that leave what a part of the invariant is about alone.           *)
LEMMA ChecksKept ==
  ASSUME ChecksRun, UNCHANGED <<now, lastCheck, ran>>
  PROVE  ChecksRun'
BY DEF ChecksRun, SinceCheck, Elapsed

LEMMA FreshKept ==
  ASSUME FreshWhenChecked, UNCHANGED <<now, lastCheck, subscribeRules>>
  PROVE  FreshWhenChecked'
BY DEF FreshWhenChecked, SinceCheck, Silence, Elapsed

LEMMA ChangesKept ==
  ASSUME ChangesWait,
         UNCHANGED <<now, lastCheck, publishRules, pending, value>>
  PROVE  ChangesWait'
BY DEF ChangesWait, Younger, SinceCheck, Age, Elapsed, Waiting, Current

LEMMA ServedKept ==
  ASSUME ServedInTime, UNCHANGED <<now, lastCheck, publishRules>>,
         \A s \in Subscribed : calm'[s] # "no" => calm[s] # "no",
         \A s \in Subscribed : InFlight(s)' => InFlight(s)
  PROVE  ServedInTime'
BY DEF ServedInTime, Periodic, Served, SinceCheck, Age, Elapsed

LEMMA LossesKept ==
  ASSUME LossesCount, UNCHANGED <<now, publishRules>>,
         NEW s \in Subscribed, calm'[s] = "yes" => calm[s] = "yes",
         s \in DOMAIN subscribeRules' =>
           /\ s \in DOMAIN subscribeRules
           /\ subscribeRules'[s] = subscribeRules[s],
         InFlight(s)' <=> InFlight(s), lostRow'[s] = lostRow[s],
         calm'[s] = "yes"
  PROVE  /\ s[1] # s[2][1]
         /\ s \in DOMAIN subscribeRules' /\ Regular(s[2])' =>
              Silence(s)' <= Expected(s)'
<1>1. Regular(s[2])' <=> Regular(s[2])
  BY DEF Regular, Periodic, Sends
<1>2. Expected(s)' = Expected(s)
  BY DEF Expected, Gap, Age, Elapsed
<1>3. s \in DOMAIN subscribeRules' => Silence(s)' = Silence(s)
  BY DEF Silence, Elapsed
<1>4. QED BY <1>1, <1>2, <1>3 DEF LossesCount
------------------------------------------------------------------------------
(* Products of natural numbers.                                            *)
LEMMA Products ==
  ASSUME NEW k \in Nat, NEW g \in Nat
  PROVE  k * g \in Nat /\ (k + 1) * g = k * g + g
OBVIOUS

LEMMA MoreProducts ==
  ASSUME NEW k \in Nat, NEW n \in Nat, k <= n, NEW g \in Nat
  PROVE  k * g <= n * g
<1>1. n - k \in Nat /\ n * g = k * g + (n - k) * g
  OBVIOUS
<1>2. (n - k) * g \in Nat /\ k * g \in Nat
  BY <1>1
<1>3. QED BY <1>1, <1>2

(* A regular publication comes within its gap.                             *)
LEMMA AgeInGap ==
  ASSUME TypeOK, ChecksRun, ServedInTime,
         NEW s \in Subscribed, calm[s] # "no", Regular(s[2])
  PROVE  /\ Age(s[2]) \in Nat /\ Gap(s[2]) \in Nat
         /\ Age(s[2]) <= Gap(s[2])
         /\ lostRow[s] * Gap(s[2]) \in Nat /\ Expected(s) \in Nat
         /\ Expected(s) <= lostRow[s] * Gap(s[2]) + Gap(s[2])
<1> DEFINE p == s[2]
           c == SinceCheck(p[1])
           i == publishRules[p].syncInterval
<1>1. p \in DOMAIN publishRules /\ Served(p) /\ i > 0
  BY DEF ServedInTime, Regular
<1>2. p[1] \in Hub /\ Age(p) \in Nat /\ i \in Nat /\ c \in Nat
  BY <1>1, ExportTypes, Constants
<1>3. c <= CheckPeriod + 1 /\ CheckPeriod \in Nat
  BY <1>2, Constants DEF ChecksRun
<1>4. Age(p) <= c \/ Age(p) < i + c
  BY <1>1 DEF Served
<1>5. Gap(p) = i + CheckPeriod
  BY DEF Gap
<1>6. Gap(p) \in Nat /\ Age(p) <= Gap(p)
  <2> HIDE DEF i, c, p
  <2> QED BY <1>1, <1>2, <1>3, <1>4, <1>5
<1>7. lostRow[s] * Gap(p) \in Nat
  BY <1>6, Products, ExportTypes, Constants
<1>8. /\ Expected(s) \in Nat
      /\ Expected(s) <= lostRow[s] * Gap(p) + Gap(p)
  <2> DEFINE loss == lostRow[s] * Gap(p)
  <2>1. Expected(s) = loss + (IF InFlight(s) THEN Gap(p) ELSE Age(p))
    BY DEF Expected
  <2> HIDE DEF loss, p
  <2>2. loss \in Nat
    BY <1>7 DEF loss
  <2>3. Expected(s) \in Nat /\ Expected(s) <= loss + Gap(p)
    BY <1>2, <1>6, <2>1, <2>2
  <2>4. QED BY <2>3 DEF loss
<1>9. QED BY <1>2, <1>6, <1>7, <1>8
------------------------------------------------------------------------------
(* A publication by hub h, in its round or because it was asked. A round   *)
(* is a check at which the interval of what is not due had not passed, or  *)
(* there was nothing to tell.                                              *)
LEMMA PublishKeeps ==
  ASSUME ExportInv, NEW h \in Hub, NEW due \in SUBSET Rules(h),
         publish(h, due), UNCHANGED <<now, value, lostRow>>,
         DOMAIN subscribeRules' = DOMAIN subscribeRules,
         \A s \in DOMAIN subscribeRules :
           subscribeRules'[s].lastReceived = subscribeRules[s].lastReceived,
         \A s \in Subscribed :
           InFlight(s)' <=> \/ InFlight(s)
                            \/ s[1] # h /\ s[2] \in due /\ Sends(s[2]),
         \A p \in DOMAIN publishRules :
           \/ SinceCheck(p[1])' = SinceCheck(p[1])
           \/ /\ SinceCheck(p[1])' = 0
              /\ p \notin due /\ (Periodic(p) \/ Waiting(p)) =>
                   Age(p) < publishRules[p].syncInterval
  PROVE  ChangesWait' /\ ServedInTime' /\ LossesCount'
<1>1. TypeOK /\ due \in SUBSET DOMAIN publishRules
  BY DEF ExportInv, Rules
<1>2. /\ DOMAIN publishRules' = DOMAIN publishRules
      /\ \A p \in DOMAIN publishRules :
           /\ publishRules'[p].syncInterval = publishRules[p].syncInterval
           /\ publishRules'[p].syncOnChange = publishRules[p].syncOnChange
           /\ p \in due => publishRules'[p].lastSync = now
           /\ p \notin due => publishRules'[p] = publishRules[p]
  BY <1>1, PublishTypes
<1>3. \A p \in DOMAIN publishRules :
        /\ p \in due => Age(p)' = 0
        /\ p \notin due => Age(p)' = Age(p)
  BY <1>1, <1>2, NothingElapsed DEF Age, Elapsed
<1>4. /\ \A p \in Published : pending'[p] = IF p \in due THEN 0 ELSE pending[p]
      /\ \A s \in Subscribed :
           calm'[s] = IF s[2] \in due /\ calm[s] = "no" THEN "sent" ELSE calm[s]
  BY DEF publish
<1>5. \A p \in DOMAIN publishRules :
        /\ p \in Published /\ p[1] \in Hub
        /\ Age(p) \in Nat /\ Age(p)' \in Nat /\ pending[p] \in Nat
        /\ publishRules[p].syncInterval \in Nat /\ SinceCheck(p[1]) \in Nat
        /\ SinceCheck(p[1])' \in Nat
  <2>1. ASSUME NEW p \in DOMAIN publishRules
        PROVE  /\ p \in Published /\ p[1] \in Hub
               /\ Age(p) \in Nat /\ pending[p] \in Nat
               /\ publishRules[p].syncInterval \in Nat
               /\ SinceCheck(p[1]) \in Nat
    <3>1. /\ p \in Published /\ Age(p) \in 0 .. Clock - 1
          /\ publishRules[p].syncInterval \in Intervals
      BY <1>1, ExportTypes
    <3>2. p[1] \in Hub /\ pending[p] \in Nat
      BY <1>1, <3>1, ExportTypes, Constants
    <3>3. SinceCheck(p[1]) \in 0 .. Clock - 1
      BY <1>1, <3>2, ExportTypes
    <3>4. QED BY <3>1, <3>2, <3>3, Constants
  <2>2. \A p \in DOMAIN publishRules : Age(p)' \in Nat
    BY <1>3, <2>1
  <2>3. QED BY <2>1, <2>2
<1>6. CheckPeriod \in Nat
  BY Constants
<1>7. ChangesWait'
  <2>1. ASSUME NEW p \in DOMAIN publishRules
        PROVE  /\ pending'[p] > 0 => Waiting(p)' /\ Younger(p)'
               /\ pending'[p] <= Age(p)' + CheckPeriod + 1
    <3>1. CASE p \in due
      <4>1. pending'[p] = 0 /\ Age(p)' = 0
        BY <1>3, <1>4, <1>5, <3>1
      <4>2. QED BY <1>6, <4>1
    <3>2. CASE p \notin due
      <4>1. pending'[p] = pending[p] /\ Age(p)' = Age(p)
        BY <1>3, <1>4, <1>5, <3>2
      <4>2. /\ pending[p] > 0 => Waiting(p) /\ Younger(p)
            /\ pending[p] <= Age(p) + CheckPeriod + 1
        BY DEF ExportInv, ChangesWait
      <4>3. Waiting(p) => Waiting(p)'
        BY <1>2, <3>2 DEF Waiting, Current
      <4>4. Waiting(p) /\ Younger(p) => Younger(p)'
        <5>1. CASE SinceCheck(p[1])' = SinceCheck(p[1])
          BY <1>2, <3>2, <4>1, <5>1 DEF Younger
        <5>2. CASE /\ SinceCheck(p[1])' = 0
                   /\ Waiting(p) => Age(p) < publishRules[p].syncInterval
          BY <1>2, <1>5, <3>2, <4>1, <5>2 DEF Younger
        <5>3. QED BY <3>2, <5>1, <5>2
      <4>5. QED BY <4>1, <4>2, <4>3, <4>4
    <3>3. QED BY <3>1, <3>2
  <2>2. QED BY <1>2, <2>1 DEF ChangesWait
<1>8. ServedInTime'
  <2>1. ASSUME NEW s \in Subscribed, calm'[s] # "no"
        PROVE  /\ s[2] \in DOMAIN publishRules'
               /\ InFlight(s)' => Age(s[2])' = 0
               /\ Periodic(s[2])' => Served(s[2])'
    <3> DEFINE p == s[2]
    <3>1. CASE p \in due
      <4>1. p \in DOMAIN publishRules' /\ Age(p)' = 0
        BY <1>1, <1>2, <1>3, <3>1
      <4>2. Served(p)'
        BY <1>1, <1>5, <3>1, <4>1 DEF Served
      <4>3. QED BY <4>1, <4>2
    <3>2. CASE p \notin due
      <4>1. calm[s] # "no"
        BY <1>4, <2>1, <3>2
      <4>2. /\ p \in DOMAIN publishRules
            /\ InFlight(s) => Age(p) = 0
            /\ Periodic(p) => Served(p)
        BY <4>1 DEF ExportInv, ServedInTime
      <4>3. Age(p)' = Age(p) /\ (InFlight(s)' => InFlight(s))
        BY <1>3, <3>2, <4>2
      <4>4. Periodic(p)' <=> Periodic(p)
        BY <1>2, <4>2 DEF Periodic
      <4>5. Periodic(p) /\ Served(p) => Served(p)'
        <5>1. CASE SinceCheck(p[1])' = SinceCheck(p[1])
          BY <1>2, <4>2, <4>3, <5>1 DEF Served
        <5>2. CASE /\ SinceCheck(p[1])' = 0
                   /\ Periodic(p) => Age(p) < publishRules[p].syncInterval
          BY <1>2, <1>5, <4>2, <4>3, <5>2 DEF Served
        <5>3. QED BY <3>2, <4>2, <5>1, <5>2
      <4>6. QED BY <1>2, <4>2, <4>3, <4>4, <4>5
    <3>3. QED BY <3>1, <3>2
  <2>2. QED BY <2>1 DEF ServedInTime
<1>9. LossesCount'
  <2>1. ASSUME NEW s \in Subscribed, calm'[s] = "yes"
        PROVE  /\ s[1] # s[2][1]
               /\ s \in DOMAIN subscribeRules' /\ Regular(s[2])' =>
                    Silence(s)' <= Expected(s)'
    <3> DEFINE p == s[2]
    <3>1. calm[s] = "yes"
      BY <1>4, <2>1
    <3>2. s[1] # p[1] /\ p \in DOMAIN publishRules
      BY <3>1 DEF ExportInv, LossesCount, ServedInTime
    <3>3. ASSUME s \in DOMAIN subscribeRules', Regular(p)'
          PROVE  Silence(s)' <= Expected(s)'
      <4>1. Regular(p) /\ s \in DOMAIN subscribeRules
        BY <1>2, <3>2, <3>3 DEF Regular, Periodic, Sends
      <4>2. Silence(s) <= Expected(s)
        BY <3>1, <4>1 DEF ExportInv, LossesCount
      <4>3. /\ Gap(p)' = Gap(p) /\ lostRow'[s] = lostRow[s]
            /\ Silence(s)' = Silence(s)
        BY <1>2, <3>2, <4>1 DEF Gap, Silence, Elapsed
      <4>4. Expected(s)' = lostRow[s] * Gap(p)
                             + (IF InFlight(s)' THEN Gap(p) ELSE Age(p)')
        BY <4>3 DEF Expected
      <4>5. CASE p \in due
        <5>1. p[1] = h
          BY <4>5 DEF Rules
        <5>2. InFlight(s)'
          BY <3>2, <4>1, <4>5, <5>1 DEF Regular
        <5>3. /\ Expected(s) \in Nat /\ Silence(s) \in Nat
              /\ lostRow[s] * Gap(p) + Gap(p) \in Nat
              /\ Expected(s) <= lostRow[s] * Gap(p) + Gap(p)
          BY <1>1, <3>1, <4>1, AgeInGap, ExportTypes DEF ExportInv
        <5>4. Expected(s)' = lostRow[s] * Gap(p) + Gap(p)
          BY <4>4, <5>2
        <5> HIDE DEF p
        <5>5. QED BY <4>2, <4>3, <5>3, <5>4
      <4>6. CASE p \notin due
        <5>1. Age(p)' = Age(p) /\ (InFlight(s)' <=> InFlight(s))
          BY <1>3, <3>2, <4>6
        <5>2. Expected(s)' = Expected(s)
          BY <4>4, <5>1 DEF Expected
        <5>3. QED BY <4>2, <4>3, <5>2
      <4>7. QED BY <4>5, <4>6
    <3>4. QED BY <3>2, <3>3
  <2>2. QED BY <2>1 DEF LossesCount
<1>10. QED BY <1>7, <1>8, <1>9
------------------------------------------------------------------------------
LEMMA ExportInitInv == Init => ExportInv
<1> SUFFICES ASSUME Init
             PROVE  ExportInv
  OBVIOUS
<1>1. TypeOK
  <2>1. 0 \in Value /\ 0 \in Time /\ 0 \in 0 .. MaxLost
    BY Constants, MeshExportAssumption
  <2>2. DOMAIN publishRules = {} /\ DOMAIN subscribeRules = {}
    BY DEF Init
  <2>3. net \in [Hub -> Seq(Sync \cup Request)]
    BY DEF Init
  <2>4. QED
    BY <2>1, <2>2, <2>3 DEF Init, TypeOK
<1>2. \A h \in Hub : net[h] = << >>
  BY DEF Init
<1>3. FromOthers
  BY <1>2, NothingCarried DEF FromOthers
<1>4. ChecksRun
  <2>1. \A h \in Hub : SinceCheck(h) = 0
    BY <1>1, NothingElapsed DEF Init, SinceCheck
  <2>2. QED BY <2>1, Constants DEF ChecksRun
<1>5. FreshWhenChecked /\ ChangesWait
  BY DEF Init, FreshWhenChecked, ChangesWait
<1>6. ServedInTime /\ LossesCount
  BY DEF Init, ServedInTime, LossesCount
<1>7. QED BY <1>1, <1>3, <1>4, <1>5, <1>6 DEF ExportInv

(* A round in which nothing is to be done yet.                             *)
LEMMA IdleInv ==
  ASSUME ExportInv, NEW h \in Hub, loop(h), Idle(h)
  PROVE  ExportInv'
<1>1. UNCHANGED <<now, value, alias, lostRow, lastCheck, publishRules,
                  subscribeRules, net, calm, pending>>
  BY DEF loop, Idle
<1>2. ran' = ran \cup {h} /\ SinceCheck(h) <= CheckPeriod
  BY DEF loop, Idle, SinceCheck
<1>3. TypeOK'
  BY <1>1, <1>2 DEF ExportInv, TypeOK
<1>4. ChecksRun'
  BY <1>1, <1>2 DEF ExportInv, ChecksRun, SinceCheck, Elapsed
<1>5. FreshWhenChecked' /\ ChangesWait'
  BY <1>1, FreshKept, ChangesKept DEF ExportInv
<1>6. FromOthers'
  BY <1>1 DEF ExportInv, FromOthers, NotFrom
<1>7. \A s \in Subscribed : InFlight(s)' <=> InFlight(s)
  BY <1>1 DEF InFlight, Carried
<1>8. ServedInTime'
  BY <1>1, <1>7, ServedKept DEF ExportInv
<1>9. LossesCount'
  BY <1>1, <1>7, LossesKept DEF ExportInv, LossesCount
<1>10. QED BY <1>3, <1>4, <1>5, <1>6, <1>8, <1>9 DEF ExportInv

(* A round that publishes what is due and looks for stale subscriptions.   *)
LEMMA CheckInv ==
  ASSUME ExportInv, NEW h \in Hub, loop(h), Check(h)
  PROVE  ExportInv'
<1>1. /\ TypeOK /\ ran' = ran \cup {h} /\ UNCHANGED <<now, value, alias, lostRow>>
      /\ lastCheck' = [lastCheck EXCEPT ![h] = now] /\ publish(h, Due(h))
      /\ Due(h) \in SUBSET Rules(h) /\ Due(h) \in SUBSET DOMAIN publishRules
  BY DEF ExportInv, loop, Check, Due, Rules
<1>2. /\ DOMAIN subscribeRules' = DOMAIN subscribeRules
      /\ \A s \in DOMAIN subscribeRules :
           /\ subscribeRules'[s] \in MeshSubscribeRule
           /\ subscribeRules'[s].lastReceived = subscribeRules[s].lastReceived
           /\ ~subscribeRules'[s].isStale =>
                /\ ~subscribeRules[s].isStale
                /\ s[1] = h => Silence(s) <= Timeout
  <2>1. subscribeRules' = checkStaleSubscriptions(h)
    BY DEF Check
  <2>2. DOMAIN subscribeRules' = DOMAIN subscribeRules
    BY <2>1 DEF checkStaleSubscriptions
  <2>3. ASSUME NEW s \in DOMAIN subscribeRules
        PROVE  /\ subscribeRules'[s] \in MeshSubscribeRule
               /\ subscribeRules'[s].lastReceived = subscribeRules[s].lastReceived
               /\ ~subscribeRules'[s].isStale =>
                    /\ ~subscribeRules[s].isStale
                    /\ s[1] = h => Silence(s) <= Timeout
    <3> DEFINE late == s[1] = h /\ Silence(s) > Timeout
    <3>1. subscribeRules[s] \in MeshSubscribeRule /\ Silence(s) \in Nat
      BY <1>1, ExportTypes, Constants
    <3>2. subscribeRules'[s] =
            [subscribeRules[s] EXCEPT !.isStale = subscribeRules[s].isStale \/ late]
      BY <2>1 DEF checkStaleSubscriptions, Silence
    <3>3. late \in BOOLEAN
      OBVIOUS
    <3>4. ~late => (s[1] = h => Silence(s) <= Timeout)
      BY <3>1, Constants
    <3> HIDE DEF late
    <3>5. QED BY <3>1, <3>2, <3>3, <3>4 DEF MeshSubscribeRule
  <2>4. QED BY <2>2, <2>3
<1>3. \A g \in Hub : SinceCheck(g)' = IF g = h THEN 0 ELSE SinceCheck(g)
  <2>1. lastCheck \in [Hub -> Time]
    BY <1>1, ExportTypes
  <2>2. QED BY <1>1, <2>1, NothingElapsed DEF SinceCheck, Elapsed
<1>4. TypeOK'
  <2>1. /\ now' \in Time /\ lastCheck' \in [Hub -> Time] /\ ran' \subseteq Hub
        /\ value' \in [Published -> Value] /\ alias' \in [Subscribed -> Value]
        /\ lostRow' \in [Subscribed -> 0 .. MaxLost]
    BY <1>1 DEF TypeOK
  <2>2. /\ DOMAIN publishRules' \subseteq Published
        /\ \A p \in DOMAIN publishRules' : publishRules'[p] \in MeshPublishRule
        /\ calm' \in [Subscribed -> {"no", "sent", "yes"}]
        /\ pending' \in [Published -> Nat]
    BY <1>1, PublishTypes, ExportTypes
  <2>3. /\ DOMAIN subscribeRules' \subseteq Subscribed
        /\ \A s \in DOMAIN subscribeRules' :
             subscribeRules'[s] \in MeshSubscribeRule
    BY <1>1, <1>2, ExportTypes
  <2>4. net' \in [Hub -> Seq(Sync \cup Request)]
    BY <1>1, RoundSends
  <2>5. QED BY <2>1, <2>2, <2>3, <2>4 DEF TypeOK
<1>5. ChecksRun'
  BY <1>1, <1>3, Constants DEF ExportInv, ChecksRun
<1>6. FreshWhenChecked'
  <2>1. ASSUME NEW s \in DOMAIN subscribeRules', ~subscribeRules'[s].isStale
        PROVE  Silence(s)' <= Timeout + SinceCheck(s[1])'
    <3>1. s \in DOMAIN subscribeRules /\ s[1] \in Hub /\ Silence(s) \in Nat
      BY <1>1, <1>2, <2>1, ExportTypes, Constants
    <3>2. Silence(s)' = Silence(s)
      BY <1>1, <1>2, <3>1 DEF Silence, Elapsed
    <3>3. Silence(s) <= Timeout + SinceCheck(s[1])
      BY <1>2, <2>1, <3>1 DEF ExportInv, FreshWhenChecked
    <3>4. s[1] = h => Silence(s) <= Timeout
      BY <1>2, <2>1, <3>1
    <3>5. QED BY <1>3, <3>1, <3>2, <3>3, <3>4, Constants
  <2>2. QED BY <2>1 DEF FreshWhenChecked
<1>7. FromOthers'
  BY <1>1, RoundSends DEF ExportInv, FromOthers
<1>8. \A s \in Subscribed :
        InFlight(s)' <=> \/ InFlight(s)
                         \/ s[1] # h /\ s[2] \in Due(h) /\ Sends(s[2])
  BY <1>1, RoundSends, Constants DEF InFlight
<1>9. \A p \in DOMAIN publishRules :
        \/ SinceCheck(p[1])' = SinceCheck(p[1])
        \/ /\ SinceCheck(p[1])' = 0
           /\ p \notin Due(h) /\ (Periodic(p) \/ Waiting(p)) =>
                Age(p) < publishRules[p].syncInterval
  <2>1. ASSUME NEW p \in DOMAIN publishRules, p[1] = h, p \notin Due(h),
               Periodic(p) \/ Waiting(p)
        PROVE  Age(p) < publishRules[p].syncInterval
    <3>1. Age(p) \in Nat /\ publishRules[p].syncInterval \in Nat
      BY <1>1, ExportTypes, Constants
    <3>2. p \in Rules(h)
      BY <2>1 DEF Rules
    <3>3. ~(Age(p) >= publishRules[p].syncInterval)
      BY <2>1, <3>2 DEF Due, shouldPublish, Age, Periodic, Waiting
    <3>4. QED BY <3>1, <3>3
  <2>2. \A p \in DOMAIN publishRules : p[1] \in Hub
    BY <1>1, ExportTypes, Constants
  <2>3. QED BY <1>3, <2>1, <2>2
<1>10. ChangesWait' /\ ServedInTime' /\ LossesCount'
  BY <1>1, <1>2, <1>8, <1>9, PublishKeeps
<1>11. QED BY <1>4, <1>5, <1>6, <1>7, <1>10 DEF ExportInv
------------------------------------------------------------------------------
(* A value arrives: the subscription it is for has it, and no other message *)
(* is gone.                                                                *)
LEMMA SyncInv ==
  ASSUME ExportInv, NEW h \in Hub, receivedCallback(h),
         Head(net[h]).type = "sync"
  PROVE  ExportInv'
<1> DEFINE m == Head(net[h])
<1>0. PICK at : at = <<h, <<m.hub, m.var>>>>
  OBVIOUS
<1>1. /\ TypeOK /\ handleVariableSync(h, m)
      /\ UNCHANGED <<now, lastCheck, ran, value, publishRules, pending>>
  <2>1. m \in Sync \cup Request
    BY ReceiptSends DEF ExportInv
  <2>2. m.type # "request"
    OBVIOUS
  <2>3. handleVariableSync(h, m) /\ UNCHANGED <<now, lastCheck, ran, value>>
    BY <2>2 DEF receivedCallback
  <2>4. QED BY <2>3 DEF ExportInv, handleVariableSync
<1>2. /\ net[h] # << >> /\ m \in Sync
      /\ net' \in [Hub -> Seq(Sync \cup Request)] /\ net'[h] = Tail(net[h])
      /\ \A g \in Hub, p \in Hub \X Var :
           g # h => (Carried(net'[g], p) <=> Carried(net[g], p))
      /\ \A g \in Hub : NotFrom(net[g], g) => NotFrom(net'[g], g)
  <2>1. m.type # "request" /\ \A r \in Request : r.type = "request"
    BY DEF Request
  <2>2. QED BY <1>1, <2>1, ReceiptSends
<1>3. \A s \in Subscribed : s = at <=> s[1] = h /\ Carries(m, s[2])
  <2>1. \A s \in Subscribed : s = <<s[1], <<s[2][1], s[2][2]>>>>
    BY MeshExportAssumption DEF Remote
  <2> HIDE DEF m
  <2>2. QED BY <1>0, <2>1 DEF Carries, Sync, m
<1>4. \A s \in Subscribed : s[1] = h =>
        /\ InFlight(s)' => InFlight(s)
        /\ InFlight(s) => InFlight(s)' \/ s = at
  <2>1. net[h] \in Seq(Sync \cup Request)
    BY <1>1, ExportTypes
  <2>2. ASSUME NEW s \in Subscribed, s[1] = h
        PROVE  /\ InFlight(s)' => InFlight(s)
               /\ InFlight(s) => InFlight(s)' \/ s = at
    <3>1. /\ Carried(Tail(net[h]), s[2]) => Carried(net[h], s[2])
          /\ Carried(net[h], s[2]) =>
               Carries(m, s[2]) \/ Carried(Tail(net[h]), s[2])
      BY <1>2, <2>1, RestCarried
    <3> HIDE DEF m
    <3>2. QED BY <1>2, <1>3, <2>2, <3>1 DEF InFlight
  <2>3. QED BY <2>2
<1>5. \A s \in Subscribed : s[1] # h => (InFlight(s)' <=> InFlight(s))
  BY <1>2, Constants DEF InFlight
<1>6. FromOthers'
  BY <1>2 DEF ExportInv, FromOthers
<1>7. ChecksRun' /\ ChangesWait'
  BY <1>1, ChecksKept, ChangesKept DEF ExportInv
<1>8. CASE at \notin DOMAIN subscribeRules
  <2>1. UNCHANGED <<alias, subscribeRules, calm, lostRow>>
    BY <1>0, <1>1, <1>8 DEF handleVariableSync
  <2>2. TypeOK'
    BY <1>1, <1>2, <2>1 DEF TypeOK
  <2>3. FreshWhenChecked'
    BY <1>1, <2>1, FreshKept DEF ExportInv
  <2>4. ServedInTime'
    BY <1>1, <1>4, <1>5, <2>1, ServedKept DEF ExportInv
  <2>5. LossesCount'
    <3>1. ASSUME NEW s \in Subscribed, calm'[s] = "yes"
          PROVE  /\ s[1] # s[2][1]
                 /\ s \in DOMAIN subscribeRules' /\ Regular(s[2])' =>
                      Silence(s)' <= Expected(s)'
      <4>1. CASE s = at
        BY <1>8, <2>1, <3>1, <4>1 DEF ExportInv, LossesCount
      <4>2. CASE s # at
        <5>1. InFlight(s)' <=> InFlight(s)
          BY <1>4, <1>5, <4>2
        <5>2. QED BY <1>1, <2>1, <3>1, <5>1, LossesKept DEF ExportInv
      <4>3. QED BY <4>1, <4>2
    <3>2. QED BY <3>1 DEF LossesCount
  <2>6. QED BY <1>6, <1>7, <2>2, <2>3, <2>4, <2>5 DEF ExportInv
<1>9. CASE at \in DOMAIN subscribeRules
  <2> DEFINE heard == [lastReceived |-> now, isStale |-> FALSE]
  <2>1. /\ subscribeRules' = [subscribeRules EXCEPT ![at] = heard]
        /\ calm' = [calm EXCEPT ![at] = IF calm[at] = "no" THEN "no" ELSE "yes"]
        /\ lostRow' = [lostRow EXCEPT ![at] = 0]
        /\ alias' = alias \/ alias' = [alias EXCEPT ![at] = 0]
        /\ at \in Subscribed
    BY <1>0, <1>1, <1>9, ExportTypes DEF handleVariableSync, updateSubscribedVariable,
                                   Aliased, Received
  <2>2. heard \in MeshSubscribeRule /\ 0 \in Value /\ 0 \in 0 .. MaxLost
    BY <1>1, ExportTypes, Constants, MeshExportAssumption DEF MeshSubscribeRule
  <2>3. /\ DOMAIN subscribeRules' = DOMAIN subscribeRules
        /\ subscribeRules'[at] = heard
        /\ \A s \in DOMAIN subscribeRules :
             s # at => subscribeRules'[s] = subscribeRules[s]
    BY <1>9, <2>1
  <2>4. TypeOK'
    <3>1. /\ calm' \in [Subscribed -> {"no", "sent", "yes"}]
          /\ lostRow' \in [Subscribed -> 0 .. MaxLost]
          /\ alias' \in [Subscribed -> Value]
      BY <1>1, <2>1, <2>2 DEF TypeOK
    <3>2. \A s \in DOMAIN subscribeRules' :
            subscribeRules'[s] \in MeshSubscribeRule
      BY <1>1, <2>2, <2>3, ExportTypes
    <3>3. QED BY <1>1, <1>2, <2>3, <3>1, <3>2 DEF TypeOK
  <2>5. Silence(at)' = 0
    BY <1>1, <2>3, NothingElapsed DEF Silence, Elapsed
  <2>6. FreshWhenChecked'
    <3>1. ASSUME NEW s \in DOMAIN subscribeRules', ~subscribeRules'[s].isStale
          PROVE  Silence(s)' <= Timeout + SinceCheck(s[1])'
      <4>1. s[1] \in Hub /\ SinceCheck(s[1])' = SinceCheck(s[1])
            /\ SinceCheck(s[1]) \in Nat
        BY <1>1, <2>3, <3>1, ExportTypes, Constants DEF SinceCheck, Elapsed
      <4>2. CASE s = at
        BY <2>5, <4>1, <4>2, Constants
      <4>3. CASE s # at
        <5>1. Silence(s)' = Silence(s) /\ ~subscribeRules[s].isStale
          BY <1>1, <2>3, <3>1, <4>3 DEF Silence, Elapsed
        <5>2. QED
          BY <2>3, <4>1, <5>1 DEF ExportInv, FreshWhenChecked
      <4>4. QED BY <4>2, <4>3
    <3>2. QED BY <3>1 DEF FreshWhenChecked
  <2>7. \A s \in Subscribed :
          IF s = at THEN calm'[s] = "yes" => calm[s] # "no"
                    ELSE calm'[s] = calm[s] /\ lostRow'[s] = lostRow[s]
    BY <1>1, <2>1, ExportTypes
  <2>8. \A s \in Subscribed : calm'[s] # "no" => calm[s] # "no"
    BY <1>1, <2>1, ExportTypes
  <2>9. ServedInTime'
    BY <1>1, <1>4, <1>5, <2>8, ServedKept DEF ExportInv
  <2>10. LossesCount'
    <3>1. ASSUME NEW s \in Subscribed, calm'[s] = "yes"
          PROVE  /\ s[1] # s[2][1]
                 /\ s \in DOMAIN subscribeRules' /\ Regular(s[2])' =>
                      Silence(s)' <= Expected(s)'
      <4>1. CASE s = at
        <5>1. s[1] # s[2][1]
          <6>1. Head(net[h]).hub # h
            <7>1. net[h] \in Seq(Sync \cup Request) /\ NotFrom(net[h], h)
              BY <1>1, ExportTypes DEF ExportInv, FromOthers
            <7>2. QED BY <1>2, <7>1, RestCarried
          <6>2. QED BY <1>0, <4>1, <6>1
        <5>2. ASSUME Regular(s[2])'
              PROVE  0 <= Expected(s)'
          <6>1. Regular(s[2]) /\ calm[s] # "no"
            BY <1>1, <2>7, <3>1, <4>1, <5>2 DEF Regular, Periodic, Sends
          <6>2. /\ Gap(s[2]) \in Nat /\ Age(s[2]) \in Nat
            BY <1>1, <6>1, AgeInGap DEF ExportInv
          <6>3. Gap(s[2])' = Gap(s[2]) /\ Age(s[2])' = Age(s[2])
            BY <1>1 DEF Gap, Age, Elapsed
          <6>4. lostRow'[s] = 0
            BY <1>1, <2>1, <4>1, ExportTypes
          <6>5. Expected(s)' = 0 * Gap(s[2])
                  + (IF InFlight(s)' THEN Gap(s[2]) ELSE Age(s[2]))
            BY <6>3, <6>4 DEF Expected
          <6>6. 0 * Gap(s[2]) = 0
            BY <6>2
          <6>7. QED BY <6>2, <6>5, <6>6
        <5>3. QED BY <2>5, <4>1, <5>1, <5>2
      <4>2. CASE s # at
        <5>1. InFlight(s)' <=> InFlight(s)
          BY <1>4, <1>5, <4>2
        <5>2. QED
          BY <1>1, <2>3, <2>7, <3>1, <4>2, <5>1, LossesKept DEF ExportInv
      <4>3. QED BY <4>1, <4>2
    <3>2. QED BY <3>1 DEF LossesCount
  <2>11. QED BY <1>6, <1>7, <2>4, <2>6, <2>9, <2>10 DEF ExportInv
<1>10. QED BY <1>8, <1>9

(* A request is answered with a publication, if there is a rule for it.    *)
LEMMA AskedInv ==
  ASSUME ExportInv, NEW h \in Hub, receivedCallback(h),
         Head(net[h]).type = "request"
  PROVE  ExportInv'
<1> DEFINE m == Head(net[h])
<1>0. PICK p : p = <<h, m.var>>
  OBVIOUS
<1>1. /\ TypeOK /\ handleVariableRequest(h, m)
      /\ UNCHANGED <<now, lastCheck, ran, value, subscribeRules, alias, lostRow>>
  <2>1. m.type # "sync"
    OBVIOUS
  <2>2. handleVariableRequest(h, m) /\ UNCHANGED <<now, lastCheck, ran, value>>
    BY <2>1 DEF receivedCallback
  <2>3. QED BY <2>2 DEF ExportInv, handleVariableRequest
<1>2. /\ net[h] # << >>
      /\ net' \in [Hub -> Seq(Sync \cup Request)] /\ net'[h] = Tail(net[h])
      /\ \A g \in Hub, q \in Hub \X Var : g # h =>
           (Carried(net'[g], q) <=> \/ Carried(net[g], q)
                                    \/ q = p /\ p \in DOMAIN publishRules
                                         /\ Sends(p))
      /\ \A g \in Hub : NotFrom(net[g], g) => NotFrom(net'[g], g)
  <2>1. \A g \in Hub, q \in Hub \X Var : g # h =>
          (Carried(net'[g], q) <=>
             \/ Carried(net[g], q)
             \/ /\ m.type = "request" /\ q = <<h, m.var>>
                /\ q \in DOMAIN publishRules /\ Sends(q))
    BY <1>1, ReceiptSends
  <2>2. /\ net[h] # << >>
        /\ net' \in [Hub -> Seq(Sync \cup Request)] /\ net'[h] = Tail(net[h])
        /\ \A g \in Hub : NotFrom(net[g], g) => NotFrom(net'[g], g)
    BY <1>1, ReceiptSends
  <2>3. m.type = "request"
    OBVIOUS
  <2> HIDE DEF m
  <2>4. QED BY <1>0, <2>1, <2>2, <2>3 DEF m
<1>3. \A s \in Subscribed :
        InFlight(s)' <=> \/ InFlight(s)
                         \/ s[1] # h /\ s[2] = p /\ p \in DOMAIN publishRules
                              /\ Sends(p)
  <2>1. ASSUME NEW s \in Subscribed, s[1] = h
        PROVE  InFlight(s)' <=> InFlight(s)
    <3>1. net[h] \in Seq(Sync \cup Request) /\ ~Carries(m, s[2])
      BY <1>1, ExportTypes DEF Carries
    <3>2. Carried(Tail(net[h]), s[2]) <=> Carried(net[h], s[2])
      BY <1>2, <3>1, RestCarried
    <3>3. QED BY <1>2, <2>1, <3>2 DEF InFlight
  <2>2. ASSUME NEW s \in Subscribed, s[1] # h
        PROVE  InFlight(s)' <=> \/ InFlight(s)
                                \/ s[2] = p /\ p \in DOMAIN publishRules
                                     /\ Sends(p)
    BY <1>2, <2>2, Constants DEF InFlight
  <2>3. QED BY <2>1, <2>2
<1>4. FromOthers'
  BY <1>2 DEF ExportInv, FromOthers
<1>5. ChecksRun' /\ FreshWhenChecked'
  BY <1>1, ChecksKept, FreshKept DEF ExportInv
<1>6. CASE p \notin DOMAIN publishRules
  <2>1. UNCHANGED <<publishRules, calm, pending>>
    BY <1>0, <1>1, <1>6 DEF handleVariableRequest
  <2>2. \A s \in Subscribed : InFlight(s)' <=> InFlight(s)
    BY <1>3, <1>6
  <2>3. TypeOK'
    BY <1>1, <1>2, <2>1 DEF TypeOK
  <2>4. ChangesWait' /\ ServedInTime'
    BY <1>1, <2>1, <2>2, ChangesKept, ServedKept DEF ExportInv
  <2>5. LossesCount'
    BY <1>1, <2>1, <2>2, LossesKept DEF ExportInv, LossesCount
  <2>6. QED BY <1>4, <1>5, <2>3, <2>4, <2>5 DEF ExportInv
<1>7. CASE p \in DOMAIN publishRules
  <2>1. publish(h, {p}) /\ {p} \in SUBSET Rules(h)
    BY <1>0, <1>1, <1>7 DEF handleVariableRequest, Rules
  <2>2. TypeOK'
    <3>1. /\ DOMAIN publishRules' = DOMAIN publishRules
          /\ \A q \in DOMAIN publishRules' : publishRules'[q] \in MeshPublishRule
          /\ calm' \in [Subscribed -> {"no", "sent", "yes"}]
          /\ pending' \in [Published -> Nat]
      BY <1>1, <1>7, <2>1, PublishTypes
    <3>2. QED BY <1>1, <1>2, <3>1 DEF TypeOK
  <2>3. \A s \in Subscribed :
          InFlight(s)' <=> \/ InFlight(s)
                           \/ s[1] # h /\ s[2] \in {p} /\ Sends(s[2])
    BY <1>3, <1>7
  <2>4. \A q \in DOMAIN publishRules : SinceCheck(q[1])' = SinceCheck(q[1])
    BY <1>1 DEF SinceCheck, Elapsed
  <2>5. ChangesWait' /\ ServedInTime' /\ LossesCount'
    BY <1>1, <2>1, <2>3, <2>4, PublishKeeps
  <2>6. QED BY <1>4, <1>5, <2>2, <2>5 DEF ExportInv
<1>8. QED BY <1>6, <1>7

(* A message is lost, and its subscription counts it.                      *)
LEMMA LoseInv ==
  ASSUME ExportInv, NEW h \in Hub, Lose(h)
  PROVE  ExportInv'
<1> DEFINE m == Head(net[h])
<1>0. PICK at : at = <<h, <<m.hub, m.var>>>>
  OBVIOUS
<1>1. /\ TypeOK /\ net[h] # << >> /\ net' = [net EXCEPT ![h] = Tail(net[h])]
      /\ UNCHANGED <<now, lastCheck, ran, value, publishRules, subscribeRules,
                     alias, calm, pending>>
      /\ net[h] \in Seq(Sync \cup Request)
  BY ExportTypes DEF ExportInv, Lose
<1>2. IF m.type = "sync" /\ at \in Subscribed
      THEN /\ lostRow[at] < MaxLost
           /\ lostRow' = [lostRow EXCEPT ![at] = lostRow[at] + 1]
      ELSE lostRow' = lostRow
  BY <1>0 DEF Lose
<1>3. /\ m \in Sync \cup Request /\ Tail(net[h]) \in Seq(Sync \cup Request)
      /\ NotFrom(net[h], h) => NotFrom(Tail(net[h]), h)
  BY <1>1, RestCarried
<1>4. /\ net' \in [Hub -> Seq(Sync \cup Request)] /\ net'[h] = Tail(net[h])
      /\ \A g \in Hub : g # h => net'[g] = net[g]
  BY <1>1, <1>3, ExportTypes
<1>5. \A s \in Subscribed : s[1] = h /\ Carries(m, s[2]) =>
        s = at /\ m.type = "sync"
  <2>1. \A s \in Subscribed : s = <<s[1], <<s[2][1], s[2][2]>>>>
    BY MeshExportAssumption DEF Remote
  <2> HIDE DEF m
  <2>2. QED BY <1>0, <2>1 DEF Carries
<1>6. \A s \in Subscribed :
        /\ InFlight(s)' => InFlight(s)
        /\ InFlight(s) => \/ InFlight(s)'
                          \/ s = at /\ m.type = "sync"
  <2>1. ASSUME NEW s \in Subscribed, s[1] = h
        PROVE  /\ InFlight(s)' => InFlight(s)
               /\ InFlight(s) => InFlight(s)' \/ Carries(m, s[2])
    <3>1. /\ Carried(Tail(net[h]), s[2]) => Carried(net[h], s[2])
          /\ Carried(net[h], s[2]) =>
               Carries(m, s[2]) \/ Carried(Tail(net[h]), s[2])
      BY <1>1, RestCarried
    <3> HIDE DEF m
    <3>2. QED BY <1>4, <2>1, <3>1 DEF InFlight
  <2>2. \A s \in Subscribed : s[1] # h => (InFlight(s)' <=> InFlight(s))
    BY <1>4, Constants DEF InFlight
  <2> HIDE DEF m
  <2>3. QED BY <1>5, <2>1, <2>2
<1>7. TypeOK'
  <2>1. lostRow' \in [Subscribed -> 0 .. MaxLost]
    <3>1. lostRow \in [Subscribed -> 0 .. MaxLost]
      BY <1>1, ExportTypes
    <3>2. ASSUME at \in Subscribed, lostRow[at] < MaxLost
          PROVE  lostRow[at] + 1 \in 0 .. MaxLost
      BY <3>1, <3>2, Constants
    <3>3. QED BY <1>2, <3>1, <3>2
  <2>2. QED BY <1>1, <1>4, <2>1 DEF TypeOK
<1>8. FromOthers'
  BY <1>3, <1>4 DEF ExportInv, FromOthers
<1>9. ChecksRun' /\ FreshWhenChecked' /\ ChangesWait'
  BY <1>1, ChecksKept, FreshKept, ChangesKept DEF ExportInv
<1>10. ServedInTime'
  BY <1>1, <1>6, ServedKept DEF ExportInv
<1>11. LossesCount'
  <2>1. ASSUME NEW s \in Subscribed, calm'[s] = "yes"
        PROVE  /\ s[1] # s[2][1]
               /\ s \in DOMAIN subscribeRules' /\ Regular(s[2])' =>
                    Silence(s)' <= Expected(s)'
    <3>1. CASE s = at /\ m.type = "sync"
      <4>1. calm[s] = "yes" /\ s[1] # s[2][1]
        BY <1>1, <2>1 DEF ExportInv, LossesCount
      <4>2. ASSUME s \in DOMAIN subscribeRules', Regular(s[2])'
            PROVE  Silence(s)' <= Expected(s)'
        <5>1. Regular(s[2]) /\ s \in DOMAIN subscribeRules
          BY <1>1, <4>2 DEF Regular, Periodic, Sends
        <5> DEFINE k == lostRow[s]
                   g == Gap(s[2])
                   a == Age(s[2])
        <5>2. /\ a \in Nat /\ g \in Nat /\ k * g \in Nat
              /\ Expected(s) \in Nat /\ Expected(s) <= k * g + g
          BY <1>1, <4>1, <5>1, AgeInGap DEF ExportInv
        <5>3. Silence(s) <= Expected(s)
          BY <4>1, <5>1 DEF ExportInv, LossesCount
        <5>4. /\ Silence(s)' = Silence(s) /\ Silence(s) \in Nat
              /\ Gap(s[2])' = g /\ Age(s[2])' = a
          BY <1>1, <5>1, ExportTypes, Constants DEF Silence, Gap, Age, Elapsed
        <5>5. lostRow'[s] = k + 1 /\ k \in Nat
          BY <1>1, <1>2, <3>1, ExportTypes, Constants
        <5>6. Expected(s)' = (k + 1) * g + (IF InFlight(s)' THEN g ELSE a)
          BY <5>4, <5>5 DEF Expected
        <5> HIDE DEF k, g, a
        <5>7. (k + 1) * g = k * g + g
          BY <5>2, <5>5, Products
        <5> DEFINE loss == k * g
        <5>8. Expected(s)' = loss + g + (IF InFlight(s)' THEN g ELSE a)
          BY <5>6, <5>7
        <5>9. loss \in Nat /\ Expected(s) <= loss + g
          BY <5>2
        <5> HIDE DEF loss
        <5>10. QED BY <5>2, <5>3, <5>4, <5>8, <5>9
      <4>3. QED BY <4>1, <4>2
    <3>2. CASE ~(s = at /\ m.type = "sync")
      <4>1. lostRow'[s] = lostRow[s]
        BY <1>1, <1>2, <3>2, ExportTypes
      <4>2. InFlight(s)' <=> InFlight(s)
        BY <1>6, <3>2
      <4>3. QED BY <1>1, <2>1, <4>1, <4>2, LossesKept DEF ExportInv
    <3>3. QED BY <3>1, <3>2
  <2>2. QED BY <2>1 DEF LossesCount
<1>12. QED BY <1>7, <1>8, <1>9, <1>10, <1>11 DEF ExportInv
------------------------------------------------------------------------------
(* A publish rule comes, is replaced or goes: its variable starts anew.    *)
LEMMA RuleInv ==
  ASSUME ExportInv, NEW p \in Published,
         DOMAIN publishRules' \subseteq Published,
         p \in DOMAIN publishRules' => publishRules'[p] \in MeshPublishRule,
         \A q \in Published : q # p =>
           /\ q \in DOMAIN publishRules' <=> q \in DOMAIN publishRules
           /\ q \in DOMAIN publishRules => publishRules'[q] = publishRules[q],
         calm' = [s \in Subscribed |-> IF s[2] = p THEN "no" ELSE calm[s]],
         pending' = [pending EXCEPT ![p] = 0],
         UNCHANGED <<now, lastCheck, ran, value, subscribeRules, alias, net,
                     lostRow>>
  PROVE  ExportInv'
<1>1. TypeOK
  BY DEF ExportInv
<1>2. TypeOK'
  <2>1. \A q \in DOMAIN publishRules' : publishRules'[q] \in MeshPublishRule
    BY <1>1, ExportTypes
  <2>2. /\ calm' \in [Subscribed -> {"no", "sent", "yes"}]
        /\ pending' \in [Published -> Nat]
    BY <1>1, ExportTypes
  <2>3. QED BY <1>1, <2>1, <2>2 DEF TypeOK
<1>3. ChecksRun' /\ FreshWhenChecked'
  BY ChecksKept, FreshKept DEF ExportInv
<1>4. FromOthers'
  BY DEF ExportInv, FromOthers
<1>5. \A s \in Subscribed : InFlight(s)' <=> InFlight(s)
  BY DEF InFlight
<1>6. \A q \in DOMAIN publishRules : q # p => Age(q)' = Age(q)
  BY <1>1, ExportTypes DEF Age, Elapsed
<1>7. \A h : SinceCheck(h)' = SinceCheck(h)
  BY DEF SinceCheck, Elapsed
<1>8. ChangesWait'
  <2>1. ASSUME NEW q \in DOMAIN publishRules'
        PROVE  /\ pending'[q] > 0 => Waiting(q)' /\ Younger(q)'
               /\ pending'[q] <= Age(q)' + CheckPeriod + 1
    <3>1. CASE q = p
      <4>1. pending'[q] = 0
        BY <1>1, <3>1, ExportTypes
      <4>2. Age(q)' \in Nat
        <5>1. publishRules'[q].lastSync \in Time /\ now \in Time
          BY <1>1, <3>1, ExportTypes DEF MeshPublishRule
        <5>2. Age(q)' = (now - publishRules'[q].lastSync) % Clock
          BY DEF Age, Elapsed
        <5>3. QED BY <5>1, <5>2, Laps, Constants
      <4>3. QED BY <4>1, <4>2, Constants
    <3>2. CASE q # p
      <4>1. /\ q \in DOMAIN publishRules /\ publishRules'[q] = publishRules[q]
            /\ q \in Published
        BY <3>2
      <4>2. pending'[q] = pending[q] /\ Age(q)' = Age(q)
        BY <1>1, <1>6, <3>2, <4>1, ExportTypes
      <4>3. Waiting(q) => Waiting(q)'
        BY <4>1 DEF Waiting, Current
      <4>4. Younger(q) => Younger(q)'
        BY <1>7, <4>1, <4>2 DEF Younger
      <4>5. QED BY <4>1, <4>2, <4>3, <4>4 DEF ExportInv, ChangesWait
    <3>3. QED BY <3>1, <3>2
  <2>2. QED BY <2>1 DEF ChangesWait
<1>9. ASSUME NEW s \in Subscribed, calm'[s] # "no"
      PROVE  /\ s[2] # p /\ calm[s] = calm'[s] /\ s[2] \in DOMAIN publishRules
             /\ s[2] \in DOMAIN publishRules'
             /\ publishRules'[s[2]] = publishRules[s[2]]
             /\ Age(s[2])' = Age(s[2])
  <2>1. s[2] # p /\ calm[s] = calm'[s]
    BY <1>9
  <2>2. s[2] \in DOMAIN publishRules
    BY <1>9, <2>1 DEF ExportInv, ServedInTime
  <2>3. s[2] \in Published
    BY <1>1, <2>2, ExportTypes
  <2>4. QED BY <1>6, <2>1, <2>2, <2>3
<1>10. ServedInTime'
  <2>1. ASSUME NEW s \in Subscribed, calm'[s] # "no"
        PROVE  /\ s[2] \in DOMAIN publishRules'
               /\ InFlight(s)' => Age(s[2])' = 0
               /\ Periodic(s[2])' => Served(s[2])'
    <3>1. /\ InFlight(s) => Age(s[2]) = 0
          /\ Periodic(s[2]) => Served(s[2])
      BY <1>9, <2>1 DEF ExportInv, ServedInTime
    <3>2. QED BY <1>5, <1>7, <1>9, <2>1, <3>1 DEF Periodic, Served
  <2>2. QED BY <2>1 DEF ServedInTime
<1>11. LossesCount'
  <2>1. ASSUME NEW s \in Subscribed, calm'[s] = "yes"
        PROVE  /\ s[1] # s[2][1]
               /\ s \in DOMAIN subscribeRules' /\ Regular(s[2])' =>
                    Silence(s)' <= Expected(s)'
    <3>1. calm[s] = "yes" /\ (Regular(s[2])' <=> Regular(s[2]))
      BY <1>9, <2>1 DEF Regular, Periodic, Sends
    <3>2. Expected(s)' = Expected(s) /\ Silence(s)' = Silence(s)
      BY <1>5, <1>9, <2>1 DEF Expected, Gap, Silence, Elapsed
    <3>3. QED BY <3>1, <3>2 DEF ExportInv, LossesCount
  <2>2. QED BY <2>1 DEF LossesCount
<1>12. QED BY <1>2, <1>3, <1>4, <1>8, <1>10, <1>11 DEF ExportInv

LEMMA AddRuleInv ==
  ASSUME ExportInv, NEW p \in Published, NEW interval \in Intervals,
         NEW onChange \in BOOLEAN, addPublishRule(p, interval, onChange)
  PROVE  ExportInv'
<1>1. NewRule(interval, onChange) \in MeshPublishRule
  BY Constants, MeshExportAssumption DEF NewRule, MeshPublishRule, Type
<1>2. /\ DOMAIN publishRules' = DOMAIN publishRules \cup {p}
      /\ publishRules'[p] = NewRule(interval, onChange)
      /\ \A q \in DOMAIN publishRules : q # p => publishRules'[q] = publishRules[q]
  BY DEF addPublishRule
<1>3. DOMAIN publishRules \subseteq Published
  BY DEF ExportInv, TypeOK
<1>4. QED BY <1>1, <1>2, <1>3, RuleInv DEF addPublishRule

LEMMA RemoveRuleInv ==
  ASSUME ExportInv, NEW p \in Published, removePublishRule(p)
  PROVE  ExportInv'
<1>1. /\ DOMAIN publishRules' = DOMAIN publishRules \ {p}
      /\ \A q \in DOMAIN publishRules : q # p => publishRules'[q] = publishRules[q]
  BY DEF removePublishRule, Without
<1>2. DOMAIN publishRules \subseteq Published
  BY DEF ExportInv, TypeOK
<1>3. QED BY <1>1, <1>2, RuleInv DEF removePublishRule

(* A subscription comes, is replaced or goes: it is stale until a value    *)
(* arrives.                                                                *)
LEMMA SubscriptionInv ==
  ASSUME ExportInv, NEW s \in Subscribed,
         DOMAIN subscribeRules' \subseteq Subscribed,
         s \in DOMAIN subscribeRules' =>
           subscribeRules'[s] = NewSubscription /\ calm'[s] = "no",
         \A r \in Subscribed : r # s =>
           /\ r \in DOMAIN subscribeRules' <=> r \in DOMAIN subscribeRules
           /\ r \in DOMAIN subscribeRules => subscribeRules'[r] = subscribeRules[r]
           /\ calm'[r] = calm[r],
         calm' = calm \/ calm' = [calm EXCEPT ![s] = "no"],
         UNCHANGED <<now, lastCheck, ran, value, publishRules, alias, net,
                     lostRow, pending>>
  PROVE  ExportInv'
<1>1. TypeOK /\ calm' \in [Subscribed -> {"no", "sent", "yes"}]
  BY ExportTypes DEF ExportInv
<1>2. TypeOK'
  <2>1. NewSubscription \in MeshSubscribeRule
    BY Constants DEF NewSubscription, MeshSubscribeRule
  <2>2. \A r \in DOMAIN subscribeRules' :
          subscribeRules'[r] \in MeshSubscribeRule
    BY <1>1, <2>1, ExportTypes
  <2>3. QED BY <1>1, <2>2 DEF TypeOK
<1>3. ChecksRun' /\ ChangesWait'
  BY ChecksKept, ChangesKept DEF ExportInv
<1>4. FreshWhenChecked'
  <2>1. ASSUME NEW r \in DOMAIN subscribeRules', ~subscribeRules'[r].isStale
        PROVE  Silence(r)' <= Timeout + SinceCheck(r[1])'
    <3>1. r # s /\ r \in Subscribed
      BY <2>1 DEF NewSubscription
    <3>2. r \in DOMAIN subscribeRules /\ subscribeRules'[r] = subscribeRules[r]
      BY <3>1
    <3>3. Silence(r) <= Timeout + SinceCheck(r[1])
      BY <2>1, <3>2 DEF ExportInv, FreshWhenChecked
    <3>4. QED BY <3>2, <3>3 DEF Silence, SinceCheck, Elapsed
  <2>2. QED BY <2>1 DEF FreshWhenChecked
<1>5. FromOthers' /\ \A r \in Subscribed : InFlight(r)' <=> InFlight(r)
  BY DEF ExportInv, FromOthers, InFlight
<1>6. \A r \in Subscribed : calm'[r] # "no" => calm[r] = calm'[r]
  BY <1>1, ExportTypes
<1>7. ServedInTime'
  BY <1>5, <1>6, ServedKept DEF ExportInv
<1>8. LossesCount'
  <2>1. ASSUME NEW r \in Subscribed, calm'[r] = "yes"
        PROVE  /\ r[1] # r[2][1]
               /\ r \in DOMAIN subscribeRules' /\ Regular(r[2])' =>
                    Silence(r)' <= Expected(r)'
    <3>1. r \in DOMAIN subscribeRules' =>
            /\ r \in DOMAIN subscribeRules
            /\ subscribeRules'[r] = subscribeRules[r]
      BY <2>1
    <3>2. calm[r] = "yes" /\ (InFlight(r)' <=> InFlight(r))
      BY <1>5, <1>6, <2>1
    <3>3. lostRow'[r] = lostRow[r]
      OBVIOUS
    <3>4. QED BY <2>1, <3>1, <3>2, <3>3, LossesKept DEF ExportInv
  <2>2. QED BY <2>1 DEF LossesCount
<1>9. QED BY <1>2, <1>3, <1>4, <1>5, <1>7, <1>8 DEF ExportInv

LEMMA AddSubscriptionInv ==
  ASSUME ExportInv, NEW s \in Subscribed, addSubscribeRule(s)
  PROVE  ExportInv'
<1>1. /\ DOMAIN subscribeRules' = DOMAIN subscribeRules \cup {s}
      /\ subscribeRules'[s] = NewSubscription
      /\ \A r \in DOMAIN subscribeRules :
           r # s => subscribeRules'[r] = subscribeRules[r]
  BY DEF addSubscribeRule
<1>2. /\ DOMAIN subscribeRules \subseteq Subscribed
      /\ calm \in [Subscribed -> {"no", "sent", "yes"}]
  BY DEF ExportInv, TypeOK
<1>3. /\ calm' = [calm EXCEPT ![s] = "no"] /\ calm'[s] = "no"
      /\ \A r \in Subscribed : r # s => calm'[r] = calm[r]
  BY <1>2 DEF addSubscribeRule
<1>4. QED BY <1>1, <1>2, <1>3, SubscriptionInv DEF addSubscribeRule

LEMMA RemoveSubscriptionInv ==
  ASSUME ExportInv, NEW s \in Subscribed, removeSubscribeRule(s)
  PROVE  ExportInv'
<1>1. /\ DOMAIN subscribeRules' = DOMAIN subscribeRules \ {s}
      /\ \A r \in DOMAIN subscribeRules :
           r # s => subscribeRules'[r] = subscribeRules[r]
  BY DEF removeSubscribeRule, Without
<1>2. DOMAIN subscribeRules \subseteq Subscribed
  BY DEF ExportInv, TypeOK
<1>3. QED BY <1>1, <1>2, SubscriptionInv DEF removeSubscribeRule, history

(* Asking changes nothing but what is on its way.                          *)
LEMMA RequestInv ==
  ASSUME ExportInv, NEW s \in Subscribed, requestRemoteVariable(s)
  PROVE  ExportInv'
<1>1. /\ TypeOK
      /\ UNCHANGED <<now, lastCheck, ran, value, publishRules, subscribeRules,
                     alias, lostRow, calm, pending>>
  BY DEF ExportInv, requestRemoteVariable, history
<1>2. /\ net' \in [Hub -> Seq(Sync \cup Request)]
      /\ \A g \in Hub, p \in Hub \X Var :
           Carried(net'[g], p) <=> Carried(net[g], p)
      /\ \A g \in Hub : NotFrom(net[g], g) => NotFrom(net'[g], g)
  BY <1>1, RequestSends
<1>3. TypeOK'
  BY <1>1, <1>2 DEF TypeOK
<1>4. FromOthers' /\ \A r \in Subscribed : InFlight(r)' <=> InFlight(r)
  BY <1>2, Constants DEF ExportInv, FromOthers, InFlight
<1>5. ChecksRun' /\ FreshWhenChecked' /\ ChangesWait'
  BY <1>1, ChecksKept, FreshKept, ChangesKept DEF ExportInv
<1>6. ServedInTime'
  BY <1>1, <1>4, ServedKept DEF ExportInv
<1>7. LossesCount'
  BY <1>1, <1>4, LossesKept DEF ExportInv, LossesCount
<1>8. QED BY <1>3, <1>4, <1>5, <1>6, <1>7 DEF ExportInv

(* A new value waits from now on.                                          *)
LEMMA PlcWriteInv ==
  ASSUME ExportInv, NEW p \in Published, NEW n \in Value, PlcWrite(p, n)
  PROVE  ExportInv'
<1>1. /\ TypeOK /\ value' = [value EXCEPT ![p] = n]
      /\ pending' = [pending EXCEPT ![p] = 0]
      /\ UNCHANGED <<now, lastCheck, ran, publishRules, subscribeRules, alias,
                     net, lostRow, calm>>
  BY DEF ExportInv, PlcWrite
<1>2. /\ pending'[p] = 0 /\ pending' \in [Published -> Nat]
      /\ value' \in [Published -> Value]
      /\ \A q \in Published : q # p =>
           pending'[q] = pending[q] /\ value'[q] = value[q]
  BY <1>1, ExportTypes
<1>3. TypeOK'
  BY <1>1, <1>2 DEF TypeOK
<1>4. FromOthers' /\ \A r \in Subscribed : InFlight(r)' <=> InFlight(r)
  BY <1>1 DEF ExportInv, FromOthers, InFlight
<1>5. ChecksRun' /\ FreshWhenChecked'
  BY <1>1, ChecksKept, FreshKept DEF ExportInv
<1>6. ServedInTime'
  BY <1>1, <1>4, ServedKept DEF ExportInv
<1>7. LossesCount'
  BY <1>1, <1>4, LossesKept DEF ExportInv, LossesCount
<1>8. ChangesWait'
  <2>1. ASSUME NEW q \in DOMAIN publishRules
        PROVE  /\ pending'[q] > 0 => Waiting(q)' /\ Younger(q)'
               /\ pending'[q] <= Age(q)' + CheckPeriod + 1
    <3>1. /\ q \in Published /\ Age(q) \in Nat /\ Age(q)' = Age(q)
      BY <1>1, ExportTypes, Constants DEF Age, Elapsed
    <3>2. CASE q = p
      BY <1>2, <3>1, <3>2, Constants
    <3>3. CASE q # p
      <4>1. Waiting(q) => Waiting(q)'
        BY <1>1, <1>2, <3>1, <3>3 DEF Waiting, Current
      <4>2. Younger(q) => Younger(q)'
        BY <1>1, <1>2, <3>1, <3>3 DEF Younger, SinceCheck, Elapsed
      <4>3. QED BY <1>2, <3>1, <3>3, <4>1, <4>2 DEF ExportInv, ChangesWait
    <3>4. QED BY <3>2, <3>3
  <2>2. QED BY <1>1, <2>1 DEF ChangesWait
<1>9. QED BY <1>3, <1>4, <1>5, <1>6, <1>7, <1>8 DEF ExportInv

(* A tick: everything grows older, and nothing is on its way.              *)
LEMMA TickInv ==
  ASSUME ExportInv, Tick
  PROVE  ExportInv'
<1>1. /\ TypeOK /\ ran = Hub /\ ran' = {} /\ now' = (now + 1) % Clock
      /\ \A h \in Hub : net[h] = << >>
      /\ pending' = [p \in Published |-> IF Waiting(p) THEN pending[p] + 1 ELSE 0]
      /\ UNCHANGED <<lastCheck, value, publishRules, subscribeRules, alias, net,
                     lostRow, calm>>
  BY DEF ExportInv, Tick
<1>2. /\ now' \in Time
      /\ \A t \in Time : (now' - t) % Clock =
           IF Elapsed(t) = Clock - 1 THEN 0 ELSE Elapsed(t) + 1
  BY <1>1, LapsTick, ExportTypes DEF Elapsed
<1>3. ASSUME NEW h \in Hub
      PROVE  /\ SinceCheck(h) \in Nat /\ SinceCheck(h) <= CheckPeriod
             /\ SinceCheck(h)' = SinceCheck(h) + 1
  <2>1. lastCheck[h] \in Time /\ SinceCheck(h) \in 0 .. Clock - 1
    BY <1>1, ExportTypes
  <2>2. SinceCheck(h) <= CheckPeriod
    BY <1>1 DEF ExportInv, ChecksRun
  <2>3. SinceCheck(h)' = (now' - lastCheck[h]) % Clock
    BY <1>1 DEF SinceCheck, Elapsed
  <2>4. SinceCheck(h) # Clock - 1
    BY <2>1, <2>2, Constants
  <2>5. SinceCheck(h)' = SinceCheck(h) + 1
    BY <1>2, <2>1, <2>3, <2>4 DEF SinceCheck
  <2>6. QED BY <2>1, <2>2, <2>5
<1>4. ASSUME NEW p \in DOMAIN publishRules
      PROVE  /\ p \in Published /\ p[1] \in Hub /\ Age(p) \in 0 .. Clock - 1
             /\ publishRules[p].syncInterval \in Nat
             /\ publishRules[p].syncInterval + CheckPeriod < Clock
             /\ Age(p)' = IF Age(p) = Clock - 1 THEN 0 ELSE Age(p) + 1
  <2>1. /\ p \in Published /\ publishRules[p].lastSync \in Time
        /\ publishRules[p].syncInterval \in Intervals
        /\ Age(p) \in 0 .. Clock - 1
    BY <1>1, ExportTypes
  <2>2. Age(p)' = (now' - publishRules[p].lastSync) % Clock
    BY <1>1 DEF Age, Elapsed
  <2>3. QED BY <1>2, <2>1, <2>2, Constants DEF Age
<1>5. ASSUME NEW s \in DOMAIN subscribeRules
      PROVE  /\ s \in Subscribed /\ Silence(s) \in Nat /\ Silence(s)' \in Nat
             /\ Silence(s)' <= Silence(s) + 1
  <2>1. /\ s \in Subscribed /\ subscribeRules[s].lastReceived \in Time
        /\ Silence(s) \in 0 .. Clock - 1
    BY <1>1, ExportTypes
  <2>2. Silence(s)' = (now' - subscribeRules[s].lastReceived) % Clock
    BY <1>1 DEF Silence, Elapsed
  <2>3. Silence(s)' = IF Silence(s) = Clock - 1 THEN 0 ELSE Silence(s) + 1
    BY <1>2, <2>1, <2>2 DEF Silence
  <2>4. QED BY <2>1, <2>3, Constants
<1>6. \A s \in Subscribed : ~InFlight(s) /\ ~InFlight(s)'
  BY <1>1, NothingCarried, Constants DEF InFlight
<1>7. TypeOK'
  <2>1. pending' \in [Published -> Nat]
    BY <1>1, ExportTypes
  <2>2. QED BY <1>1, <1>2, <2>1 DEF TypeOK
<1>8. ChecksRun'
  <2>1. ASSUME NEW h \in Hub
        PROVE  SinceCheck(h)' <= CheckPeriod + 1
    BY <1>3, Constants
  <2>2. QED BY <1>1, <2>1 DEF ChecksRun
<1>9. FreshWhenChecked'
  <2>1. ASSUME NEW s \in DOMAIN subscribeRules, ~subscribeRules[s].isStale
        PROVE  Silence(s)' <= Timeout + SinceCheck(s[1])'
    <3>1. s[1] \in Hub
      BY <1>5, Constants
    <3>2. Silence(s) <= Timeout + SinceCheck(s[1])
      BY <2>1 DEF ExportInv, FreshWhenChecked
    <3>3. QED BY <1>3, <1>5, <3>1, <3>2, Constants
  <2>2. QED BY <1>1, <2>1 DEF FreshWhenChecked
<1>10. ChangesWait'
  <2>1. ASSUME NEW p \in DOMAIN publishRules
        PROVE  /\ pending'[p] > 0 => Waiting(p)' /\ Younger(p)'
               /\ pending'[p] <= Age(p)' + CheckPeriod + 1
    <3>1. Waiting(p)' <=> Waiting(p)
      BY <1>1 DEF Waiting, Current
    <3>2. CASE ~Waiting(p)
      <4>1. pending'[p] = 0 /\ Age(p)' \in Nat
        BY <1>1, <1>4, <3>2
      <4>2. QED BY <4>1, Constants
    <3>3. CASE Waiting(p)
      <4> DEFINE c == SinceCheck(p[1])
                 i == publishRules[p].syncInterval
                 n == pending[p]
      <4>1. /\ pending'[p] = n + 1 /\ n \in Nat /\ CheckPeriod \in Nat
        BY <1>1, <1>4, <3>3, ExportTypes, Constants
      <4>2. /\ n > 0 => n <= c \/ Age(p) < i + c
            /\ n <= Age(p) + CheckPeriod + 1
        BY DEF ExportInv, ChangesWait, Younger
      <4>3. /\ c \in Nat /\ c <= CheckPeriod /\ SinceCheck(p[1])' = c + 1
            /\ i \in Nat /\ i + CheckPeriod < Clock /\ Age(p) \in 0 .. Clock - 1
            /\ Age(p)' = IF Age(p) = Clock - 1 THEN 0 ELSE Age(p) + 1
            /\ publishRules'[p].syncInterval = i /\ Clock \in Nat
        BY <1>1, <1>3, <1>4, Constants
      <4> HIDE DEF c, i, n
      <4>4. n + 1 <= c + 1 \/ Age(p)' < i + c + 1
        BY <4>1, <4>2, <4>3
      <4>5. n + 1 <= Age(p)' + CheckPeriod + 1
        BY <4>1, <4>2, <4>3
      <4>6. Younger(p)'
        BY <4>1, <4>3, <4>4 DEF Younger
      <4>7. QED BY <3>1, <3>3, <4>1, <4>5, <4>6
    <3>4. QED BY <3>2, <3>3
  <2>2. QED BY <1>1, <2>1 DEF ChangesWait
<1>11. FromOthers'
  BY <1>1 DEF ExportInv, FromOthers
<1>12. ASSUME NEW p \in DOMAIN publishRules, Served(p)
       PROVE  Served(p)' /\ Age(p)' = Age(p) + 1
  <2> DEFINE c == SinceCheck(p[1])
             i == publishRules[p].syncInterval
  <2>1. /\ c \in Nat /\ c <= CheckPeriod /\ SinceCheck(p[1])' = c + 1
        /\ i \in Nat /\ i + CheckPeriod < Clock /\ Age(p) \in 0 .. Clock - 1
        /\ Age(p)' = IF Age(p) = Clock - 1 THEN 0 ELSE Age(p) + 1
        /\ publishRules'[p].syncInterval = i
    BY <1>1, <1>3, <1>4
  <2>2. Age(p) <= c \/ Age(p) < i + c
    BY <1>12 DEF Served
  <2>3. CheckPeriod \in Nat /\ CheckPeriod + 1 < Clock /\ Clock \in Nat
    BY Constants
  <2> HIDE DEF c, i
  <2>4. Age(p)' = Age(p) + 1
    BY <2>1, <2>2, <2>3
  <2>5. Age(p)' <= c + 1 \/ Age(p)' < i + (c + 1)
    BY <2>1, <2>2, <2>4
  <2>6. QED BY <2>1, <2>4, <2>5 DEF Served
<1>13. ServedInTime'
  <2>1. ASSUME NEW s \in Subscribed, calm[s] # "no"
        PROVE  /\ s[2] \in DOMAIN publishRules
               /\ Periodic(s[2])' => Served(s[2])'
    <3>1. s[2] \in DOMAIN publishRules /\ (Periodic(s[2]) => Served(s[2]))
      BY <2>1 DEF ExportInv, ServedInTime
    <3>2. Periodic(s[2])' <=> Periodic(s[2])
      BY <1>1 DEF Periodic
    <3>3. QED BY <1>12, <3>1, <3>2
  <2>2. QED BY <1>1, <1>6, <2>1 DEF ServedInTime
<1>14. LossesCount'
  <2>1. ASSUME NEW s \in Subscribed, calm[s] = "yes"
        PROVE  /\ s[1] # s[2][1]
               /\ s \in DOMAIN subscribeRules /\ Regular(s[2])' =>
                    Silence(s)' <= Expected(s)'
    <3>1. s[1] # s[2][1]
      BY <2>1 DEF ExportInv, LossesCount
    <3>2. ASSUME s \in DOMAIN subscribeRules, Regular(s[2])'
          PROVE  Silence(s)' <= Expected(s)'
      <4>1. Regular(s[2])
        BY <1>1, <3>2 DEF Regular, Periodic, Sends
      <4>2. Silence(s) <= Expected(s)
        BY <2>1, <3>2, <4>1 DEF ExportInv, LossesCount
      <4>3. s[2] \in DOMAIN publishRules /\ Served(s[2])
        BY <2>1, <4>1 DEF ExportInv, ServedInTime, Regular
      <4>4. Age(s[2])' = Age(s[2]) + 1 /\ Age(s[2]) \in Nat
        BY <1>4, <1>12, <4>3, Constants
      <4> DEFINE loss == lostRow[s] * Gap(s[2])
      <4>5. loss \in Nat
        BY <1>1, <2>1, <4>1, AgeInGap DEF ExportInv
      <4>6. Expected(s) = loss + Age(s[2]) /\ Expected(s)' = loss + Age(s[2])'
        BY <1>1, <1>6 DEF Expected, Gap
      <4> HIDE DEF loss
      <4>7. QED BY <1>5, <3>2, <4>2, <4>4, <4>5, <4>6
    <3>3. QED BY <3>1, <3>2
  <2>2. QED BY <1>1, <2>1 DEF LossesCount
<1>15. QED BY <1>7, <1>8, <1>9, <1>10, <1>11, <1>13, <1>14 DEF ExportInv

LEMMA ExportNextInv == ExportInv /\ [Next]_vars => ExportInv'
<1> SUFFICES ASSUME ExportInv, [Next]_vars
             PROVE  ExportInv'
  OBVIOUS
<1>1. ASSUME NEW h \in Hub, loop(h)
      PROVE  ExportInv'
  BY <1>1, IdleInv, CheckInv DEF loop
<1>2. ASSUME NEW h \in Hub, receivedCallback(h)
      PROVE  ExportInv'
  <2>1. Head(net[h]).type \in {"sync", "request"}
    BY <1>2 DEF receivedCallback
  <2>2. QED BY <1>2, <2>1, SyncInv, AskedInv
<1>3. ASSUME NEW h \in Hub, Lose(h)
      PROVE  ExportInv'
  BY <1>3, LoseInv
<1>4. ASSUME NEW p \in Published, NEW interval \in Intervals,
             NEW onChange \in BOOLEAN, addPublishRule(p, interval, onChange)
      PROVE  ExportInv'
  BY <1>4, AddRuleInv
<1>5. ASSUME NEW p \in Published, removePublishRule(p)
      PROVE  ExportInv'
  BY <1>5, RemoveRuleInv
<1>6. ASSUME NEW s \in Subscribed,
             \/ addSubscribeRule(s) \/ removeSubscribeRule(s)
             \/ requestRemoteVariable(s)
      PROVE  ExportInv'
  BY <1>6, AddSubscriptionInv, RemoveSubscriptionInv, RequestInv
<1>7. ASSUME NEW p \in Published, NEW n \in Value, PlcWrite(p, n)
      PROVE  ExportInv'
  BY <1>7, PlcWriteInv
<1>8. CASE Tick
  BY <1>8, TickInv
<1>9. CASE UNCHANGED vars
  <2>1. UNCHANGED <<now, lastCheck, ran, value, publishRules, subscribeRules,
                    alias, net, lostRow, calm, pending>>
    BY <1>9 DEF vars
  <2>2. TypeOK' /\ FromOthers' /\ \A s \in Subscribed : InFlight(s)' <=> InFlight(s)
    BY <2>1 DEF ExportInv, TypeOK, FromOthers, InFlight
  <2>3. /\ ChecksRun' /\ FreshWhenChecked' /\ ChangesWait' /\ ServedInTime'
        /\ LossesCount'
    BY <2>1, <2>2, ChecksKept, FreshKept, ChangesKept, ServedKept, LossesKept
       DEF ExportInv, LossesCount
  <2>4. QED BY <2>2, <2>3 DEF ExportInv
<1>10. QED
  BY <1>1, <1>2, <1>3, <1>4, <1>5, <1>6, <1>7, <1>8, <1>9 DEF Next
------------------------------------------------------------------------------
(* MeshExportManager: whatever hubs ask, answer, lose and configure, every *)
(* variable keeps its type.                                                *)
THEOREM ExportTypeCorrect == Spec => []TypeOK
<1>1. ExportInv => TypeOK
  BY DEF ExportInv
<1>2. QED BY ExportInitInv, ExportNextInv, <1>1, PTL DEF Spec

(* loop: a change that lasts is sent within the interval and the periods   *)
(* of two checks, whenever the rule was set, requests came and millis()    *)
(* wrapped.                                                                *)
THEOREM ChangesSent == Spec => []ChangeIsSent
<1>1. ASSUME ExportInv, NEW p \in DOMAIN publishRules
      PROVE  pending[p] < publishRules[p].syncInterval + 2 * (CheckPeriod + 1)
  <2> DEFINE c == SinceCheck(p[1])
             i == publishRules[p].syncInterval
             n == pending[p]
  <2>1. /\ p \in Published /\ i \in Intervals /\ Age(p) \in 0 .. Clock - 1
    BY <1>1, ExportTypes DEF ExportInv
  <2>2. p[1] \in Hub /\ n \in Nat /\ i \in Nat
    BY <1>1, <2>1, ExportTypes, Constants DEF ExportInv
  <2>3. c \in 0 .. Clock - 1
    BY <1>1, <2>2, ExportTypes DEF ExportInv
  <2>4. c <= CheckPeriod + 1 /\ CheckPeriod \in Nat /\ Clock \in Nat
    BY <1>1, <2>2, <2>3, Constants DEF ExportInv, ChecksRun
  <2>5. /\ n > 0 => n <= c \/ Age(p) < i + c
        /\ n <= Age(p) + CheckPeriod + 1
    BY <1>1 DEF ExportInv, ChangesWait, Younger
  <2> HIDE DEF c, i, n
  <2>6. n < i + 2 * (CheckPeriod + 1)
    BY <2>1, <2>2, <2>3, <2>4, <2>5
  <2>7. QED BY <2>6 DEF i, n
<1>2. ExportInv => ChangeIsSent
  BY <1>1 DEF ChangeIsSent
<1>3. QED BY ExportInitInv, ExportNextInv, <1>2, PTL DEF Spec

(* checkStaleSubscriptions: nothing that has not been received for the     *)
(* timeout and the period of the check still counts as fresh.              *)
THEOREM SilenceSeen == Spec => []SilenceIsSeen
<1>1. ASSUME ExportInv, NEW s \in DOMAIN subscribeRules,
             ~subscribeRules[s].isStale
      PROVE  Silence(s) <= Timeout + CheckPeriod + 1
  <2>1. s[1] \in Hub /\ Silence(s) \in Nat
    BY <1>1, ExportTypes, Constants DEF ExportInv
  <2>2. SinceCheck(s[1]) \in Nat /\ SinceCheck(s[1]) <= CheckPeriod + 1
    <3>1. SinceCheck(s[1]) \in 0 .. Clock - 1
      BY <1>1, <2>1, ExportTypes DEF ExportInv
    <3>2. QED BY <1>1, <2>1, <3>1, Constants DEF ExportInv, ChecksRun
  <2>3. Silence(s) <= Timeout + SinceCheck(s[1])
    BY <1>1 DEF ExportInv, FreshWhenChecked
  <2>4. QED BY <2>1, <2>2, <2>3, Constants
<1>2. ExportInv => SilenceIsSeen
  BY <1>1 DEF SilenceIsSeen, Silence
<1>3. QED BY ExportInitInv, ExportNextInv, <1>2, PTL DEF Spec

(* Only the check of a subscription's own hub makes it stale.              *)
LEMMA StaleByCheck ==
  ASSUME ExportInv, [Next]_vars, NEW s \in DOMAIN subscribeRules,
         s \in DOMAIN subscribeRules', ~subscribeRules[s].isStale,
         subscribeRules'[s].isStale, calm'[s] = "yes"
  PROVE  Silence(s) > Timeout
<1>1. s \in Subscribed /\ Silence(s) \in Nat
  BY ExportTypes, Constants DEF ExportInv
<1>2. ASSUME NEW h \in Hub, loop(h)
      PROVE  Silence(s) > Timeout
  <2>1. CASE Idle(h)
    BY <2>1 DEF Idle
  <2>2. CASE Check(h)
    <3>1. subscribeRules' = checkStaleSubscriptions(h)
      BY <2>2 DEF Check
    <3>2. subscribeRules'[s] =
            [subscribeRules[s] EXCEPT
               !.isStale = subscribeRules[s].isStale
                             \/ (s[1] = h /\ Silence(s) > Timeout)]
      BY <3>1 DEF checkStaleSubscriptions, Silence
    <3>3. subscribeRules[s] \in MeshSubscribeRule
      BY ExportTypes DEF ExportInv
    <3>4. QED BY <3>2, <3>3 DEF MeshSubscribeRule
  <2>3. QED BY <1>2, <2>1, <2>2 DEF loop
<1>3. ASSUME NEW h \in Hub, receivedCallback(h)
      PROVE  Silence(s) > Timeout
  <2>1. \/ UNCHANGED subscribeRules
        \/ \E at \in DOMAIN subscribeRules :
             subscribeRules' = [subscribeRules EXCEPT
               ![at] = [lastReceived |-> now, isStale |-> FALSE]]
    BY <1>3 DEF receivedCallback, handleVariableSync, handleVariableRequest,
                updateSubscribedVariable
  <2>2. QED BY <2>1
<1>4. ASSUME NEW r \in Subscribed, addSubscribeRule(r)
      PROVE  Silence(s) > Timeout
  <2>1. r = s
    BY <1>4 DEF addSubscribeRule
  <2>2. calm'[s] = "no"
    BY <1>1, <1>4, <2>1, ExportTypes DEF addSubscribeRule, ExportInv
  <2>3. QED BY <2>2
<1>5. ASSUME NEW r \in Subscribed, removeSubscribeRule(r)
      PROVE  Silence(s) > Timeout
  BY <1>5 DEF removeSubscribeRule, Without
<1>6. QED
  BY <1>2, <1>3, <1>4, <1>5 DEF Next, Lose, addPublishRule, removePublishRule,
     requestRemoteVariable, PlcWrite, Tick, vars

(* updateSubscribedVariable, checkStaleSubscriptions: a subscription to a  *)
(* variable published periodically outlasts the loss of MaxLost messages   *)
(* in a row, if its timeout leaves room for them.                          *)
THEOREM LossTolerated == Spec => ToleratesLoss
<1> DEFINE Step ==
      \A s \in DOMAIN subscribeRules :
        /\ calm[s] = "yes" /\ calm'[s] = "yes"
        /\ ~publishRules[s[2]].syncOnChange
        /\ publishRules[s[2]].syncInterval > 0
        /\ Sends(s[2])
        /\ Timeout >= (MaxLost + 1)
                        * (publishRules[s[2]].syncInterval + CheckPeriod)
        /\ s \in DOMAIN subscribeRules' /\ ~subscribeRules[s].isStale
        => ~subscribeRules'[s].isStale
<1>1. ASSUME ExportInv, [Next]_vars, NEW s \in DOMAIN subscribeRules,
             calm[s] = "yes", calm'[s] = "yes", Regular(s[2]),
             Timeout >= (MaxLost + 1) * Gap(s[2]),
             s \in DOMAIN subscribeRules', ~subscribeRules[s].isStale,
             subscribeRules'[s].isStale
      PROVE  FALSE
  <2> DEFINE k == lostRow[s]
             g == Gap(s[2])
  <2>1. s \in Subscribed /\ Silence(s) \in Nat
    BY <1>1, ExportTypes, Constants DEF ExportInv
  <2>2. Silence(s) > Timeout
    BY <1>1, StaleByCheck
  <2>3. Silence(s) <= Expected(s)
    BY <1>1, <2>1 DEF ExportInv, LossesCount
  <2>4. /\ g \in Nat /\ k * g \in Nat /\ Expected(s) \in Nat
        /\ Expected(s) <= k * g + g
    BY <1>1, <2>1, AgeInGap DEF ExportInv
  <2>5. k \in Nat /\ k <= MaxLost /\ MaxLost \in Nat /\ Timeout \in Nat
    BY <1>1, <2>1, ExportTypes, Constants DEF ExportInv
  <2>6. Timeout >= (MaxLost + 1) * g
    BY <1>1
  <2> HIDE DEF k, g
  <2>7. k * g <= MaxLost * g /\ (MaxLost + 1) * g = MaxLost * g + g
    BY <2>4, <2>5, MoreProducts, Products
  <2> DEFINE a == k * g
             b == MaxLost * g
  <2>8. a \in Nat /\ b \in Nat /\ a <= b /\ Expected(s) <= a + g
    BY <2>4, <2>5, <2>7, Products
  <2>9. Timeout >= b + g
    BY <2>6, <2>7
  <2> HIDE DEF a, b
  <2>10. QED BY <2>1, <2>2, <2>3, <2>4, <2>5, <2>8, <2>9
<1>2. ExportInv /\ [Next]_vars => Step
  <2> SUFFICES ASSUME ExportInv, [Next]_vars, NEW s \in DOMAIN subscribeRules,
                      calm[s] = "yes", calm'[s] = "yes",
                      ~publishRules[s[2]].syncOnChange,
                      publishRules[s[2]].syncInterval > 0, Sends(s[2]),
                      Timeout >= (MaxLost + 1)
                        * (publishRules[s[2]].syncInterval + CheckPeriod),
                      s \in DOMAIN subscribeRules', ~subscribeRules[s].isStale
               PROVE  ~subscribeRules'[s].isStale
    OBVIOUS
  <2>1. Regular(s[2]) /\ Timeout >= (MaxLost + 1) * Gap(s[2])
    BY DEF Regular, Periodic, Gap
  <2>2. QED BY <1>1, <2>1
<1>3. ExportInv /\ UNCHANGED vars => Step
  BY DEF vars
<1>4. QED
  BY ExportInitInv, ExportNextInv, <1>2, <1>3, PTL DEF Spec, ToleratesLoss
==============================================================================
