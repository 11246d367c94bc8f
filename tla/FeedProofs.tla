----------------------------- MODULE FeedProofs -----------------------------
(***************************************************************************)
(* AcMitm implements ChangeFeed for power, temperature and fan: what was   *)
(* changed is published, once and in order.                                *)
(***************************************************************************)
EXTENDS AcMitmProofs, WellFoundedInduction

-----------------------------------------------------------------------------
(* Induction over the natural numbers, for a set.                          *)
LEMMA Induction ==
  ASSUME NEW S, 0 \in S, \A n \in Nat : n \in S => n + 1 \in S
  PROVE  Nat \subseteq S
<1> DEFINE R == {ss \in Nat \X Nat : ss[1] < ss[2]}
           T == Nat \ S
<1>1. \A x, y \in Nat : x < y => <<x, y>> \in R   OBVIOUS
<1>2. IsWellFoundedOn(R, Nat)   BY NatLessThanWellFounded DEF OpToRel
<1> HIDE DEF R
<1> SUFFICES ASSUME T # {} PROVE FALSE   OBVIOUS
<1>3. PICK x \in T : \A y \in T : ~(<<y, x>> \in R)   BY <1>2, WFMin
<1>4. x # 0 /\ x \in Nat   OBVIOUS
<1>5. x - 1 \in Nat /\ x - 1 < x /\ (x - 1) + 1 = x   BY <1>4
<1>6. x - 1 \in S   BY <1>1, <1>3, <1>4, <1>5
<1> QED BY <1>3, <1>5, <1>6

(* One step of ValuesOf, from what the events before have given.           *)
More(type, q, n, before) ==
  IF q[n].type = type THEN Append(before, q[n].value) ELSE before

(* v collects the values of the first m events of q.                       *)
Collects(v, type, q, m) ==
  v = [n \in 0 .. m |-> IF n = 0 THEN <<>> ELSE More(type, q, n, v[n - 1])]

LEMMA CollectsExists ==
  ASSUME NEW type, NEW q
  PROVE  \A m \in Nat : \E v : Collects(v, type, q, m)
<1> DEFINE S == {m \in Nat : \E v : Collects(v, type, q, m)}
<1>1. 0 \in S
  <2> DEFINE v == [n \in 0 .. 0 |-> <<>>]
  <2>1. Collects(v, type, q, 0)   BY DEF Collects
  <2> QED BY <2>1
<1>2. ASSUME NEW m \in Nat, m \in S PROVE m + 1 \in S
  <2>1. PICK v : Collects(v, type, q, m)   BY <1>2
  <2> DEFINE w == [n \in 0 .. m + 1 |->
                     IF n = m + 1 THEN More(type, q, n, v[m]) ELSE v[n]]
  <2>2. \A n \in 0 .. m : w[n] = v[n]   OBVIOUS
  <2>3. \A n \in 0 .. m + 1 :
          w[n] = IF n = 0 THEN <<>> ELSE More(type, q, n, w[n - 1])
    <3> SUFFICES ASSUME NEW n \in 0 .. m + 1
                 PROVE  w[n] = IF n = 0 THEN <<>> ELSE More(type, q, n, w[n - 1])
      OBVIOUS
    <3>1. CASE n = m + 1
      <4>1. w[n] = More(type, q, n, v[m]) /\ n # 0 /\ n - 1 = m /\ m \in 0 .. m
        BY <3>1
      <4>2. w[n - 1] = v[m]   BY <2>2, <4>1
      <4> QED BY <4>1, <4>2
    <3>2. CASE n \in 0 .. m
      <4>1. w[n] = v[n]   BY <2>2, <3>2
      <4>2. v[n] = IF n = 0 THEN <<>> ELSE More(type, q, n, v[n - 1])
        BY <2>1, <3>2 DEF Collects
      <4>3. n # 0 => n - 1 \in 0 .. m   BY <3>2
      <4> QED BY <2>2, <4>1, <4>2, <4>3
    <3> QED BY <3>1, <3>2
  <2>4. w = [n \in 0 .. m + 1 |-> w[n]]   OBVIOUS
  <2> HIDE DEF w
  <2>5. Collects(w, type, q, m + 1)   BY <2>3, <2>4 DEF Collects
  <2> QED BY <2>5
<1> HIDE DEF S
<1>3. Nat \subseteq S   BY <1>1, <1>2, Induction
<1> QED BY <1>3 DEF S

(* ValuesOf is the last of what a collection collects.                     *)
LEMMA ValuesCollected ==
  ASSUME NEW type, NEW q, Len(q) \in Nat
  PROVE  \E v : Collects(v, type, q, Len(q)) /\ ValuesOf(type, q) = v[Len(q)]
<1> DEFINE v == CHOOSE v : Collects(v, type, q, Len(q))
<1>1. Collects(v, type, q, Len(q))
  <2>1. \E u : Collects(u, type, q, Len(q))   BY CollectsExists
  <2> QED BY <2>1
<1>2. ValuesOf(type, q) = v[Len(q)]
  BY DEF ValuesOf, Collects, More
<1> QED BY <1>1, <1>2

LEMMA EventValues == \A e \in Events : e.value \in Int
<1>1. Bit \subseteq Int /\ Temperatures \subseteq Int
      /\ Modes \union {-1} \subseteq Int /\ Fans \union {-1} \subseteq Int
  BY DEF Bit, Temperatures, Modes, Fans, AC_MODE_FAN, AC_MODE_AUTO, AC_FAN_LOW, AC_FAN_AUTO
<1>2. \A types, values : \A e \in Plain(types, values) : e.value \in values
  BY DEF Plain
<1>3. \A e \in [type : {"IR_RECV"}, value : {0}, frame : Frame \union {NoFrame}] : e.value \in Int
  OBVIOUS
<1> QED BY <1>1, <1>2, <1>3 DEF Events

(* What is collected, step by step. *)
LEMMA CollectsSteps ==
  ASSUME NEW type, NEW q \in Seq(Events), NEW v, Collects(v, type, q, Len(q))
  PROVE  /\ v[0] = <<>>
         /\ \A n \in 1 .. Len(q) : v[n] = More(type, q, n, v[n - 1])
         /\ \A n \in 0 .. Len(q) : v[n] \in Seq(Int)
<1>1. Len(q) \in Nat   OBVIOUS
<1>2. v[0] = <<>>   BY <1>1 DEF Collects
<1>3. ASSUME NEW n \in 1 .. Len(q) PROVE v[n] = More(type, q, n, v[n - 1])
  BY <1>1 DEF Collects
<1> DEFINE S == {n \in Nat : n <= Len(q) => v[n] \in Seq(Int)}
<1>4. 0 \in S
  <2>1. <<>> \in Seq(Int)   OBVIOUS
  <2> QED BY <1>2, <2>1
<1>5. ASSUME NEW n \in Nat, n \in S PROVE n + 1 \in S
  <2> SUFFICES ASSUME n + 1 <= Len(q) PROVE v[n + 1] \in Seq(Int)   OBVIOUS
  <2>1. v[n] \in Seq(Int)   BY <1>1, <1>5
  <2>2. n + 1 \in 1 .. Len(q) /\ n + 1 - 1 = n   BY <1>1
  <2>3. v[n + 1] = More(type, q, n + 1, v[n])   BY <1>3, <2>2
  <2>4. q[n + 1].value \in Int   BY <2>2, EventValues
  <2> QED BY <2>1, <2>3, <2>4 DEF More
<1> HIDE DEF S
<1>6. Nat \subseteq S   BY <1>4, <1>5, Induction
<1>7. \A n \in 0 .. Len(q) : v[n] \in Seq(Int)
  <2>1. \A n \in 0 .. Len(q) : n \in Nat /\ n <= Len(q)   BY <1>1
  <2> QED BY <1>6, <2>1 DEF S
<1> QED BY <1>2, <1>3, <1>7

LEMMA ValuesType ==
  ASSUME NEW type, NEW q \in Seq(Events)
  PROVE  ValuesOf(type, q) \in Seq(Int)
<1>1. Len(q) \in Nat /\ Len(q) \in 0 .. Len(q)   OBVIOUS
<1>2. PICK v : Collects(v, type, q, Len(q)) /\ ValuesOf(type, q) = v[Len(q)]
  BY <1>1, ValuesCollected
<1>3. \A n \in 0 .. Len(q) : v[n] \in Seq(Int)   BY <1>2, CollectsSteps
<1> QED BY <1>1, <1>2, <1>3

LEMMA ValuesEmpty ==
  ASSUME NEW type
  PROVE  ValuesOf(type, <<>>) = <<>>
<1>1. <<>> \in Seq(Events) /\ Len(<<>>) = 0   OBVIOUS
<1>2. PICK v : Collects(v, type, <<>>, 0) /\ ValuesOf(type, <<>>) = v[0]
  BY <1>1, ValuesCollected
<1> QED BY <1>2 DEF Collects

(* An event at the end of the queue adds its value at the end.             *)
LEMMA ValuesAppend ==
  ASSUME NEW type, NEW q \in Seq(Events), NEW e \in Events
  PROVE  ValuesOf(type, Append(q, e)) =
           IF e.type = type THEN Append(ValuesOf(type, q), e.value) ELSE ValuesOf(type, q)
<1> DEFINE r == Append(q, e)
           m == Len(q)
<1>1. /\ r \in Seq(Events) /\ m \in Nat /\ Len(r) = m + 1
      /\ \A n \in 1 .. m : r[n] = q[n]
      /\ r[m + 1] = e
  OBVIOUS
<1>2. PICK v : Collects(v, type, q, m) /\ ValuesOf(type, q) = v[m]
  BY <1>1, ValuesCollected
<1> HIDE DEF r
<1>3. PICK w : Collects(w, type, r, m + 1) /\ ValuesOf(type, r) = w[m + 1]
  BY <1>1, ValuesCollected
<1>4. /\ v[0] = <<>> /\ w[0] = <<>>
      /\ \A n \in 1 .. m : v[n] = More(type, q, n, v[n - 1])
      /\ \A n \in 1 .. m + 1 : w[n] = More(type, r, n, w[n - 1])
  <2>1. v[0] = <<>> /\ \A n \in 1 .. m : v[n] = More(type, q, n, v[n - 1])
    BY <1>2, CollectsSteps
  <2>2. Collects(w, type, r, Len(r))   BY <1>1, <1>3
  <2>3. w[0] = <<>> /\ \A n \in 1 .. Len(r) : w[n] = More(type, r, n, w[n - 1])
    BY <1>1, <2>2, CollectsSteps
  <2> QED BY <1>1, <2>1, <2>3
<1> DEFINE S == {n \in Nat : n <= m => w[n] = v[n]}
<1>5. 0 \in S   BY <1>4
<1>6. ASSUME NEW n \in Nat, n \in S PROVE n + 1 \in S
  <2> SUFFICES ASSUME n + 1 <= m PROVE w[n + 1] = v[n + 1]   OBVIOUS
  <2>1. w[n] = v[n]   BY <1>1, <1>6
  <2>2. n + 1 \in 1 .. m /\ n + 1 \in 1 .. m + 1 /\ n + 1 - 1 = n   BY <1>1
  <2>3. v[n + 1] = More(type, q, n + 1, v[n])   BY <1>4, <2>2
  <2>4. w[n + 1] = More(type, r, n + 1, w[n])   BY <1>4, <2>2
  <2>5. r[n + 1] = q[n + 1]   BY <1>1, <2>2
  <2> QED BY <2>1, <2>3, <2>4, <2>5 DEF More
<1> HIDE DEF S
<1>7. Nat \subseteq S   BY <1>5, <1>6, Induction
<1>8. w[m] = v[m]   BY <1>1, <1>7 DEF S
<1>9. w[m + 1] = More(type, r, m + 1, v[m])
  <2>1. m + 1 \in 1 .. m + 1 /\ m + 1 - 1 = m   BY <1>1
  <2> QED BY <1>4, <1>8, <2>1
<1> QED BY <1>1, <1>2, <1>3, <1>9 DEF More, r

LEMMA AppendHeadTail ==
  ASSUME NEW s \in Seq(Int), s # <<>>, NEW x \in Int
  PROVE  /\ Append(s, x) # <<>>
         /\ Head(Append(s, x)) = Head(s)
         /\ Tail(Append(s, x)) = Append(Tail(s), x)
<1>1. Append(s, x) # <<>>   BY AppendProperties
<1>2. Head(Append(s, x)) = Head(s) /\ Tail(Append(s, x)) = Append(Tail(s), x)
  BY HeadTailAppend
<1> QED BY <1>1, <1>2

(* An event that is taken from the queue takes the first value with it.    *)
LEMMA ValuesTail ==
  ASSUME NEW type, NEW q \in Seq(Events), q # <<>>
  PROVE  IF Head(q).type = type
         THEN /\ ValuesOf(type, q) # <<>>
              /\ Head(ValuesOf(type, q)) = Head(q).value
              /\ Tail(ValuesOf(type, q)) = ValuesOf(type, Tail(q))
         ELSE ValuesOf(type, q) = ValuesOf(type, Tail(q))
<1> DEFINE r == Tail(q)
           m == Len(Tail(q))
<1>1. /\ r \in Seq(Events) /\ m \in Nat /\ Len(q) = m + 1
      /\ \A n \in 1 .. m : r[n] = q[n + 1]
      /\ Head(q) = q[1] /\ q[1] \in Events
  OBVIOUS
<1> HIDE DEF r, m
<1>2. PICK v : Collects(v, type, q, Len(q)) /\ ValuesOf(type, q) = v[Len(q)]
  <2>1. Len(q) \in Nat   BY <1>1
  <2> QED BY <2>1, ValuesCollected
<1>3. PICK w : Collects(w, type, r, Len(r)) /\ ValuesOf(type, r) = w[Len(r)]
  <2>1. Len(r) \in Nat   BY <1>1 DEF r, m
  <2> QED BY <2>1, ValuesCollected
<1>4. /\ v[0] = <<>> /\ w[0] = <<>>
      /\ \A n \in 1 .. m + 1 : v[n] = More(type, q, n, v[n - 1])
      /\ \A n \in 1 .. m : w[n] = More(type, r, n, w[n - 1])
      /\ \A n \in 0 .. m + 1 : v[n] \in Seq(Int)
      /\ \A n \in 0 .. m : w[n] \in Seq(Int)
      /\ ValuesOf(type, q) = v[m + 1] /\ ValuesOf(type, r) = w[m]
  <2>1. Len(r) = m /\ Len(q) = m + 1   BY <1>1 DEF r, m
  <2>2. /\ v[0] = <<>>
        /\ \A n \in 1 .. Len(q) : v[n] = More(type, q, n, v[n - 1])
        /\ \A n \in 0 .. Len(q) : v[n] \in Seq(Int)
    BY <1>2, CollectsSteps
  <2>3. /\ w[0] = <<>>
        /\ \A n \in 1 .. Len(r) : w[n] = More(type, r, n, w[n - 1])
        /\ \A n \in 0 .. Len(r) : w[n] \in Seq(Int)
    BY <1>1, <1>3, CollectsSteps
  <2> QED BY <1>2, <1>3, <2>1, <2>2, <2>3
<1> DEFINE Shifted(n) ==
             IF q[1].type = type
             THEN /\ v[n + 1] # <<>> /\ Head(v[n + 1]) = q[1].value
                  /\ Tail(v[n + 1]) = w[n]
             ELSE v[n + 1] = w[n]
           S == {n \in Nat : n <= m => Shifted(n)}
<1>5. 0 \in S
  <2>1. v[1] = More(type, q, 1, <<>>)
    <3>1. 1 \in 1 .. m + 1 /\ 1 - 1 = 0   BY <1>1
    <3> QED BY <1>4, <3>1
  <2>2. q[1].value \in Int   BY <1>1, EventValues
  <2>3. /\ Append(<<>>, q[1].value) # <<>> /\ Head(Append(<<>>, q[1].value)) = q[1].value
        /\ Tail(Append(<<>>, q[1].value)) = <<>>
    BY <2>2
  <2>4. v[0 + 1] = (IF q[1].type = type THEN Append(<<>>, q[1].value) ELSE <<>>)
    BY <2>1 DEF More
  <2>5. Shifted(0)   BY <1>4, <2>3, <2>4
  <2> QED BY <2>5
<1>6. ASSUME NEW n \in Nat, n \in S PROVE n + 1 \in S
  <2> SUFFICES ASSUME n + 1 <= m PROVE Shifted(n + 1)   OBVIOUS
  <2>1. Shifted(n)   BY <1>1, <1>6
  <2>2. /\ n + 1 \in 1 .. m /\ n + 1 \in 0 .. m + 1 /\ n + 1 - 1 = n /\ n \in 0 .. m
        /\ n + 2 \in 1 .. m + 1 /\ n + 2 - 1 = n + 1 /\ n + 1 + 1 = n + 2
    BY <1>1
  <2>3. w[n + 1] = More(type, r, n + 1, w[n])   BY <1>4, <2>2
  <2>4. v[n + 2] = More(type, q, n + 2, v[n + 1])   BY <1>4, <2>2
  <2>5. r[n + 1] = q[n + 2]   BY <1>1, <2>2
  <2>6. q[n + 2].value \in Int
    <3>1. n + 2 \in 1 .. Len(q)   BY <1>1, <2>2
    <3>2. q[n + 2] \in Events   BY <3>1
    <3> QED BY <3>2, EventValues
  <2>7. v[n + 1] \in Seq(Int)   BY <1>4, <2>2
  <2> DEFINE x == q[n + 2].value
             vn == v[n + 1]
  <2>8. w[n + 1] = (IF q[n + 2].type = type THEN Append(w[n], x) ELSE w[n])
        /\ v[n + 2] = (IF q[n + 2].type = type THEN Append(vn, x) ELSE vn)
    BY <2>3, <2>4, <2>5 DEF More
  <2>9. CASE q[1].type = type
    <3>1. vn # <<>> /\ Head(vn) = q[1].value /\ Tail(vn) = w[n]   BY <2>1, <2>9
    <3>2. /\ Append(vn, x) # <<>> /\ Head(Append(vn, x)) = Head(vn)
          /\ Tail(Append(vn, x)) = Append(Tail(vn), x)
      BY <2>6, <2>7, <3>1, AppendHeadTail
    <3>3. /\ v[n + 2] # <<>> /\ Head(v[n + 2]) = q[1].value
          /\ Tail(v[n + 2]) = w[n + 1]
      BY <2>8, <3>1, <3>2
    <3> QED BY <2>2, <2>9, <3>3
  <2>10. CASE q[1].type # type
    <3>1. vn = w[n]   BY <2>1, <2>10
    <3> QED BY <2>2, <2>8, <2>10, <3>1
  <2> QED BY <2>9, <2>10
<1> HIDE DEF S
<1>7. Nat \subseteq S   BY <1>5, <1>6, Induction
<1>8. Shifted(m)   BY <1>1, <1>7 DEF S
<1> QED BY <1>1, <1>4, <1>8 DEF r

-----------------------------------------------------------------------------
(* What a step does to the changes of a field that are on their way.       *)
FeedChange(f) ==
  /\ current'[f] # current[f]
  /\ OnItsWay(f)' = Append(OnItsWay(f), current'[f])
  /\ published' = published

FeedPublish(f) ==
  /\ current'[f] = current[f]
  /\ Handle /\ Take(ChangeEvent[f])
  /\ OnItsWay(f) # <<>>
  /\ Head(OnItsWay(f)) = Head(queue).value
  /\ OnItsWay(f)' = Tail(OnItsWay(f))

FeedStill(f) ==
  /\ current'[f] = current[f]
  /\ OnItsWay(f)' = OnItsWay(f)
  /\ \/ published' = published
     \/ \E type : Handle /\ Take(type) /\ type # ChangeEvent[f]

LEMMA FeedArrive ==
  ASSUME TypeOK, Arrive, NEW f \in Fields
  PROVE  FeedStill(f)
<1>1. PICK e \in Events : Post(e) /\ e.type # ChangeEvent[f]
  <2> USE DEF Fields, ChangeEvent, Event, IrEvent
  <2>1. CASE \E p \in PowerPayloads : MqttPower(p)
    BY <2>1, EventMade DEF MqttPower, Bit
  <2>2. CASE \E t \in TemperaturePayloads : MqttTemperature(t)
    BY <2>2, EventMade, PayloadAssumption DEF MqttTemperature
  <2>3. CASE \E m \in ModePayloads : MqttMode(m)
    BY <2>3, EventMade, ValueOfName DEF MqttMode, Bit
  <2>4. CASE \E g \in FanPayloads : MqttFan(g)
    BY <2>4, EventMade, ValueOfName DEF MqttFan
  <2>5. CASE \E fr \in RemoteFrames : RemoteControl(fr)
    BY <2>5, EventMade, RemoteAssumption DEF RemoteControl
  <2>6. CASE \E level \in Levels : PowerDetector(level)
    <3>1. PICK level \in Bit : Post(Event("POWER_DETECTOR_CHANGED", level))
      BY <2>6, LevelAssumption DEF PowerDetector
    <3>2. Event("POWER_DETECTOR_CHANGED", level) \in Events
      BY EventMade
    <3> QED BY <3>1, <3>2
  <2> QED BY <2>1, <2>2, <2>3, <2>4, <2>5, <2>6 DEF Arrive
<1>2. queue \in Seq(Events) /\ queue' = Append(queue, e)
      /\ UNCHANGED <<current, published, posting, at>>
  BY <1>1 DEF TypeOK, Post
<1>3. ValuesOf(ChangeEvent[f], queue') = ValuesOf(ChangeEvent[f], queue)
  BY <1>1, <1>2, ValuesAppend
<1> QED BY <1>2, <1>3 DEF FeedStill, OnItsWay

LEMMA FeedHandle ==
  ASSUME TypeOK, Handle, NEW f \in Fields
  PROVE  FeedPublish(f) \/ FeedStill(f)
<1>1. current'[f] = current[f]
  <2>1. CASE PowerDetectorChanged
    BY <2>1 DEF PowerDetectorChanged, TypeOK, AcState, Fields
  <2>2. CASE UNCHANGED current
    BY <2>2
  <2> QED BY <2>1, <2>2
          DEF Handle, AcOnMqttPower, AcOnMqttTemperature, AcOnMqttMode,
              AcOnMqttFan, IrOnRecv, AcOnPowerChanged, AcOnTemperatureChanged,
              AcOnModeChanged, AcOnFanChanged
<1>2. posting' = posting /\ \E type : Take(type)
  BY DEF Handle, AcOnMqttPower, AcOnMqttTemperature, AcOnMqttMode,
         AcOnMqttFan, IrOnRecv, AcOnPowerChanged, AcOnTemperatureChanged,
         AcOnModeChanged, AcOnFanChanged, PowerDetectorChanged, StartUpdate, Drop
<1>3. PICK type : Take(type)   BY <1>2
<1>4. queue \in Seq(Events) /\ queue # <<>> /\ queue' = Tail(queue)
      /\ Head(queue).type = type
  BY <1>3 DEF TypeOK, Take
<1>5. ~posting /\ ~posting'
  BY <1>2, <1>3 DEF TypeOK, Take, Fields
<1>6. OnItsWay(f) = ValuesOf(ChangeEvent[f], queue)
      /\ OnItsWay(f)' = ValuesOf(ChangeEvent[f], Tail(queue))
  BY <1>4, <1>5 DEF OnItsWay
<1>7. CASE type = ChangeEvent[f]
  <2>1. /\ OnItsWay(f) # <<>> /\ Head(OnItsWay(f)) = Head(queue).value
        /\ OnItsWay(f)' = Tail(OnItsWay(f))
    BY <1>4, <1>6, <1>7, ValuesTail
  <2> QED BY <1>1, <1>3, <1>7, <2>1 DEF FeedPublish
<1>8. CASE type # ChangeEvent[f]
  <2>1. OnItsWay(f)' = OnItsWay(f)   BY <1>4, <1>6, <1>8, ValuesTail
  <2> QED BY <1>1, <1>3, <1>8, <2>1 DEF FeedStill
<1> QED BY <1>7, <1>8

LEMMA FeedUpdateState ==
  ASSUME TypeOK, UpdateState, NEW f \in Fields
  PROVE  FeedChange(f) \/ FeedStill(f)
<1> DEFINE type == ChangeEvent[f]
<1>1. queue \in Seq(Events) /\ current \in AcState   BY DEF TypeOK
<1>2. CASE KeepField \/ Save
  <2>1. ~posting /\ UNCHANGED <<current, queue, posting, published>>
    BY <1>2 DEF KeepField, Save, TypeOK, Fields
  <2>2. OnItsWay(f)' = OnItsWay(f)   BY <2>1 DEF OnItsWay
  <2> QED BY <2>1, <2>2 DEF FeedStill
<1>3. CASE ChangeField
  <2>1. /\ at \in Fields /\ ~posting /\ posting' /\ UNCHANGED <<queue, at, published>>
        /\ current' = [current EXCEPT ![at] = args[at]]
        /\ current[at] # args[at]
    BY <1>3 DEF ChangeField, Changes
  <2>2. current'[at] = args[at] /\ (f # at => current'[f] = current[f])
    BY <1>1, <2>1 DEF AcState, Fields
  <2>3. CASE f = at
    <3>1. OnItsWay(f) = ValuesOf(type, queue)
          /\ OnItsWay(f)' = Append(ValuesOf(type, queue), current'[f])
      BY <2>1, <2>3 DEF OnItsWay
    <3> QED BY <2>1, <2>2, <2>3, <3>1 DEF FeedChange
  <2>4. CASE f # at
    <3>1. OnItsWay(f)' = OnItsWay(f)   BY <2>1, <2>4 DEF OnItsWay
    <3> QED BY <2>1, <2>2, <2>4, <3>1 DEF FeedStill
  <2> QED BY <2>3, <2>4
<1>4. CASE PostChange
  <2> DEFINE e == Event(ChangeEvent[at], current[at])
  <2>1. /\ posting /\ ~posting' /\ at \in Fields /\ UNCHANGED <<current, published>>
        /\ queue' = Append(queue, e)
    BY <1>4 DEF PostChange, TypeOK
  <2>2. e \in Events   BY <1>1, <2>1, ChangeMade
  <2>3. e.type = ChangeEvent[at] /\ e.value = current[at]   BY DEF Event
  <2> HIDE DEF e
  <2>4. ValuesOf(type, queue') =
          IF e.type = type THEN Append(ValuesOf(type, queue), e.value)
          ELSE ValuesOf(type, queue)
    BY <1>1, <2>1, <2>2, ValuesAppend
  <2>5. e.type = type <=> f = at   BY <2>1, <2>3, ChangeEventsDiffer
  <2>6. OnItsWay(f)' = OnItsWay(f)
    <3>1. CASE f = at   BY <2>1, <2>3, <2>4, <2>5, <3>1 DEF OnItsWay
    <3>2. CASE f # at   BY <2>1, <2>4, <2>5, <3>2 DEF OnItsWay
    <3> QED BY <3>1, <3>2
  <2> QED BY <2>1, <2>6 DEF FeedStill
<1> QED BY <1>2, <1>3, <1>4 DEF UpdateState

LEMMA FeedReturn ==
  ASSUME TypeOK, Return, NEW f \in Fields
  PROVE  FeedStill(f)
<1>1. ~posting /\ UNCHANGED <<current, queue, posting, published>>
  BY DEF Return, SetMode, RejectMode, SendFrame, StartUpdate, TypeOK, Fields
<1>2. OnItsWay(f)' = OnItsWay(f)   BY <1>1 DEF OnItsWay
<1> QED BY <1>1, <1>2 DEF FeedStill

LEMMA FeedRestart ==
  ASSUME Restart, NEW f \in Fields
  PROVE  OnItsWay(f)' = <<>> /\ published' = Nothing
<1>1. queue' = <<>> /\ ~posting' /\ published' = Nothing   BY DEF Restart
<1> QED BY <1>1, ValuesEmpty DEF OnItsWay

(* Every step is one of these. *)
LEMMA FeedStep ==
  ASSUME TypeOK, [Next]_vars, NEW f \in Fields
  PROVE  FeedChange(f) \/ FeedPublish(f) \/ FeedStill(f) \/ Restart
<1>1. CASE UNCHANGED vars
  <2>1. UNCHANGED <<current, queue, posting, at, published>>   BY <1>1 DEF vars
  <2>2. OnItsWay(f)' = OnItsWay(f)   BY <2>1 DEF OnItsWay
  <2> QED BY <2>1, <2>2 DEF FeedStill
<1> QED BY <1>1, FeedArrive, FeedHandle, FeedUpdateState, FeedReturn
        DEF Next, TaskStep

(* Each of the topics is published by one handler, from its event.         *)
LEMMA TopicsHandled ==
  ASSUME TypeOK, Handle, NEW type, Take(type)
  PROVE  /\ published'.Power = IF type = "AC_POWER_CHANGED"
                               THEN IF Head(queue).value = 1 THEN "on" ELSE "off"
                               ELSE published.Power
         /\ published'.Temperature = IF type = "AC_TEMPERATURE_CHANGED"
                                     THEN Head(queue).value ELSE published.Temperature
         /\ published'.Fan = IF type = "AC_FAN_CHANGED"
                             THEN fan_to_name[Head(queue).value] ELSE published.Fan
<1>1. type = Head(queue).type /\ published \in Published   BY DEF Take, TypeOK
<1>2. CASE AcOnPowerChanged
  BY <1>1, <1>2 DEF AcOnPowerChanged, Take, Published
<1>3. CASE AcOnTemperatureChanged
  BY <1>1, <1>3 DEF AcOnTemperatureChanged, Take, Published
<1>4. CASE AcOnModeChanged
  BY <1>1, <1>4 DEF AcOnModeChanged, Take, Published
<1>5. CASE AcOnFanChanged
  BY <1>1, <1>5 DEF AcOnFanChanged, Take, Published
<1>6. CASE /\ UNCHANGED published
           /\ type \notin {"AC_POWER_CHANGED", "AC_TEMPERATURE_CHANGED", "AC_FAN_CHANGED"}
  BY <1>6
<1> QED BY <1>1, <1>2, <1>3, <1>4, <1>5, <1>6
        DEF Handle, AcOnMqttPower, AcOnMqttTemperature, AcOnMqttMode,
            AcOnMqttFan, IrOnRecv, PowerDetectorChanged, Take

-----------------------------------------------------------------------------
(* A topic shows a value: every value has a name of its own.               *)
PowerTable == [v \in Bit |-> IF v = 1 THEN "on" ELSE "off"]

LEMMA ShownOnce ==
  ASSUME NEW table, NEW v \in DOMAIN table, table[v] # NoValue,
         \A w \in DOMAIN table : table[w] = table[v] => w = v
  PROVE  Shown(table, table[v]) = v
<1> DEFINE w == CHOOSE w \in DOMAIN table : table[w] = table[v]
<1>1. w \in DOMAIN table /\ table[w] = table[v]   BY Zenon
<1>2. Shown(table, table[v]) = w   BY DEF Shown
<1> HIDE DEF w
<1> QED BY <1>1, <1>2

LEMMA ShownPower ==
  ASSUME NEW v \in Bit
  PROVE  Shown(PowerTable, IF v = 1 THEN "on" ELSE "off") = v
<1>1. /\ v \in DOMAIN PowerTable
      /\ PowerTable[v] = IF v = 1 THEN "on" ELSE "off"
      /\ \A w \in DOMAIN PowerTable : PowerTable[w] = PowerTable[v] => w = v
  BY DEF PowerTable, Bit
<1>2. PowerTable[v] # NoValue   BY <1>1, NoValueAssumption
<1> QED BY <1>1, <1>2, ShownOnce

LEMMA ShownFan ==
  ASSUME NEW v \in Fans
  PROVE  Shown(fan_to_name, fan_to_name[v]) = v
<1> USE DEF AC_FAN_LOW, AC_FAN_MEDIUM, AC_FAN_HIGH, AC_FAN_AUTO
<1>1. DOMAIN fan_to_name = Fans /\ \A w \in Fans : w \in {0, 1, 2, 3}
  BY DEF fan_to_name, Fans
<1>2. \A w \in Fans : fan_to_name[w] = CASE w = 0 -> "low" [] w = 1 -> "medium"
                                         [] w = 2 -> "high" [] w = 3 -> "auto"
  BY DEF fan_to_name
<1>3. \A w \in Fans : fan_to_name[w] = fan_to_name[v] => w = v
  BY <1>1, <1>2
<1>4. fan_to_name[v] # NoValue   BY FanNames, NoValueAssumption
<1> QED BY <1>1, <1>3, <1>4, ShownOnce

(* The refinement, for the power. *)
LEMMA PowerInit == Init => PowerFeed!Init
<1> SUFFICES ASSUME Init PROVE PowerFeed!Init   OBVIOUS
<1>1. queue = <<>> /\ ~posting /\ published = Nothing /\ current.power = 0
  BY DEF Init, FactoryState
<1>2. OnItsWay("power") = <<>>   BY <1>1, ValuesEmpty DEF OnItsWay
<1>3. Shown(PowerTable, published.Power) = NoValue
  BY <1>1 DEF Nothing, Topics, Shown
<1> QED BY <1>1, <1>2, <1>3 DEF PowerFeed!Init, Bit, PowerTable

LEMMA PowerStep ==
  ASSUME TypeOK, TypeOK', [Next]_vars
  PROVE  [PowerFeed!Next]_<<current.power, OnItsWay("power"),
                            Shown(PowerTable, published.Power)>>
<1> DEFINE f == "power"
           seen == Shown(PowerTable, published.Power)
<1>1. f \in Fields /\ ChangeEvent[f] = "AC_POWER_CHANGED"   BY DEF Fields, ChangeEvent
<1>2. current.power \in Bit /\ current'.power \in Bit   BY DEF TypeOK, AcState
<1>3. CASE FeedChange(f)
  <2>1. PowerFeed!Change
    BY <1>2, <1>3 DEF FeedChange, PowerFeed!Change, PowerTable
  <2> QED BY <2>1 DEF PowerFeed!Next
<1>4. CASE FeedPublish(f)
  <2>1. Take("AC_POWER_CHANGED") /\ Handle   BY <1>1, <1>4 DEF FeedPublish
  <2>2. Head(queue).value \in Bit   BY <2>1, TakeOK, EventRead
  <2>3. published'.Power = IF Head(queue).value = 1 THEN "on" ELSE "off"
    BY <2>1, TopicsHandled
  <2>4. seen' = Head(queue).value   BY <2>2, <2>3, ShownPower
  <2>5. PowerFeed!Publish
    BY <1>4, <2>4 DEF FeedPublish, PowerFeed!Publish, PowerTable
  <2> QED BY <2>5 DEF PowerFeed!Next
<1>5. CASE FeedStill(f)
  <2>1. published'.Power = published.Power
    BY <1>1, <1>5, TopicsHandled DEF FeedStill
  <2>2. seen' = seen   BY <2>1
  <2> QED BY <1>5, <2>2 DEF FeedStill
<1>6. CASE Restart
  <2>1. OnItsWay(f)' = <<>> /\ published' = Nothing   BY <1>1, <1>6, FeedRestart
  <2>2. seen' = NoValue   BY <2>1 DEF Nothing, Topics, Shown
  <2>3. PowerFeed!Reset
    BY <1>2, <2>1, <2>2 DEF PowerFeed!Reset, PowerTable
  <2> QED BY <2>3 DEF PowerFeed!Next
<1> QED BY <1>1, <1>3, <1>4, <1>5, <1>6, FeedStep

LEMMA PowerInOrder == Spec => PowerFeed!Spec
<1>1. TypeOK /\ TypeOK' /\ [Next]_vars
        => [PowerFeed!Next]_<<current.power, OnItsWay("power"),
                              Shown(PowerTable, published.Power)>>
  BY PowerStep
<1> QED BY <1>1, PowerInit, TypeCorrect, PTL DEF Spec, PowerFeed!Spec, PowerTable

(* The refinement, for the temperature. *)
LEMMA TemperatureInit == Init => TemperatureFeed!Init
<1> SUFFICES ASSUME Init PROVE TemperatureFeed!Init   OBVIOUS
<1>1. queue = <<>> /\ ~posting /\ published = Nothing /\ current.temperature = 0
  BY DEF Init, FactoryState
<1>2. OnItsWay("temperature") = <<>>   BY <1>1, ValuesEmpty DEF OnItsWay
<1>3. published.Temperature = NoValue
  BY <1>1 DEF Nothing, Topics
<1> QED BY <1>1, <1>2, <1>3 DEF TemperatureFeed!Init, Temperatures

LEMMA TemperatureStep ==
  ASSUME TypeOK, TypeOK', [Next]_vars
  PROVE  [TemperatureFeed!Next]_<<current.temperature, OnItsWay("temperature"),
                            published.Temperature>>
<1> DEFINE f == "temperature"
           seen == published.Temperature
<1>1. f \in Fields /\ ChangeEvent[f] = "AC_TEMPERATURE_CHANGED"   BY DEF Fields, ChangeEvent
<1>2. current.temperature \in Temperatures /\ current'.temperature \in Temperatures   BY DEF TypeOK, AcState
<1>3. CASE FeedChange(f)
  <2>1. TemperatureFeed!Change
    BY <1>2, <1>3 DEF FeedChange, TemperatureFeed!Change
  <2> QED BY <2>1 DEF TemperatureFeed!Next
<1>4. CASE FeedPublish(f)
  <2>1. Take("AC_TEMPERATURE_CHANGED") /\ Handle   BY <1>1, <1>4 DEF FeedPublish
  <2>2. Head(queue).value \in Temperatures   BY <2>1, TakeOK, EventRead
  <2>3. published'.Temperature = Head(queue).value
    BY <2>1, TopicsHandled
  <2>4. seen' = Head(queue).value   BY <2>3
  <2>5. TemperatureFeed!Publish
    BY <1>4, <2>4 DEF FeedPublish, TemperatureFeed!Publish
  <2> QED BY <2>5 DEF TemperatureFeed!Next
<1>5. CASE FeedStill(f)
  <2>1. published'.Temperature = published.Temperature
    BY <1>1, <1>5, TopicsHandled DEF FeedStill
  <2>2. seen' = seen   BY <2>1
  <2> QED BY <1>5, <2>2 DEF FeedStill
<1>6. CASE Restart
  <2>1. OnItsWay(f)' = <<>> /\ published' = Nothing   BY <1>1, <1>6, FeedRestart
  <2>2. seen' = NoValue   BY <2>1 DEF Nothing, Topics
  <2>3. TemperatureFeed!Reset
    BY <1>2, <2>1, <2>2 DEF TemperatureFeed!Reset
  <2> QED BY <2>3 DEF TemperatureFeed!Next
<1> QED BY <1>1, <1>3, <1>4, <1>5, <1>6, FeedStep

LEMMA TemperatureInOrder == Spec => TemperatureFeed!Spec
<1>1. TypeOK /\ TypeOK' /\ [Next]_vars
        => [TemperatureFeed!Next]_<<current.temperature, OnItsWay("temperature"),
                              published.Temperature>>
  BY TemperatureStep
<1> QED BY <1>1, TemperatureInit, TypeCorrect, PTL DEF Spec, TemperatureFeed!Spec

(* The refinement, for the fan. *)
LEMMA FanInit == Init => FanFeed!Init
<1> SUFFICES ASSUME Init PROVE FanFeed!Init   OBVIOUS
<1>1. queue = <<>> /\ ~posting /\ published = Nothing /\ current.fan = 0
  BY DEF Init, FactoryState, AC_FAN_LOW
<1>2. OnItsWay("fan") = <<>>   BY <1>1, ValuesEmpty DEF OnItsWay
<1>3. Shown(fan_to_name, published.Fan) = NoValue
  BY <1>1 DEF Nothing, Topics, Shown
<1> QED BY <1>1, <1>2, <1>3 DEF FanFeed!Init, Fans, AC_FAN_LOW, AC_FAN_AUTO

LEMMA FanStep ==
  ASSUME TypeOK, TypeOK', [Next]_vars
  PROVE  [FanFeed!Next]_<<current.fan, OnItsWay("fan"),
                          Shown(fan_to_name, published.Fan)>>
<1> DEFINE f == "fan"
           seen == Shown(fan_to_name, published.Fan)
<1>1. f \in Fields /\ ChangeEvent[f] = "AC_FAN_CHANGED"   BY DEF Fields, ChangeEvent
<1>2. current.fan \in Fans /\ current'.fan \in Fans   BY DEF TypeOK, AcState
<1>3. CASE FeedChange(f)
  <2>1. FanFeed!Change
    BY <1>2, <1>3 DEF FeedChange, FanFeed!Change
  <2> QED BY <2>1 DEF FanFeed!Next
<1>4. CASE FeedPublish(f)
  <2>1. Take("AC_FAN_CHANGED") /\ Handle   BY <1>1, <1>4 DEF FeedPublish
  <2>2. Head(queue).value \in Fans   BY <2>1, TakeOK, EventRead
  <2>3. published'.Fan = fan_to_name[Head(queue).value]
    BY <2>1, TopicsHandled
  <2>4. seen' = Head(queue).value   BY <2>2, <2>3, ShownFan
  <2>5. FanFeed!Publish
    BY <1>4, <2>4 DEF FeedPublish, FanFeed!Publish
  <2> QED BY <2>5 DEF FanFeed!Next
<1>5. CASE FeedStill(f)
  <2>1. published'.Fan = published.Fan
    BY <1>1, <1>5, TopicsHandled DEF FeedStill
  <2>2. seen' = seen   BY <2>1
  <2> QED BY <1>5, <2>2 DEF FeedStill
<1>6. CASE Restart
  <2>1. OnItsWay(f)' = <<>> /\ published' = Nothing   BY <1>1, <1>6, FeedRestart
  <2>2. seen' = NoValue   BY <2>1 DEF Nothing, Topics, Shown
  <2>3. FanFeed!Reset
    BY <1>2, <2>1, <2>2 DEF FanFeed!Reset
  <2> QED BY <2>3 DEF FanFeed!Next
<1> QED BY <1>1, <1>3, <1>4, <1>5, <1>6, FeedStep

LEMMA FanInOrder == Spec => FanFeed!Spec
<1>1. TypeOK /\ TypeOK' /\ [Next]_vars
        => [FanFeed!Next]_<<current.fan, OnItsWay("fan"),
                            Shown(fan_to_name, published.Fan)>>
  BY FanStep
<1> QED BY <1>1, FanInit, TypeCorrect, PTL DEF Spec, FanFeed!Spec

(* However commands, frames, levels and resets come: every change of the   *)
(* power, the temperature and the fan is published, once and in the order  *)
(* of the changes, unless a reset forgets it.                              *)
(* [update_state, the change callbacks, ac_on_*_changed]                   *)
THEOREM PublishedCorrect == Spec => PublishedInOrder
  BY PowerInOrder, TemperatureInOrder, FanInOrder DEF PublishedInOrder
=============================================================================
