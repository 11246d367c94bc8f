---------------------------- MODULE AcMitmProofs ----------------------------
(***************************************************************************)
(* Theorems about AcMitm, for every queue length and every set of inputs.  *)
(***************************************************************************)
EXTENDS AcMitm, SequenceTheorems, TLAPS

-----------------------------------------------------------------------------
(* The code tables *)

(* Searching a mode table gives a mode or -1. *)
LEMMA ModeOfCode ==
  ASSUME NEW v \in 0 .. 7
  PROVE  value_to_mode(airwell_modes, v) \in Modes \union {-1}
BY DEF value_to_mode, airwell_modes, Modes, AC_MODE_FAN, AC_MODE_COOL,
       AC_MODE_HEAT, AC_MODE_DRY, AC_MODE_AUTO

(* Every fan code is a fan. *)
LEMMA FanOfCode ==
  ASSUME NEW v \in 0 .. 3
  PROVE  value_to_mode(airwell_fans, v) = v
BY DEF value_to_mode, airwell_fans

(* Every mode has a code between 1 and 5, which stands for that mode only. *)
LEMMA CodeOfMode ==
  ASSUME NEW m \in Modes
  PROVE  /\ mode_to_value(airwell_modes, m) \in 1 .. 5
         /\ value_to_mode(airwell_modes, mode_to_value(airwell_modes, m)) = m
<1> DEFINE w == CHOOSE v \in DOMAIN airwell_modes : airwell_modes[v] = m
<1>1. \E v \in DOMAIN airwell_modes : airwell_modes[v] = m
  <2> USE DEF airwell_modes, Modes, AC_MODE_FAN, AC_MODE_COOL, AC_MODE_HEAT,
              AC_MODE_DRY, AC_MODE_AUTO
  <2>1. CASE m = 0
    <3>1. 5 \in DOMAIN airwell_modes /\ airwell_modes[5] = m  BY <2>1
    <3> QED BY <3>1
  <2>2. CASE m = 1
    <3>1. 1 \in DOMAIN airwell_modes /\ airwell_modes[1] = m  BY <2>2
    <3> QED BY <3>1
  <2>3. CASE m = 2
    <3>1. 2 \in DOMAIN airwell_modes /\ airwell_modes[2] = m  BY <2>3
    <3> QED BY <3>1
  <2>4. CASE m = 3
    <3>1. 4 \in DOMAIN airwell_modes /\ airwell_modes[4] = m  BY <2>4
    <3> QED BY <3>1
  <2>5. CASE m = 4
    <3>1. 3 \in DOMAIN airwell_modes /\ airwell_modes[3] = m  BY <2>5
    <3> QED BY <3>1
  <2> QED BY <2>1, <2>2, <2>3, <2>4, <2>5
<1>2. w \in DOMAIN airwell_modes /\ airwell_modes[w] = m
  BY <1>1, Zenon
<1>3. mode_to_value(airwell_modes, m) = w
  BY <1>1, Zenon DEF mode_to_value
<1>4. DOMAIN airwell_modes = 1 .. 5
  BY DEF airwell_modes
<1> HIDE DEF w
<1> QED BY <1>2, <1>3, <1>4 DEF value_to_mode

(* Every fan is its own code. *)
LEMMA CodeOfFan ==
  ASSUME NEW f \in Fans
  PROVE  mode_to_value(airwell_fans, f) = f
<1> DEFINE w == CHOOSE v \in DOMAIN airwell_fans : airwell_fans[v] = f
<1>1. DOMAIN airwell_fans = 0 .. 3 /\ \A v \in 0 .. 3 : airwell_fans[v] = v
  BY DEF airwell_fans
<1>2. f \in 0 .. 3
  BY DEF Fans, AC_FAN_LOW, AC_FAN_AUTO
<1>3. \E v \in DOMAIN airwell_fans : airwell_fans[v] = f
  BY <1>1, <1>2
<1>4. w \in DOMAIN airwell_fans /\ airwell_fans[w] = f
  BY <1>3, Zenon
<1>5. mode_to_value(airwell_fans, f) = w
  BY <1>3, Zenon DEF mode_to_value
<1> HIDE DEF w
<1> QED BY <1>1, <1>4, <1>5

(* Encoding a state and decoding the frame gives the settings back; the    *)
(* temperature too, where it has a code.                                   *)
LEMMA FrameOfState ==
  ASSUME NEW s \in AcState
  PROVE  /\ airwell_frame(s) \in Frame
         /\ Decoded(airwell_frame(s)).fan = s.fan
         /\ Decoded(airwell_frame(s)).mode = s.mode
         /\ s.temperature \in 15 .. 30 =>
              Decoded(airwell_frame(s)).temperature = s.temperature
<1> DEFINE m == mode_to_value(airwell_modes, s.mode)
           f == mode_to_value(airwell_fans, s.fan)
<1>1. s.temperature \in 0 .. 127 /\ s.fan \in Fans /\ s.mode \in Modes
  BY DEF AcState, Temperatures
<1>2. m \in 1 .. 5 /\ value_to_mode(airwell_modes, m) = s.mode
  BY <1>1, CodeOfMode
<1>3. f = s.fan /\ s.fan \in 0 .. 3
  BY <1>1, CodeOfFan DEF Fans, AC_FAN_LOW, AC_FAN_AUTO
<1>4. value_to_mode(airwell_fans, s.fan) = s.fan
  BY <1>3, FanOfCode
<1> HIDE DEF m, f
<1>5. m % 8 = m /\ f % 4 = f
  BY <1>2, <1>3
<1>6. airwell_frame(s) =
        [power_toggle |-> IF s.detected_power # s.power THEN 1 ELSE 0,
         temp |-> (s.temperature - 15) % 16, fan |-> s.fan, mode |-> m]
  BY <1>3, <1>5 DEF airwell_frame, m, f
<1>7. (s.temperature - 15) % 16 \in 0 .. 15
  BY <1>1
<1>8. s.temperature \in 15 .. 30 =>
        (s.temperature - 15) % 16 = s.temperature - 15
  BY <1>1
<1> QED BY <1>1, <1>2, <1>3, <1>4, <1>6, <1>7, <1>8 DEF Frame, Bit, Decoded

(* What the remote control asks for is an update of the state. *)
LEMMA RecvIsUpdate ==
  ASSUME NEW fr \in Frame, NEW s \in AcState
  PROVE  IsUpdate(airwell_ir_recv(fr, s))
<1>1. value_to_mode(airwell_modes, fr.mode) \in Modes \union {-1}
  BY ModeOfCode DEF Frame
<1>2. value_to_mode(airwell_fans, fr.fan) \in Fans
  BY FanOfCode DEF Frame, Fans, AC_FAN_LOW, AC_FAN_AUTO
<1>3. fr.power_toggle \in Bit /\ fr.temp \in 0 .. 15 /\ s.power \in Bit
  BY DEF Frame, AcState
<1> QED BY <1>1, <1>2, <1>3
        DEF IsUpdate, airwell_ir_recv, Fields, Keep, Bit, Temperatures

(* The names of MQTT commands are found in the tables or give -1. *)
LEMMA ValueOfName ==
  ASSUME NEW name
  PROVE  /\ name_to_value(mode_to_name, name) \in Modes \union {-1}
         /\ name_to_value(fan_to_name, name) \in Fans \union {-1}
<1>1. DOMAIN mode_to_name = Modes /\ DOMAIN fan_to_name = Fans
  BY DEF mode_to_name, fan_to_name
<1>2. ASSUME NEW t
      PROVE  name_to_value(t, name) \in (DOMAIN t) \union {-1}
  BY Zenon DEF name_to_value
<1> QED BY <1>1, <1>2

-----------------------------------------------------------------------------
(* Type correctness *)

(* The events that are made are events. *)
LEMMA EventMade ==
  /\ \A v \in Bit : /\ Event("AC_MQTT_POWER", v) \in Events
                     /\ Event("POWER_DETECTOR_CHANGED", v) \in Events
                     /\ Event("AC_POWER_CHANGED", v) \in Events
  /\ \A v \in Int : Event("AC_MQTT_TEMPERATURE", v) \in Events
  /\ \A v \in Modes \union {-1} : Event("AC_MQTT_MODE", v) \in Events
  /\ \A v \in Fans \union {-1} : Event("AC_MQTT_FAN", v) \in Events
  /\ \A v \in Temperatures : Event("AC_TEMPERATURE_CHANGED", v) \in Events
  /\ \A v \in Modes : Event("AC_MODE_CHANGED", v) \in Events
  /\ \A v \in Fans : Event("AC_FAN_CHANGED", v) \in Events
  /\ \A fr \in Frame \union {NoFrame} : IrEvent(fr) \in Events
BY DEF Event, IrEvent, Events, Plain

(* What the type of an event says of its value. *)
LEMMA EventRead ==
  ASSUME NEW e \in Events
  PROVE  /\ e.type \in {"AC_MQTT_POWER", "AC_POWER_CHANGED",
                        "POWER_DETECTOR_CHANGED"} => e.value \in Bit
         /\ e.type = "AC_MQTT_TEMPERATURE" => e.value \in Int
         /\ e.type = "AC_TEMPERATURE_CHANGED" => e.value \in Temperatures
         /\ e.type = "AC_MQTT_MODE" => e.value \in Modes \union {-1}
         /\ e.type = "AC_MODE_CHANGED" => e.value \in Modes
         /\ e.type = "AC_MQTT_FAN" => e.value \in Fans \union {-1}
         /\ e.type = "AC_FAN_CHANGED" => e.value \in Fans
         /\ e.type = "IR_RECV" => e.frame \in Frame \union {NoFrame}
BY DEF Events, Plain

(* A change event of the field f carries a value of that field. *)
LEMMA ChangeMade ==
  ASSUME NEW s \in AcState, NEW f \in Fields
  PROVE  Event(ChangeEvent[f], s[f]) \in Events
<1>1. s.power \in Bit /\ s.temperature \in Temperatures /\ s.mode \in Modes
      /\ s.fan \in Fans
  BY DEF AcState
<1>2. CASE f = "power"
  BY <1>1, <1>2, EventMade DEF ChangeEvent
<1>3. CASE f = "temperature"
  BY <1>1, <1>3, EventMade DEF ChangeEvent
<1>4. CASE f = "mode"
  BY <1>1, <1>4, EventMade DEF ChangeEvent
<1>5. CASE f = "fan"
  BY <1>1, <1>5, EventMade DEF ChangeEvent
<1> QED BY <1>2, <1>3, <1>4, <1>5 DEF Fields

(* The names that are published. *)
LEMMA Names ==
  ASSUME NEW s \in AcState
  PROVE  /\ ModeName(s) \in
              {"off", "fan_only", "cool", "heat", "dry", "auto"}
         /\ ActionName(s) \in {"off", "fan", "cooling", "heating", "drying"}
<1> USE DEF AC_MODE_FAN, AC_MODE_COOL, AC_MODE_HEAT, AC_MODE_DRY, AC_MODE_AUTO
<1>1. s.mode \in Modes
  BY DEF AcState
<1>2. s.mode \in {0, 1, 2, 3, 4}
  BY <1>1 DEF Modes
<1>3. mode_to_name[s.mode] \in {"fan_only", "cool", "heat", "dry", "auto"}
  BY <1>1, <1>2 DEF mode_to_name
<1>4. action_to_name[s.mode] \in {"fan", "cooling", "heating", "drying"}
  BY <1>1, <1>2 DEF action_to_name
<1> QED BY <1>3, <1>4 DEF ModeName, ActionName

(* A fan has a name of the tables. *)
LEMMA FanNames ==
  ASSUME NEW f \in Fans
  PROVE  fan_to_name[f] \in {"low", "medium", "high", "auto"}
<1>1. f \in {0, 1, 2, 3}
  BY DEF Fans, AC_FAN_LOW, AC_FAN_AUTO
<1> QED BY <1>1 DEF fan_to_name, AC_FAN_LOW, AC_FAN_MEDIUM, AC_FAN_HIGH,
                    AC_FAN_AUTO

(* An update of one field, and of none, is an update. *)
LEMMA UpdateOfOne ==
  /\ IsUpdate(AllKept)
  /\ \A v \in Bit : IsUpdate([AllKept EXCEPT !["power"] = v])
  /\ \A v \in Temperatures : IsUpdate([AllKept EXCEPT !["temperature"] = v])
  /\ \A v \in Modes : IsUpdate([AllKept EXCEPT !["mode"] = v])
  /\ \A v \in Fans : IsUpdate([AllKept EXCEPT !["fan"] = v])
BY DEF IsUpdate, AllKept, Fields, Keep

(* Posting an event keeps the queue a queue of events. *)
LEMMA PostOK ==
  ASSUME TypeOK, NEW e \in Events, HasRoom
  PROVE  Append(queue, e) \in Seq(Events) /\ Len(Append(queue, e)) <= QueueLen
<1>1. queue \in Seq(Events) /\ Len(queue) < QueueLen
  BY DEF TypeOK, HasRoom
<1>2. Len(queue) \in Nat /\ Len(Append(queue, e)) = Len(queue) + 1
      /\ Append(queue, e) \in Seq(Events)
  BY <1>1
<1> QED BY <1>1, <1>2, QueueAssumption

(* What the task takes is an event; what it leaves is a queue. *)
LEMMA TakeOK ==
  ASSUME TypeOK, NEW type, Take(type)
  PROVE  /\ Head(queue) \in Events /\ Head(queue).type = type
         /\ queue' \in Seq(Events) /\ Len(queue') <= QueueLen
<1>1. queue \in Seq(Events) /\ queue # <<>> /\ Len(queue) <= QueueLen
      /\ queue' = Tail(queue) /\ Head(queue).type = type
  BY DEF TypeOK, Take
<1>2. Len(queue) \in Nat /\ Len(Tail(queue)) = Len(queue) - 1
      /\ Tail(queue) \in Seq(Events) /\ Head(queue) \in Events
  BY <1>1
<1> QED BY <1>1, <1>2, QueueAssumption

(* A transmission sends a frame. *)
LEMMA TransmitOK ==
  ASSUME NEW s \in AcState, sent \in Frame \union {NoFrame},
         untold \in BOOLEAN, Transmit(s)
  PROVE  sent' \in Frame \union {NoFrame} /\ untold' \in BOOLEAN
BY FrameOfState DEF Transmit

(* The types hold after a first start. *)
LEMMA TypeInit == Init => TypeOK
<1> SUFFICES ASSUME Init PROVE TypeOK
  OBVIOUS
<1>1. FactoryState \in AcState
  BY DEF FactoryState, AcState, Bit, Temperatures, Fans, Modes, AC_FAN_LOW,
         AC_FAN_AUTO, AC_MODE_FAN, AC_MODE_AUTO
<1>2. <<>> \in Seq(Events) /\ Len(<<>>) <= QueueLen
  BY QueueAssumption
<1>3. Nothing \in Published
  BY DEF Nothing, Published, Topics
<1> QED BY <1>1, <1>2, <1>3, UpdateOfOne DEF Init, TypeOK

(* Arrivals touch the queue only. *)
LEMMA TypeArrive == TypeOK /\ Arrive => TypeOK'
<1> SUFFICES ASSUME TypeOK, Arrive PROVE TypeOK'
  OBVIOUS
<1>1. \E e \in Events : Post(e)
  <2>1. CASE \E p \in PowerPayloads : MqttPower(p)
    BY <2>1, EventMade DEF MqttPower, Bit
  <2>2. CASE \E t \in TemperaturePayloads : MqttTemperature(t)
    BY <2>2, EventMade, PayloadAssumption DEF MqttTemperature
  <2>3. CASE \E m \in ModePayloads : MqttMode(m)
    BY <2>3, EventMade, ValueOfName DEF MqttMode, Bit
  <2>4. CASE \E f \in FanPayloads : MqttFan(f)
    BY <2>4, EventMade, ValueOfName DEF MqttFan
  <2>5. CASE \E fr \in RemoteFrames : RemoteControl(fr)
    BY <2>5, EventMade, RemoteAssumption DEF RemoteControl
  <2>6. CASE \E level \in Levels : PowerDetector(level)
    BY <2>6, EventMade, LevelAssumption DEF PowerDetector
  <2> QED BY <2>1, <2>2, <2>3, <2>4, <2>5, <2>6 DEF Arrive
<1>2. PICK e \in Events : Post(e)
  BY <1>1
<1>3. queue' \in Seq(Events) /\ Len(queue') <= QueueLen
  BY <1>2, PostOK DEF Post
<1> QED BY <1>2, <1>3 DEF TypeOK, Post

(* Each handler keeps the types. *)
LEMMA TypeHandle == TypeOK /\ Handle => TypeOK'
<1> SUFFICES ASSUME TypeOK, Handle PROVE TypeOK'
  OBVIOUS
<1> DEFINE h == Head(queue)
<1>1. CASE AcOnMqttPower
  <2>1. Take("AC_MQTT_POWER")
    BY <1>1 DEF AcOnMqttPower
  <2>2. h.value \in Bit
    BY <2>1, TakeOK, EventRead
  <2>3. IsUpdate(args')
    BY <1>1, <2>2, UpdateOfOne DEF AcOnMqttPower, StartUpdate
  <2> QED BY <1>1, <2>1, <2>3, TakeOK
          DEF TypeOK, AcOnMqttPower, StartUpdate, Fields
<1>2. CASE AcOnMqttTemperature
  <2>1. Take("AC_MQTT_TEMPERATURE")
    BY <1>2 DEF AcOnMqttTemperature
  <2>2. CASE ac_set_temperature(h.value)
    <3>1. h.value \in Temperatures
      BY <2>2 DEF ac_set_temperature, min_temperature, max_temperature,
                  Temperatures
    <3>2. IsUpdate(args') /\ at' = "power" /\ event' = h /\ UNCHANGED posting
      BY <1>2, <2>2, <3>1, UpdateOfOne DEF AcOnMqttTemperature, StartUpdate
    <3> QED BY <1>2, <2>1, <3>2, TakeOK DEF TypeOK, AcOnMqttTemperature, Fields
  <2>3. CASE ~ac_set_temperature(h.value)
    BY <1>2, <2>1, <2>3, TakeOK DEF TypeOK, AcOnMqttTemperature, Drop
  <2> QED BY <2>2, <2>3
<1>3. CASE AcOnMqttMode
  <2>1. Take("AC_MQTT_MODE")
    BY <1>3 DEF AcOnMqttMode
  <2>2. IsUpdate(args')
    BY <1>3, UpdateOfOne DEF AcOnMqttMode, StartUpdate, Bit
  <2> QED BY <1>3, <2>1, <2>2, TakeOK
          DEF TypeOK, AcOnMqttMode, StartUpdate, Fields
<1>4. CASE AcOnMqttFan
  <2>1. Take("AC_MQTT_FAN")
    BY <1>4 DEF AcOnMqttFan
  <2>2. PICK f \in FanAsRead(h.value) :
          IF f \in supported_fans
          THEN StartUpdate(h, [AllKept EXCEPT !["fan"] = f])
          ELSE Drop
    BY <1>4 DEF AcOnMqttFan
  <2>3. CASE f \in supported_fans
    <3>1. f \in Fans
      BY <2>3 DEF supported_fans, Fans, AC_FAN_LOW, AC_FAN_MEDIUM, AC_FAN_HIGH,
                  AC_FAN_AUTO
    <3>2. IsUpdate(args') /\ at' = "power" /\ event' = h /\ UNCHANGED posting
      BY <2>2, <2>3, <3>1, UpdateOfOne DEF StartUpdate
    <3> QED BY <1>4, <2>1, <3>2, TakeOK DEF TypeOK, AcOnMqttFan, Fields
  <2>4. CASE f \notin supported_fans
    BY <1>4, <2>1, <2>2, <2>4, TakeOK DEF TypeOK, AcOnMqttFan, Drop
  <2> QED BY <2>3, <2>4
<1>5. CASE IrOnRecv
  <2>1. Take("IR_RECV")
    BY <1>5 DEF IrOnRecv
  <2>2. CASE h.frame = NoFrame
    BY <1>5, <2>1, <2>2, TakeOK DEF TypeOK, IrOnRecv, Drop
  <2>3. CASE h.frame # NoFrame
    <3>1. h.frame \in Frame
      BY <2>1, <2>3, TakeOK, EventRead
    <3>2. IsUpdate(args') /\ at' = "power" /\ event' = h /\ UNCHANGED posting
      BY <1>5, <2>3, <3>1, RecvIsUpdate DEF TypeOK, IrOnRecv, StartUpdate
    <3> QED BY <1>5, <2>1, <3>2, TakeOK DEF TypeOK, IrOnRecv, Fields
  <2> QED BY <2>2, <2>3
<1>6. CASE PowerDetectorChanged
  <2>1. Take("POWER_DETECTOR_CHANGED")
    BY <1>6 DEF PowerDetectorChanged
  <2>2. current' \in AcState
    BY <1>6, <2>1, TakeOK, EventRead DEF TypeOK, PowerDetectorChanged, AcState
  <2>3. sent' \in Frame \union {NoFrame} /\ untold' \in BOOLEAN
    BY <1>6, <2>2, TransmitOK DEF TypeOK, PowerDetectorChanged
  <2> QED BY <1>6, <2>1, <2>2, <2>3, TakeOK
          DEF TypeOK, PowerDetectorChanged, Drop
<1>7. CASE AcOnPowerChanged
  <2>1. Take("AC_POWER_CHANGED")
    BY <1>7 DEF AcOnPowerChanged
  <2>2. published' \in Published
    BY <1>7, Names DEF TypeOK, AcOnPowerChanged, Published
  <2> QED BY <1>7, <2>1, <2>2, TakeOK DEF TypeOK, AcOnPowerChanged, Drop
<1>8. CASE AcOnTemperatureChanged
  <2>1. Take("AC_TEMPERATURE_CHANGED")
    BY <1>8 DEF AcOnTemperatureChanged
  <2>2. published' \in Published
    BY <1>8, <2>1, TakeOK, EventRead
       DEF TypeOK, AcOnTemperatureChanged, Published
  <2> QED BY <1>8, <2>1, <2>2, TakeOK DEF TypeOK, AcOnTemperatureChanged, Drop
<1>9. CASE AcOnModeChanged
  <2>1. Take("AC_MODE_CHANGED")
    BY <1>9 DEF AcOnModeChanged
  <2>2. published' \in Published
    BY <1>9, Names DEF TypeOK, AcOnModeChanged, Published
  <2> QED BY <1>9, <2>1, <2>2, TakeOK DEF TypeOK, AcOnModeChanged, Drop
<1>10. CASE AcOnFanChanged
  <2>1. Take("AC_FAN_CHANGED")
    BY <1>10 DEF AcOnFanChanged
  <2>2. published' \in Published
    BY <1>10, <2>1, TakeOK, EventRead, FanNames
       DEF TypeOK, AcOnFanChanged, Published
  <2> QED BY <1>10, <2>1, <2>2, TakeOK DEF TypeOK, AcOnFanChanged, Drop
<1> QED BY <1>1, <1>2, <1>3, <1>4, <1>5, <1>6, <1>7, <1>8, <1>9, <1>10
        DEF Handle

(* Assigning a field its argument gives a state. *)
LEMMA AssignOK ==
  ASSUME NEW s \in AcState, NEW a, IsUpdate(a), NEW f \in Fields, a[f] # Keep
  PROVE  [s EXCEPT ![f] = a[f]] \in AcState
<1>1. CASE f = "power"
  BY <1>1 DEF AcState, IsUpdate
<1>2. CASE f = "temperature"
  BY <1>2 DEF AcState, IsUpdate
<1>3. CASE f = "mode"
  BY <1>3 DEF AcState, IsUpdate
<1>4. CASE f = "fan"
  BY <1>4 DEF AcState, IsUpdate
<1> QED BY <1>1, <1>2, <1>3, <1>4 DEF Fields

(* The steps of update_state keep the types. *)
LEMMA TypeUpdateState == TypeOK /\ UpdateState => TypeOK'
<1> SUFFICES ASSUME TypeOK, UpdateState PROVE TypeOK'
  OBVIOUS
<1>0. ASSUME at \in Fields PROVE After[at] \in Fields \union {"save"}
  BY <1>0 DEF After, Fields
<1>1. CASE KeepField
  BY <1>0, <1>1 DEF TypeOK, KeepField
<1>2. CASE ChangeField
  <2>1. current' \in AcState
    BY <1>2, AssignOK DEF TypeOK, ChangeField, Changes
  <2>2. untold' \in BOOLEAN
    BY <1>2, Zenon DEF TypeOK, ChangeField
  <2> QED BY <1>2, <2>1, <2>2 DEF TypeOK, ChangeField
<1>3. CASE PostChange
  <2>1. at \in Fields
    BY <1>3 DEF TypeOK, PostChange
  <2>2. queue' \in Seq(Events) /\ Len(queue') <= QueueLen
    BY <1>3, <2>1, ChangeMade, PostOK DEF TypeOK, PostChange
  <2> QED BY <1>0, <1>3, <2>1, <2>2 DEF TypeOK, PostChange
<1>4. CASE Save
  BY <1>4 DEF TypeOK, Save, Fields
<1> QED BY <1>1, <1>2, <1>3, <1>4 DEF UpdateState

(* The steps after update_state keep the types. *)
LEMMA TypeReturn == TypeOK /\ Return => TypeOK'
<1> SUFFICES ASSUME TypeOK, Return PROVE TypeOK'
  OBVIOUS
<1>1. CASE SetMode
  <2>1. event.value \in Modes
    BY <1>1 DEF SetMode, supported_modes, Modes, AC_MODE_FAN, AC_MODE_COOL,
                AC_MODE_HEAT, AC_MODE_DRY, AC_MODE_AUTO
  <2>2. IsUpdate(args')
    BY <1>1, <2>1, UpdateOfOne DEF SetMode, StartUpdate
  <2> QED BY <1>1, <2>2 DEF TypeOK, SetMode, StartUpdate, Fields
<1>2. CASE RejectMode
  BY <1>2, UpdateOfOne DEF TypeOK, RejectMode, Finish, Fields
<1>3. CASE SendFrame
  <2>1. sent' \in Frame \union {NoFrame} /\ untold' \in BOOLEAN
    BY <1>3, TransmitOK DEF TypeOK, SendFrame
  <2> QED BY <1>3, <2>1, UpdateOfOne DEF TypeOK, SendFrame, Finish, Fields
<1> QED BY <1>1, <1>2, <1>3 DEF Return

(* A reset keeps the types. *)
LEMMA TypeRestart == TypeOK /\ Restart => TypeOK'
<1>1. <<>> \in Seq(Events) /\ Len(<<>>) <= QueueLen
  BY QueueAssumption
<1>2. Nothing \in Published
  BY DEF Nothing, Published, Topics
<1> QED BY <1>1, <1>2, UpdateOfOne DEF TypeOK, Restart

(* Every variable keeps its type: no bit-field is given a value it cannot  *)
(* hold, the queue never exceeds its length, and every published payload   *)
(* is a name of the tables.                                                *)
THEOREM TypeCorrect == Spec => []TypeOK
<1>1. TypeOK /\ [Next]_vars => TypeOK'
  <2>1. TypeOK /\ UNCHANGED vars => TypeOK'
    BY DEF TypeOK, vars
  <2> QED BY <2>1, TypeArrive, TypeHandle, TypeUpdateState, TypeReturn,
             TypeRestart DEF Next, TaskStep
<1> QED BY <1>1, TypeInit, PTL DEF Spec

-----------------------------------------------------------------------------
(* A reset costs no more than the update in hand.                          *)

(* Steps that leave the settings, the NVS and the update alone. *)
LEMMA CrashFrame ==
  ASSUME CrashLosesOnlyThisUpdate, UNCHANGED <<nvs, unsaved>>,
         \A f \in Fields : current'[f] = current[f],
         \/ at = "idle" \/ at = "return" \/ UNCHANGED <<at, args>>
  PROVE  CrashLosesOnlyThisUpdate'
BY DEF CrashLosesOnlyThisUpdate, Fields

(* A handler starts an update, or leaves state and NVS alone. *)
LEMMA CrashHandle ==
  CrashLosesOnlyThisUpdate /\ TypeOK /\ Handle => CrashLosesOnlyThisUpdate'
<1> SUFFICES ASSUME CrashLosesOnlyThisUpdate, TypeOK, Handle
             PROVE  CrashLosesOnlyThisUpdate'
  OBVIOUS
<1>1. at = "idle" /\ UNCHANGED <<nvs, unsaved>>
  BY DEF Handle, Take, AcOnMqttPower, AcOnMqttTemperature, AcOnMqttMode,
         AcOnMqttFan, IrOnRecv, PowerDetectorChanged, AcOnPowerChanged,
         AcOnTemperatureChanged, AcOnModeChanged, AcOnFanChanged
<1>2. \A f \in Fields : current'[f] = current[f]
  <2>1. CASE PowerDetectorChanged
    BY <2>1 DEF PowerDetectorChanged, TypeOK, AcState, Fields
  <2>2. CASE UNCHANGED current
    BY <2>2
  <2> QED BY <2>1, <2>2
          DEF Handle, AcOnMqttPower, AcOnMqttTemperature, AcOnMqttMode,
              AcOnMqttFan, IrOnRecv, AcOnPowerChanged, AcOnTemperatureChanged,
              AcOnModeChanged, AcOnFanChanged
<1> QED BY <1>1, <1>2, CrashFrame

(* update_state sets a field to its argument, or saves. *)
LEMMA CrashUpdateState ==
  CrashLosesOnlyThisUpdate /\ TypeOK /\ UpdateState
    => CrashLosesOnlyThisUpdate'
<1> SUFFICES ASSUME CrashLosesOnlyThisUpdate, TypeOK, UpdateState
             PROVE  CrashLosesOnlyThisUpdate'
  OBVIOUS
<1>0. ASSUME at \in Fields PROVE After[at] \in Fields \union {"save"}
  BY <1>0 DEF After, Fields
<1>1. CASE KeepField
  BY <1>0, <1>1 DEF KeepField, CrashLosesOnlyThisUpdate
<1>2. CASE ChangeField
  <2>1. \A f \in Fields :
          current'[f] = IF f = at THEN args[f] ELSE current[f]
    BY <1>2 DEF ChangeField, TypeOK, AcState, Fields
  <2> QED BY <1>2, <2>1 DEF ChangeField, CrashLosesOnlyThisUpdate
<1>3. CASE PostChange
  BY <1>0, <1>3 DEF PostChange, TypeOK, CrashLosesOnlyThisUpdate
<1>4. CASE Save
  BY <1>4 DEF Save, CrashLosesOnlyThisUpdate
<1> QED BY <1>1, <1>2, <1>3, <1>4 DEF UpdateState

(* Whatever NVS does not have yet is a field set by the running            *)
(* update_state, unless the NVS refused the last save.                     *)
THEOREM CrashSafe == Spec => []CrashLosesOnlyThisUpdate
<1>1. Init => CrashLosesOnlyThisUpdate
  BY DEF Init, CrashLosesOnlyThisUpdate
<1>2. CrashLosesOnlyThisUpdate /\ TypeOK /\ [Next]_vars
        => CrashLosesOnlyThisUpdate'
  <2> SUFFICES ASSUME CrashLosesOnlyThisUpdate, TypeOK, [Next]_vars
               PROVE  CrashLosesOnlyThisUpdate'
    OBVIOUS
  <2>1. CASE Arrive
    BY <2>1, CrashFrame DEF Arrive, MqttPower, MqttTemperature, MqttMode,
       MqttFan, RemoteControl, PowerDetector, Post
  <2>2. CASE Handle
    BY <2>2, CrashHandle
  <2>3. CASE UpdateState
    BY <2>3, CrashUpdateState
  <2>4. CASE Return
    <3>1. at = "return" /\ UNCHANGED <<nvs, unsaved, current>>
      BY <2>4 DEF Return, SetMode, RejectMode, SendFrame
    <3> QED BY <3>1, CrashFrame
  <2>5. CASE Restart
    BY <2>5 DEF Restart, CrashLosesOnlyThisUpdate
  <2>6. CASE UNCHANGED vars
    BY <2>6, CrashFrame DEF vars
  <2> QED BY <2>1, <2>2, <2>3, <2>4, <2>5, <2>6 DEF Next, TaskStep
<1> QED BY <1>1, <1>2, TypeCorrect, PTL DEF Spec

-----------------------------------------------------------------------------
(* The deadlock of the task on its own queue is for good.                  *)

(* A full queue and a change to post: only a reset ends that. *)
THEOREM StuckIsForever == Spec => StuckForever
<1>1. TypeOK /\ [Next]_vars => (Stuck => Stuck' \/ Restart)
  <2> SUFFICES ASSUME TypeOK, [Next]_vars, Stuck, ~Restart
               PROVE  Stuck'
    OBVIOUS
  <2>1. posting /\ at \in Fields /\ ~HasRoom
    BY QueueAssumption DEF Stuck, TypeOK, HasRoom
  <2>2. ~Arrive
    BY <2>1 DEF Arrive, MqttPower, MqttTemperature, MqttMode, MqttFan,
       RemoteControl, PowerDetector, Post
  <2>3. ~Handle
    BY <2>1 DEF Handle, Take, AcOnMqttPower, AcOnMqttTemperature,
       AcOnMqttMode, AcOnMqttFan, IrOnRecv, PowerDetectorChanged,
       AcOnPowerChanged, AcOnTemperatureChanged, AcOnModeChanged,
       AcOnFanChanged, Fields
  <2>4. ~UpdateState
    BY <2>1 DEF UpdateState, KeepField, ChangeField, PostChange, Save, Fields
  <2>5. ~Return
    BY <2>1 DEF Return, SetMode, RejectMode, SendFrame, Fields
  <2> QED BY <2>2, <2>3, <2>4, <2>5 DEF Next, TaskStep, vars, Stuck
<1> QED BY <1>1, TypeCorrect, PTL DEF Spec, StuckForever

-----------------------------------------------------------------------------
(* The frame sent last matches the state.                                  *)

(* While a mode command only switches the power on, what was true of the   *)
(* frame when the command was taken stays true: no setting but the power   *)
(* changes, and a change of the power is remembered in untold.             *)
Told == sent # NoFrame /\ ~untold /\ ~StaysOff(current) =>
          /\ Decoded(sent).fan = current.fan
          /\ Decoded(sent).mode = current.mode
          /\ current.temperature \in 15 .. 30 =>
               Decoded(sent).temperature = current.temperature

ToldInv == /\ at = "idle" \/ PoweredForMode => Told
           /\ PoweredForMode =>
                \A f \in {"temperature", "mode", "fan"} : args[f] = Keep

(* Right after a transmission. *)
LEMMA TransmitTold ==
  ASSUME current' \in AcState, Transmit(current')
  PROVE  Told'
<1>1. CASE StaysOff(current')
  BY <1>1 DEF Told
<1>2. CASE ~StaysOff(current')
  BY <1>2, FrameOfState DEF Told, Transmit
<1> QED BY <1>1, <1>2

(* A handler keeps ToldInv; the detector's may transmit. *)
LEMMA ToldHandle == TypeOK /\ ToldInv /\ Handle => ToldInv'
<1> SUFFICES ASSUME TypeOK, ToldInv, Handle PROVE ToldInv'
  OBVIOUS
<1> DEFINE h == Head(queue)
<1>0. at = "idle" /\ Told
  BY DEF Handle, Take, AcOnMqttPower, AcOnMqttTemperature, AcOnMqttMode,
         AcOnMqttFan, IrOnRecv, PowerDetectorChanged, AcOnPowerChanged,
         AcOnTemperatureChanged, AcOnModeChanged, AcOnFanChanged, ToldInv
<1>1. CASE AcOnMqttMode
  <2>1. Told'
    BY <1>0, <1>1 DEF AcOnMqttMode, Told
  <2>2. \A f \in {"temperature", "mode", "fan"} : args'[f] = Keep
    BY <1>1 DEF AcOnMqttMode, StartUpdate, AllKept, Fields
  <2> QED BY <2>1, <2>2 DEF ToldInv
<1>2. CASE PowerDetectorChanged
  <2>1. current' \in AcState /\ h.value \in Bit
    BY <1>2, TakeOK, EventRead
       DEF TypeOK, PowerDetectorChanged, AcState
  <2>2. /\ current'.power = current.power
        /\ current'.temperature = current.temperature
        /\ current'.mode = current.mode
        /\ current'.fan = current.fan
    BY <1>2 DEF PowerDetectorChanged, TypeOK, AcState
  <2>3. CASE current'.detected_power # current'.power
    <3>1. Transmit(current')
      BY <1>2, <2>3 DEF PowerDetectorChanged
    <3>2. Told'
      BY <2>1, <3>1, TransmitTold
    <3> QED BY <1>2, <3>2 DEF ToldInv, PoweredForMode, PowerDetectorChanged, Drop
  <2>4. CASE current'.detected_power = current'.power
    <3>1. StaysOff(current) => StaysOff(current')
      BY <2>2, <2>4 DEF StaysOff
    <3>2. UNCHANGED <<sent, untold>>
      BY <1>2, <2>4 DEF PowerDetectorChanged
    <3>3. Told'
      BY <1>0, <2>2, <3>1, <3>2 DEF Told
    <3> QED BY <1>2, <3>3 DEF ToldInv, PoweredForMode, PowerDetectorChanged, Drop
  <2> QED BY <2>3, <2>4
<1>3. ASSUME UNCHANGED <<current, sent, untold>>,
             Drop \/ (at' = "power" /\ event'.type # "AC_MQTT_MODE")
      PROVE  ToldInv'
  <2>1. Told'
    BY <1>0, <1>3 DEF Told
  <2> QED BY <1>3, <2>1 DEF ToldInv, Drop, PoweredForMode
<1>4. CASE AcOnMqttPower
  BY <1>3, <1>4 DEF AcOnMqttPower, StartUpdate, Take
<1>5. CASE AcOnMqttTemperature
  BY <1>3, <1>5 DEF AcOnMqttTemperature, StartUpdate, Take
<1>6. CASE AcOnMqttFan
  BY <1>3, <1>6 DEF AcOnMqttFan, StartUpdate, Take
<1>7. CASE IrOnRecv
  BY <1>3, <1>7 DEF IrOnRecv, StartUpdate, Take
<1>8. CASE AcOnPowerChanged \/ AcOnTemperatureChanged \/ AcOnModeChanged
           \/ AcOnFanChanged
  BY <1>3, <1>8 DEF AcOnPowerChanged, AcOnTemperatureChanged, AcOnModeChanged,
                    AcOnFanChanged
<1> QED BY <1>1, <1>2, <1>4, <1>5, <1>6, <1>7, <1>8 DEF Handle

(* update_state keeps ToldInv: no frame is due before it returns. *)
LEMMA ToldUpdateState == TypeOK /\ ToldInv /\ UpdateState => ToldInv'
<1> SUFFICES ASSUME TypeOK, ToldInv, UpdateState PROVE ToldInv'
  OBVIOUS
<1>0. UNCHANGED <<event, args, sent>> /\ at' # "idle"
  BY DEF UpdateState, KeepField, ChangeField, PostChange, Save, After, Fields,
         TypeOK
<1>1. UNCHANGED <<current, untold>> => ToldInv'
  BY <1>0 DEF ToldInv, Told, PoweredForMode
<1>2. CASE ChangeField
  <2>1. CASE at = "power" /\ event.type = "AC_MQTT_MODE"
    <3>1. Told'
      BY <1>2, <2>1 DEF ChangeField, Told
    <3> QED BY <1>0, <3>1 DEF ToldInv, PoweredForMode
  <2>2. CASE ~PoweredForMode
    BY <1>0, <2>2 DEF ToldInv, PoweredForMode
  <2>3. CASE at # "power" /\ PoweredForMode
    BY <1>2, <2>3 DEF ChangeField, Changes, ToldInv, Fields
  <2> QED BY <2>1, <2>2, <2>3 DEF PoweredForMode
<1> QED BY <1>1, <1>2 DEF UpdateState, KeepField, PostChange, Save

(* After update_state the frame goes out, or a mode is turned down. *)
LEMMA ToldReturn == TypeOK /\ ToldInv /\ Return => ToldInv'
<1> SUFFICES ASSUME TypeOK, ToldInv, Return PROVE ToldInv'
  OBVIOUS
<1>1. CASE SetMode
  BY <1>1 DEF SetMode, StartUpdate, ToldInv, PoweredForMode, AllKept, Fields
<1>2. CASE RejectMode
  <2>1. Told'
    BY <1>2 DEF RejectMode, ToldInv, Told
  <2> QED BY <1>2, <2>1
          DEF RejectMode, Finish, ToldInv, PoweredForMode, NoEvent, Event
<1>3. CASE SendFrame
  <2>1. UNCHANGED current
    BY <1>3 DEF SendFrame
  <2>2. Told'
    BY <1>3, <2>1, TransmitTold DEF SendFrame, Transmit, TypeOK
  <2> QED BY <1>3, <2>2
          DEF SendFrame, Finish, ToldInv, PoweredForMode, NoEvent, Event
<1> QED BY <1>1, <1>2, <1>3 DEF Return

(* Between events the frame sent last carries the settings of the state.   *)
THEOREM FrameCorrect == Spec => []FrameMatchesState
<1>1. Init => ToldInv
  BY DEF Init, ToldInv, Told, PoweredForMode, NoEvent, Event
<1>2. ToldInv /\ TypeOK /\ [Next]_vars => ToldInv'
  <2> SUFFICES ASSUME ToldInv, TypeOK, [Next]_vars PROVE ToldInv'
    OBVIOUS
  <2>1. CASE Arrive
    BY <2>1 DEF Arrive, MqttPower, MqttTemperature, MqttMode, MqttFan,
       RemoteControl, PowerDetector, Post, ToldInv, Told, PoweredForMode
  <2>2. CASE Restart
    BY <2>2 DEF Restart, ToldInv, Told, PoweredForMode, NoEvent, Event
  <2>3. CASE UNCHANGED vars
    BY <2>3 DEF vars, ToldInv, Told, PoweredForMode
  <2> QED BY <2>1, <2>2, <2>3, ToldHandle, ToldUpdateState, ToldReturn
          DEF Next, TaskStep
<1>3. ToldInv => FrameMatchesState
  BY DEF ToldInv, Told, FrameMatchesState
<1> QED BY <1>1, <1>2, <1>3, TypeCorrect, PTL DEF Spec

-----------------------------------------------------------------------------
(* What is published once nothing is pending.                              *)

(* The last change event of the field f in the queue q has the value v.    *)
LastIs(q, f, v) ==
  \A i \in 1 .. Len(q) :
    /\ q[i].type = ChangeEvent[f]
    /\ \A j \in i + 1 .. Len(q) : q[j].type # ChangeEvent[f]
    => q[i].value = v

Queued(q, f) == \E i \in 1 .. Len(q) : q[i].type = ChangeEvent[f]

(* The newest change event of a field that is not just being posted has    *)
(* the value of the field.                                                 *)
SettledInv == /\ SettledPublished
              /\ \A f \in Fields :
                   (posting /\ at = f) \/ LastIs(queue, f, current[f])

(* Each field has a change event of its own. *)
LEMMA ChangeEventsDiffer ==
  ASSUME NEW f \in Fields, NEW g \in Fields
  PROVE  ChangeEvent[f] = ChangeEvent[g] => f = g
BY DEF Fields, ChangeEvent

(* How an append changes the last change event of a field. *)
LEMMA AppendLast ==
  ASSUME NEW q \in Seq(Events), NEW e \in Events, NEW f \in Fields, NEW v
  PROVE  /\ Queued(q, f) => Queued(Append(q, e), f)
         /\ e.type = ChangeEvent[f] => Queued(Append(q, e), f)
         /\ e.type # ChangeEvent[f] /\ LastIs(q, f, v)
              => LastIs(Append(q, e), f, v)
         /\ e.type = ChangeEvent[f] /\ e.value = v
              => LastIs(Append(q, e), f, v)
<1> DEFINE r == Append(q, e)
           n == Len(q)
<1>1. /\ n \in Nat /\ Len(r) = n + 1 /\ r[n + 1] = e
      /\ \A i \in 1 .. n : r[i] = q[i]
  OBVIOUS
<1> HIDE DEF r, n
<1>2. Queued(q, f) => Queued(r, f)
  BY <1>1 DEF Queued, n
<1>3. e.type = ChangeEvent[f] => Queued(r, f)
  BY <1>1 DEF Queued
<1>4. ASSUME e.type # ChangeEvent[f], LastIs(q, f, v) PROVE LastIs(r, f, v)
  <2> SUFFICES ASSUME NEW i \in 1 .. Len(r), r[i].type = ChangeEvent[f],
                      \A j \in i + 1 .. Len(r) : r[j].type # ChangeEvent[f]
               PROVE  r[i].value = v
    BY DEF LastIs
  <2>1. i \in 1 .. n
    BY <1>1, <1>4
  <2>2. \A j \in i + 1 .. n : q[j].type # ChangeEvent[f]
    BY <1>1, <2>1
  <2> QED BY <1>1, <1>4, <2>1, <2>2 DEF LastIs, n
<1>5. ASSUME e.type = ChangeEvent[f], e.value = v PROVE LastIs(r, f, v)
  <2> SUFFICES ASSUME NEW i \in 1 .. Len(r), r[i].type = ChangeEvent[f],
                      \A j \in i + 1 .. Len(r) : r[j].type # ChangeEvent[f]
               PROVE  r[i].value = v
    BY DEF LastIs
  <2>1. i = n + 1
    BY <1>1, <1>5
  <2> QED BY <1>1, <1>5, <2>1
<1> QED BY <1>2, <1>3, <1>4, <1>5 DEF r

(* Taking the head of the queue: what LastIs says still holds of the rest, *)
(* and a head that was the last change event of its field has its value.   *)
LEMMA TailLast ==
  ASSUME NEW q \in Seq(Events), q # <<>>, NEW f \in Fields, NEW v
  PROVE  /\ LastIs(q, f, v) => LastIs(Tail(q), f, v)
         /\ Head(q).type # ChangeEvent[f] /\ Queued(q, f)
              => Queued(Tail(q), f)
         /\ /\ LastIs(q, f, v) /\ Head(q).type = ChangeEvent[f]
            /\ ~Queued(Tail(q), f)
            => Head(q).value = v
<1> DEFINE r == Tail(q)
           n == Len(q)
<1>1. /\ n \in Nat \ {0} /\ Len(r) = n - 1 /\ Head(q) = q[1]
      /\ \A i \in 1 .. n - 1 : r[i] = q[i + 1]
  OBVIOUS
<1> HIDE DEF r, n
<1>2. ASSUME LastIs(q, f, v) PROVE LastIs(r, f, v)
  <2> SUFFICES ASSUME NEW i \in 1 .. Len(r), r[i].type = ChangeEvent[f],
                      \A j \in i + 1 .. Len(r) : r[j].type # ChangeEvent[f]
               PROVE  r[i].value = v
    BY DEF LastIs
  <2>1. i + 1 \in 1 .. n /\ q[i + 1].type = ChangeEvent[f]
    BY <1>1
  <2>2. ASSUME NEW j \in i + 2 .. n PROVE q[j].type # ChangeEvent[f]
    <3>1. j - 1 \in i + 1 .. Len(r) /\ r[j - 1] = q[j]
      BY <1>1
    <3> QED BY <3>1
  <2>3. \A j \in (i + 1) + 1 .. n : q[j].type # ChangeEvent[f]
    BY <1>1, <2>2
  <2> QED BY <1>1, <1>2, <2>1, <2>3 DEF LastIs, n
<1>3. ASSUME Head(q).type # ChangeEvent[f], Queued(q, f) PROVE Queued(r, f)
  <2>1. PICK i \in 1 .. n : q[i].type = ChangeEvent[f]
    BY <1>3 DEF Queued, n
  <2>2. i - 1 \in 1 .. Len(r) /\ r[i - 1] = q[i]
    BY <1>1, <1>3, <2>1
  <2> QED BY <2>1, <2>2 DEF Queued
<1>4. ASSUME LastIs(q, f, v), Head(q).type = ChangeEvent[f], ~Queued(r, f)
      PROVE  Head(q).value = v
  <2>1. ASSUME NEW j \in 2 .. n PROVE q[j].type # ChangeEvent[f]
    <3>1. j - 1 \in 1 .. Len(r) /\ r[j - 1] = q[j]
      BY <1>1
    <3> QED BY <1>4, <3>1 DEF Queued
  <2>2. 1 \in 1 .. n /\ \A j \in 1 + 1 .. n : q[j].type # ChangeEvent[f]
    BY <1>1, <2>1
  <2> QED BY <1>1, <1>4, <2>2 DEF LastIs, n
<1> QED BY <1>2, <1>3, <1>4 DEF r

OnWay(f) == (posting /\ at = f) \/ Queued(queue, f)

(* A step that changes neither the settings nor what is published, and     *)
(* loses no change event, keeps what is published settled.                 *)
LEMMA SettledFrame ==
  ASSUME SettledPublished, UNCHANGED published,
         \A f \in Fields : current'[f] = current[f],
         \A f \in Fields : OnWay(f) => OnWay(f)'
  PROVE  SettledPublished'
<1>1. /\ current'.power = current.power /\ current'.mode = current.mode
      /\ current'.temperature = current.temperature
      /\ current'.fan = current.fan
  BY DEF Fields
<1>2. /\ PowerName(current') = PowerName(current)
      /\ ModeName(current') = ModeName(current)
      /\ ActionName(current') = ActionName(current)
  BY <1>1 DEF PowerName, ModeName, ActionName
<1>3. /\ Pending({"power"}) => Pending({"power"})'
      /\ Pending({"temperature"}) => Pending({"temperature"})'
      /\ Pending({"fan"}) => Pending({"fan"})'
      /\ Pending({"power", "mode"}) => Pending({"power", "mode"})'
  BY DEF Pending, OnWay, Queued, Fields
<1> QED BY <1>1, <1>2, <1>3 DEF SettledPublished

(* Posting an event that is no change event, by another task. *)
LEMMA SettledArrive == TypeOK /\ SettledInv /\ Arrive => SettledInv'
<1> SUFFICES ASSUME TypeOK, SettledInv, Arrive PROVE SettledInv'
  OBVIOUS
<1>1. \E e \in Events : Post(e) /\ \A f \in Fields : e.type # ChangeEvent[f]
  <2> USE DEF Fields, ChangeEvent, Event, IrEvent
  <2>1. CASE \E p \in PowerPayloads : MqttPower(p)
    BY <2>1, EventMade DEF MqttPower, Bit
  <2>2. CASE \E t \in TemperaturePayloads : MqttTemperature(t)
    BY <2>2, EventMade, PayloadAssumption DEF MqttTemperature
  <2>3. CASE \E m \in ModePayloads : MqttMode(m)
    BY <2>3, EventMade, ValueOfName DEF MqttMode, Bit
  <2>4. CASE \E f \in FanPayloads : MqttFan(f)
    BY <2>4, EventMade, ValueOfName DEF MqttFan
  <2>5. CASE \E fr \in RemoteFrames : RemoteControl(fr)
    BY <2>5, EventMade, RemoteAssumption DEF RemoteControl
  <2>6. CASE \E level \in Levels : PowerDetector(level)
    <3>1. PICK level \in Bit : Post(Event("POWER_DETECTOR_CHANGED", level))
      BY <2>6, LevelAssumption DEF PowerDetector
    <3>2. Event("POWER_DETECTOR_CHANGED", level) \in Events
      BY EventMade
    <3> QED BY <3>1, <3>2
  <2> QED BY <2>1, <2>2, <2>3, <2>4, <2>5, <2>6 DEF Arrive
<1>2. PICK e \in Events : Post(e) /\ \A f \in Fields : e.type # ChangeEvent[f]
  BY <1>1
<1>3. queue \in Seq(Events) /\ queue' = Append(queue, e)
      /\ UNCHANGED <<current, published, posting, at>>
  BY <1>2 DEF TypeOK, Post
<1>4. \A f \in Fields : OnWay(f) => OnWay(f)'
  BY <1>3, AppendLast DEF OnWay
<1>5. SettledPublished'
  BY <1>3, <1>4, SettledFrame DEF SettledInv
<1>6. \A f \in Fields :
        (posting' /\ at' = f) \/ LastIs(queue', f, current'[f])
  BY <1>2, <1>3, AppendLast DEF SettledInv
<1> QED BY <1>5, <1>6 DEF SettledInv

(* Taking an event: what is left of the queue still ends as it should, and *)
(* an event that is no change event leaves every change on its way.        *)
LEMMA SettledTake ==
  ASSUME TypeOK, SettledInv, NEW type, Take(type),
         \A f \in Fields : current'[f] = current[f]
  PROVE  /\ \A f \in Fields : LastIs(queue', f, current'[f])
         /\ \A f \in Fields :
              type # ChangeEvent[f] /\ OnWay(f) => Queued(queue', f)
         /\ \A f \in Fields :
              type = ChangeEvent[f] /\ ~Queued(queue', f)
                => Head(queue).value = current[f]
<1>1. queue \in Seq(Events) /\ queue # <<>> /\ queue' = Tail(queue)
      /\ Head(queue).type = type
  BY DEF TypeOK, Take
<1>2. ~posting
  BY DEF TypeOK, Take, Fields
<1>3. \A f \in Fields : LastIs(queue, f, current[f])
  BY <1>2 DEF SettledInv
<1> QED BY <1>1, <1>2, <1>3, TailLast DEF OnWay

(* Every handler keeps SettledInv. *)
LEMMA SettledHandle == TypeOK /\ SettledInv /\ Handle => SettledInv'
<1> SUFFICES ASSUME TypeOK, SettledInv, Handle PROVE SettledInv'
  OBVIOUS
<1>0. \A f \in Fields : current'[f] = current[f]
  <2>1. CASE PowerDetectorChanged
    BY <2>1 DEF PowerDetectorChanged, TypeOK, AcState, Fields
  <2>2. CASE UNCHANGED current
    BY <2>2
  <2> QED BY <2>1, <2>2
          DEF Handle, AcOnMqttPower, AcOnMqttTemperature, AcOnMqttMode,
              AcOnMqttFan, IrOnRecv, AcOnPowerChanged, AcOnTemperatureChanged,
              AcOnModeChanged, AcOnFanChanged
<1>1. ASSUME NEW type, Take(type), SettledPublished' PROVE SettledInv'
  BY <1>0, <1>1, SettledTake DEF SettledInv
<1>2. ASSUME NEW type, Take(type), UNCHANGED published,
             \A f \in Fields : type # ChangeEvent[f]
      PROVE  SettledInv'
  <2>1. \A f \in Fields : OnWay(f) => OnWay(f)'
    BY <1>0, <1>2, SettledTake DEF OnWay
  <2> QED BY <1>0, <1>1, <1>2, <2>1, SettledFrame DEF SettledInv
<1>3. CASE AcOnMqttPower
  BY <1>2, <1>3 DEF AcOnMqttPower, ChangeEvent, Fields
<1>4. CASE AcOnMqttTemperature
  BY <1>2, <1>4 DEF AcOnMqttTemperature, ChangeEvent, Fields
<1>5. CASE AcOnMqttMode
  BY <1>2, <1>5 DEF AcOnMqttMode, ChangeEvent, Fields
<1>6. CASE AcOnMqttFan
  BY <1>2, <1>6 DEF AcOnMqttFan, ChangeEvent, Fields
<1>7. CASE IrOnRecv
  BY <1>2, <1>7 DEF IrOnRecv, ChangeEvent, Fields
<1>8. CASE PowerDetectorChanged
  BY <1>2, <1>8 DEF PowerDetectorChanged, ChangeEvent, Fields
<1>9. CASE AcOnPowerChanged
  <2>1. Take("AC_POWER_CHANGED") /\ UNCHANGED <<current, posting, at>>
    BY <1>9 DEF AcOnPowerChanged, Drop
  <2>2. ~Pending({"power"})' => Head(queue).value = current.power
    BY <1>0, <2>1, SettledTake DEF Pending, Queued, ChangeEvent, Fields
  <2>3. /\ Pending({"temperature"}) => Pending({"temperature"})'
        /\ Pending({"fan"}) => Pending({"fan"})'
    BY <1>0, <2>1, SettledTake DEF OnWay, Pending, Queued, ChangeEvent, Fields
  <2>4. /\ published'.Power = IF Head(queue).value = 1 THEN "on" ELSE "off"
        /\ published'.Mode = ModeName(current)
        /\ published'.Action = ActionName(current)
        /\ published'.Temperature = published.Temperature
        /\ published'.Fan = published.Fan
    BY <1>9 DEF AcOnPowerChanged, TypeOK, Published
  <2>5. SettledPublished'
    BY <2>1, <2>2, <2>3, <2>4 DEF SettledInv, SettledPublished, PowerName,
       ModeName, ActionName
  <2> QED BY <1>1, <2>1, <2>5
<1>10. CASE AcOnTemperatureChanged
  <2>1. Take("AC_TEMPERATURE_CHANGED") /\ UNCHANGED <<current, posting, at>>
    BY <1>10 DEF AcOnTemperatureChanged, Drop
  <2>2. ~Pending({"temperature"})' => Head(queue).value = current.temperature
    BY <1>0, <2>1, SettledTake DEF Pending, Queued, ChangeEvent, Fields
  <2>3. /\ Pending({"power"}) => Pending({"power"})'
        /\ Pending({"fan"}) => Pending({"fan"})'
        /\ Pending({"power", "mode"}) => Pending({"power", "mode"})'
    BY <1>0, <2>1, SettledTake DEF OnWay, Pending, Queued, ChangeEvent, Fields
  <2>4. published' = [published EXCEPT !.Temperature = Head(queue).value]
    BY <1>10 DEF AcOnTemperatureChanged
  <2>5. SettledPublished'
    BY <2>1, <2>2, <2>3, <2>4 DEF TypeOK, Published, SettledInv,
       SettledPublished, PowerName, ModeName, ActionName
  <2> QED BY <1>1, <2>1, <2>5
<1>11. CASE AcOnModeChanged
  <2>1. Take("AC_MODE_CHANGED") /\ UNCHANGED <<current, posting, at>>
    BY <1>11 DEF AcOnModeChanged, Drop
  <2>2. /\ Pending({"power"}) => Pending({"power"})'
        /\ Pending({"temperature"}) => Pending({"temperature"})'
        /\ Pending({"fan"}) => Pending({"fan"})'
    BY <1>0, <2>1, SettledTake DEF OnWay, Pending, Queued, ChangeEvent, Fields
  <2>3. /\ published'.Power = published.Power
        /\ published'.Mode = ModeName(current)
        /\ published'.Action = ActionName(current)
        /\ published'.Temperature = published.Temperature
        /\ published'.Fan = published.Fan
    BY <1>11 DEF AcOnModeChanged, TypeOK, Published
  <2>4. SettledPublished'
    BY <2>1, <2>2, <2>3 DEF SettledInv, SettledPublished, PowerName,
       ModeName, ActionName
  <2> QED BY <1>1, <2>1, <2>4
<1>12. CASE AcOnFanChanged
  <2>1. Take("AC_FAN_CHANGED") /\ UNCHANGED <<current, posting, at>>
    BY <1>12 DEF AcOnFanChanged, Drop
  <2>2. ~Pending({"fan"})' => Head(queue).value = current.fan
    BY <1>0, <2>1, SettledTake DEF Pending, Queued, ChangeEvent, Fields
  <2>3. /\ Pending({"power"}) => Pending({"power"})'
        /\ Pending({"temperature"}) => Pending({"temperature"})'
        /\ Pending({"power", "mode"}) => Pending({"power", "mode"})'
    BY <1>0, <2>1, SettledTake DEF OnWay, Pending, Queued, ChangeEvent, Fields
  <2>4. published' = [published EXCEPT !.Fan = fan_to_name[Head(queue).value]]
    BY <1>12 DEF AcOnFanChanged
  <2>5. SettledPublished'
    BY <2>1, <2>2, <2>3, <2>4 DEF TypeOK, Published, SettledInv,
       SettledPublished, PowerName, ModeName, ActionName
  <2> QED BY <1>1, <2>1, <2>5
<1> QED BY <1>3, <1>4, <1>5, <1>6, <1>7, <1>8, <1>9, <1>10, <1>11, <1>12
        DEF Handle

(* A step that touches neither the queue nor the settings. *)
LEMMA SettledStill ==
  ASSUME SettledInv, UNCHANGED <<current, queue, published, posting>>, ~posting
  PROVE  SettledInv'
<1>1. SettledPublished'
  BY SettledFrame DEF OnWay, SettledInv
<1> QED BY <1>1 DEF SettledInv

(* The steps of update_state keep SettledInv. *)
LEMMA SettledUpdateState ==
  TypeOK /\ SettledInv /\ UpdateState => SettledInv'
<1> SUFFICES ASSUME TypeOK, SettledInv, UpdateState PROVE SettledInv'
  OBVIOUS
<1>1. CASE KeepField
  BY <1>1, SettledStill DEF KeepField
<1>2. CASE Save
  <2>1. ~posting
    BY <1>2 DEF Save, TypeOK, Fields
  <2> QED BY <1>2, <2>1, SettledStill DEF Save
<1>3. CASE ChangeField
  <2>1. /\ at \in Fields /\ ~posting /\ posting' /\ UNCHANGED <<queue, at, published>>
        /\ current' = [current EXCEPT ![at] = args[at]]
    BY <1>3 DEF ChangeField
  <2>2. \A f \in Fields \ {at} : current'[f] = current[f]
    BY <2>1 DEF TypeOK, AcState, Fields
  <2>3. \A f \in Fields :
          (posting' /\ at' = f) \/ LastIs(queue', f, current'[f])
    BY <2>1, <2>2 DEF SettledInv
  <2>4. \A f \in Fields : OnWay(f) => OnWay(f)'
    BY <2>1 DEF OnWay
  <2>5. /\ Pending({"power"}) => Pending({"power"})'
        /\ Pending({"temperature"}) => Pending({"temperature"})'
        /\ Pending({"fan"}) => Pending({"fan"})'
        /\ Pending({"power", "mode"}) => Pending({"power", "mode"})'
    BY <2>4 DEF Pending, OnWay, Queued, Fields
  <2>6. /\ at = "power" => Pending({"power"})' /\ Pending({"power", "mode"})'
        /\ at = "temperature" => Pending({"temperature"})'
        /\ at = "mode" => Pending({"power", "mode"})'
        /\ at = "fan" => Pending({"fan"})'
    BY <2>1 DEF Pending
  <2>7. /\ at # "power" => current'.power = current.power
        /\ at # "temperature" => current'.temperature = current.temperature
        /\ at # "mode" => current'.mode = current.mode
        /\ at # "fan" => current'.fan = current.fan
    BY <2>2 DEF Fields
  <2>8. SettledPublished'
    BY <2>1, <2>5, <2>6, <2>7 DEF SettledInv, SettledPublished, PowerName,
       ModeName, ActionName
  <2> QED BY <2>3, <2>8 DEF SettledInv
<1>4. CASE PostChange
  <2> DEFINE e == Event(ChangeEvent[at], current[at])
  <2>1. /\ at \in Fields /\ posting /\ ~posting' /\ queue' = Append(queue, e)
        /\ UNCHANGED <<current, published>> /\ queue \in Seq(Events)
    BY <1>4 DEF PostChange, TypeOK
  <2>2. e \in Events /\ e.type = ChangeEvent[at] /\ e.value = current[at]
    BY <2>1, ChangeMade DEF TypeOK, Event
  <2> HIDE DEF e
  <2>3. ASSUME NEW f \in Fields PROVE OnWay(f) => OnWay(f)'
    <3>1. Queued(queue, f) \/ at = f => Queued(queue', f)
      BY <2>1, <2>2, AppendLast
    <3> QED BY <3>1 DEF OnWay
  <2>4. SettledPublished'
    BY <2>1, <2>3, SettledFrame DEF SettledInv
  <2>5. ASSUME NEW f \in Fields PROVE LastIs(queue', f, current'[f])
    <3>1. CASE f = at
      BY <2>1, <2>2, <3>1, AppendLast
    <3>2. CASE f # at
      <4>1. e.type # ChangeEvent[f]
        BY <2>1, <2>2, <3>2, ChangeEventsDiffer
      <4>2. LastIs(queue, f, current[f])
        BY <3>2 DEF SettledInv
      <4> QED BY <2>1, <2>2, <4>1, <4>2, AppendLast
    <3> QED BY <3>1, <3>2
  <2> QED BY <2>4, <2>5 DEF SettledInv
<1> QED BY <1>1, <1>2, <1>3, <1>4 DEF UpdateState

(* SettledInv holds after a start and after a reset. *)
LEMMA SettledBoot ==
  ASSUME published = Nothing, queue = <<>>
  PROVE  SettledInv
<1>1. SettledPublished
  BY DEF SettledPublished, Nothing, Topics
<1>2. \A f \in Fields : LastIs(queue, f, current[f])
  BY DEF LastIs
<1> QED BY <1>1, <1>2 DEF SettledInv

(* Once no change of a field is pending, its topics show the state. *)
THEOREM SettledCorrect == Spec => []SettledPublished
<1>1. Init => SettledInv
  BY SettledBoot DEF Init
<1>2. SettledInv /\ TypeOK /\ [Next]_vars => SettledInv'
  <2> SUFFICES ASSUME SettledInv, TypeOK, [Next]_vars PROVE SettledInv'
    OBVIOUS
  <2>1. CASE Return
    <3>1. ~posting /\ UNCHANGED <<current, queue, published, posting>>
      BY <2>1 DEF Return, SetMode, RejectMode, SendFrame, StartUpdate, TypeOK,
                  Fields
    <3> QED BY <3>1, SettledStill
  <2>2. CASE Restart
    <3>1. published' = Nothing /\ queue' = <<>>
      BY <2>2 DEF Restart
    <3>2. SettledPublished'
      BY <3>1 DEF SettledPublished, Nothing, Topics
    <3>3. \A f \in Fields : LastIs(queue', f, current'[f])
      BY <3>1 DEF LastIs
    <3> QED BY <3>2, <3>3 DEF SettledInv
  <2>3. CASE UNCHANGED vars
    <3>1. SettledPublished'
      BY <2>3, SettledFrame DEF vars, SettledInv, OnWay, Queued
    <3> QED BY <2>3, <3>1 DEF vars, SettledInv
  <2> QED BY <2>1, <2>2, <2>3, SettledArrive, SettledHandle,
             SettledUpdateState DEF Next, TaskStep
<1>3. SettledInv => SettledPublished
  BY DEF SettledInv
<1> QED BY <1>1, <1>2, <1>3, TypeCorrect, PTL DEF Spec

-----------------------------------------------------------------------------
(* A frame of the remote control is sent on with its settings.             *)

(* Encoding the mode of a code gives the code back. *)
LEMMA CodeOfCode ==
  ASSUME NEW v \in DOMAIN airwell_modes
  PROVE  mode_to_value(airwell_modes, airwell_modes[v]) = v
<1> DEFINE w == CHOOSE u \in DOMAIN airwell_modes :
                  airwell_modes[u] = airwell_modes[v]
<1>1. w \in DOMAIN airwell_modes /\ airwell_modes[w] = airwell_modes[v]
  BY Zenon
<1>2. mode_to_value(airwell_modes, airwell_modes[v]) = w
  BY Zenon DEF mode_to_value
<1> HIDE DEF w
<1>3. w = v
  BY <1>1 DEF airwell_modes, AC_MODE_FAN, AC_MODE_COOL, AC_MODE_HEAT,
              AC_MODE_DRY, AC_MODE_AUTO
<1> QED BY <1>2, <1>3

(* Has update_state assigned the field f? *)
Past(f) ==
  CASE f = "temperature" -> at \in {"mode", "fan", "save", "return"}
                            \/ (at = "temperature" /\ posting)
    [] f = "mode"        -> at \in {"fan", "save", "return"}
                            \/ (at = "mode" /\ posting)
    [] f = "fan"         -> at \in {"save", "return"} \/ (at = "fan" /\ posting)

RelayInv ==
  event.type = "IR_RECV" =>
    /\ event.frame \in Frame
    /\ args["temperature"] = event.frame.temp + 15
    /\ args["mode"] = value_to_mode(airwell_modes, event.frame.mode)
    /\ args["fan"] = value_to_mode(airwell_fans, event.frame.fan)
    /\ Past("temperature") => current.temperature = args["temperature"]
    /\ Past("mode") /\ args["mode"] # Keep => current.mode = args["mode"]
    /\ Past("fan") => current.fan = args["fan"]

(* A handler starts a relay with what the frame asks for. *)
LEMMA RelayHandle == TypeOK /\ RelayInv /\ Handle => RelayInv'
<1> SUFFICES ASSUME TypeOK, RelayInv, Handle PROVE RelayInv'
  OBVIOUS
<1>0. at = "idle" /\ ~posting
  BY DEF Handle, Take, AcOnMqttPower, AcOnMqttTemperature, AcOnMqttMode,
         AcOnMqttFan, IrOnRecv, PowerDetectorChanged, AcOnPowerChanged,
         AcOnTemperatureChanged, AcOnModeChanged, AcOnFanChanged, TypeOK, Fields
<1>1. ASSUME event'.type # "IR_RECV" PROVE RelayInv'
  BY <1>1 DEF RelayInv
<1>2. ASSUME Drop PROVE RelayInv'
  BY <1>0, <1>2 DEF RelayInv, Drop, Past
<1>3. CASE IrOnRecv
  <2> DEFINE fr == Head(queue).frame
  <2>1. CASE fr = NoFrame
    BY <1>2, <1>3, <2>1 DEF IrOnRecv
  <2>2. CASE fr # NoFrame
    <3>1. fr \in Frame
      BY <1>3, <2>2, TakeOK, EventRead DEF IrOnRecv
    <3>2. at' = "power" /\ ~posting' /\ event'.frame = fr
          /\ args' = airwell_ir_recv(fr, current)
      BY <1>0, <1>3, <2>2 DEF IrOnRecv, StartUpdate
    <3>3. ~Past("temperature")' /\ ~Past("mode")' /\ ~Past("fan")'
      BY <3>2 DEF Past
    <3> QED BY <3>1, <3>2, <3>3 DEF RelayInv, airwell_ir_recv
  <2> QED BY <2>1, <2>2
<1>4. CASE AcOnMqttPower
  BY <1>1, <1>4 DEF AcOnMqttPower, StartUpdate, Take
<1>5. CASE AcOnMqttTemperature
  BY <1>1, <1>2, <1>5 DEF AcOnMqttTemperature, StartUpdate, Take
<1>6. CASE AcOnMqttMode
  BY <1>1, <1>6 DEF AcOnMqttMode, StartUpdate, Take
<1>7. CASE AcOnMqttFan
  BY <1>1, <1>2, <1>7 DEF AcOnMqttFan, StartUpdate, Take
<1> QED BY <1>2, <1>3, <1>4, <1>5, <1>6, <1>7
        DEF Handle, PowerDetectorChanged, AcOnPowerChanged,
            AcOnTemperatureChanged, AcOnModeChanged, AcOnFanChanged

(* A field that update_state has passed has its argument. *)
LEMMA RelayUpdateState == TypeOK /\ RelayInv /\ UpdateState => RelayInv'
<1> SUFFICES ASSUME TypeOK, RelayInv, UpdateState, event.type = "IR_RECV"
             PROVE  RelayInv'
  BY DEF RelayInv, UpdateState, KeepField, ChangeField, PostChange, Save
<1>0. UNCHANGED <<event, args>>
  BY DEF UpdateState, KeepField, ChangeField, PostChange, Save
<1>1. args["temperature"] # Keep /\ args["fan"] # Keep
  <2>1. event.frame \in Frame
    BY DEF RelayInv
  <2>2. value_to_mode(airwell_fans, event.frame.fan) \in 0 .. 3
    BY <2>1, FanOfCode DEF Frame
  <2> QED BY <2>1, <2>2 DEF RelayInv, Keep, Frame
<1> USE DEF Fields, After
<1>2. CASE KeepField
  <2>1. /\ Past("temperature")' => Past("temperature") \/ at = "temperature"
        /\ Past("mode")' => Past("mode") \/ at = "mode"
        /\ Past("fan")' => Past("fan") \/ at = "fan"
    BY <1>2 DEF KeepField, Past
  <2> QED BY <1>0, <1>1, <1>2, <2>1 DEF KeepField, Changes, RelayInv
<1>3. CASE ChangeField
  <2>1. /\ Past("temperature")' => Past("temperature") \/ at = "temperature"
        /\ Past("mode")' => Past("mode") \/ at = "mode"
        /\ Past("fan")' => Past("fan") \/ at = "fan"
    BY <1>3 DEF ChangeField, Past
  <2>2. \A f \in Fields :
          current'[f] = IF f = at THEN args[f] ELSE current[f]
    BY <1>3 DEF ChangeField, TypeOK, AcState
  <2> QED BY <1>0, <2>1, <2>2 DEF RelayInv
<1>4. CASE PostChange
  <2>1. /\ Past("temperature")' => Past("temperature")
        /\ Past("mode")' => Past("mode")
        /\ Past("fan")' => Past("fan")
    BY <1>4 DEF PostChange, Past, TypeOK
  <2> QED BY <1>0, <1>4, <2>1 DEF PostChange, RelayInv
<1>5. CASE Save
  <2>1. Past("temperature") /\ Past("mode") /\ Past("fan")
    BY <1>5 DEF Save, Past
  <2> QED BY <1>0, <1>5, <2>1 DEF Save, RelayInv
<1> QED BY <1>2, <1>3, <1>4, <1>5 DEF UpdateState

(* What is sent on after a frame of the remote control has its settings. *)
THEOREM RelayCorrect == Spec => RelayTransparent
<1> DEFINE Relay ==
      at = "return" /\ event.type = "IR_RECV" /\ ~StaysOff(current)
        /\ at' = "idle" /\ ~(sent' = NoFrame)
      => /\ sent'.temp = event.frame.temp
         /\ sent'.fan = event.frame.fan
         /\ event.frame.mode \in DOMAIN airwell_modes =>
              sent'.mode = event.frame.mode
<1>1. Init => RelayInv
  BY DEF Init, RelayInv, NoEvent, Event
<1>2. RelayInv /\ TypeOK /\ [Next]_vars => RelayInv'
  <2> SUFFICES ASSUME RelayInv, TypeOK, [Next]_vars PROVE RelayInv'
    OBVIOUS
  <2>1. CASE Arrive
    BY <2>1 DEF Arrive, MqttPower, MqttTemperature, MqttMode, MqttFan,
       RemoteControl, PowerDetector, Post, RelayInv, Past
  <2>2. CASE Return
    BY <2>2 DEF Return, SetMode, RejectMode, SendFrame, StartUpdate, Finish,
       PoweredForMode, NoEvent, Event, RelayInv
  <2>3. CASE Restart
    BY <2>3 DEF Restart, NoEvent, Event, RelayInv
  <2>4. CASE UNCHANGED vars
    BY <2>4 DEF vars, RelayInv, Past
  <2> QED BY <2>1, <2>2, <2>3, <2>4, RelayHandle, RelayUpdateState
          DEF Next, TaskStep
<1>3. RelayInv /\ TypeOK /\ [Next]_vars => Relay
  <2> SUFFICES ASSUME RelayInv, TypeOK, [Next]_vars, at = "return",
                      event.type = "IR_RECV", ~StaysOff(current), at' = "idle",
                      ~(sent' = NoFrame)
               PROVE  /\ sent'.temp = event.frame.temp
                      /\ sent'.fan = event.frame.fan
                      /\ event.frame.mode \in DOMAIN airwell_modes =>
                           sent'.mode = event.frame.mode
    OBVIOUS
  <2> DEFINE fr == event.frame
  <2>1. SendFrame
    <3>1. ~Arrive
      BY DEF Arrive, MqttPower, MqttTemperature, MqttMode, MqttFan,
         RemoteControl, PowerDetector, Post
    <3>2. ~Handle
      BY DEF Handle, Take, AcOnMqttPower, AcOnMqttTemperature, AcOnMqttMode,
         AcOnMqttFan, IrOnRecv, PowerDetectorChanged, AcOnPowerChanged,
         AcOnTemperatureChanged, AcOnModeChanged, AcOnFanChanged
    <3>3. ~UpdateState
      BY DEF UpdateState, KeepField, ChangeField, PostChange, Save, Fields,
         TypeOK
    <3>4. ~Restart /\ ~UNCHANGED vars
      BY DEF Restart, vars
    <3>5. ~SetMode /\ ~RejectMode
      BY DEF SetMode, RejectMode, PoweredForMode
    <3> QED BY <3>1, <3>2, <3>3, <3>4, <3>5 DEF Next, TaskStep, Return
  <2>2. sent' = airwell_frame(current)
    BY <2>1 DEF SendFrame, Transmit
  <2>3. /\ fr \in Frame /\ current.temperature = fr.temp + 15
        /\ current.fan = value_to_mode(airwell_fans, fr.fan)
        /\ value_to_mode(airwell_modes, fr.mode) # Keep =>
             current.mode = value_to_mode(airwell_modes, fr.mode)
    BY DEF RelayInv, Past
  <2>4. fr.temp \in 0 .. 15 /\ fr.fan \in 0 .. 3
    BY <2>3 DEF Frame
  <2>5. sent'.temp = fr.temp
    BY <2>2, <2>3, <2>4 DEF airwell_frame
  <2>6. current.fan = fr.fan
    BY <2>3, <2>4, FanOfCode
  <2>7. sent'.fan = fr.fan
    <3>1. mode_to_value(airwell_fans, current.fan) = fr.fan
      BY <2>4, <2>6, CodeOfFan DEF Fans, AC_FAN_LOW, AC_FAN_AUTO
    <3> QED BY <2>2, <2>4, <3>1 DEF airwell_frame
  <2>8. ASSUME fr.mode \in DOMAIN airwell_modes PROVE sent'.mode = fr.mode
    <3>1. value_to_mode(airwell_modes, fr.mode) = airwell_modes[fr.mode]
      BY <2>8 DEF value_to_mode
    <3>2. airwell_modes[fr.mode] # Keep /\ fr.mode \in 1 .. 5
      BY <2>8 DEF airwell_modes, Keep, AC_MODE_FAN, AC_MODE_COOL,
                  AC_MODE_HEAT, AC_MODE_DRY, AC_MODE_AUTO
    <3>3. mode_to_value(airwell_modes, current.mode) = fr.mode
      BY <2>3, <2>8, <3>1, <3>2, CodeOfCode
    <3> QED BY <2>2, <3>2, <3>3 DEF airwell_frame
  <2> QED BY <2>5, <2>7, <2>8
<1> QED BY <1>1, <1>2, <1>3, TypeCorrect, PTL DEF Spec, RelayTransparent

=============================================================================
