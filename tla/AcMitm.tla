------------------------------- MODULE AcMitm -------------------------------
(***************************************************************************)
(* The event loop of src/main/ac_mitm.c around the air conditioner's state *)
(* of src/main/ac.c.  MQTT commands, frames of the remote control and      *)
(* levels of the power detector reach ac_mitm_task through one bounded     *)
(* queue; the task updates the state field by field, posts one event per   *)
(* changed field TO ITS OWN QUEUE, saves the state, and transmits a frame. *)
(*                                                                         *)
(* A step is one handler, cut where another task, a full queue or a reset  *)
(* can come between: the four fields of update_state, the blocking post    *)
(* after each, the save, and what follows the call.                        *)
(***************************************************************************)
EXTENDS Ac, Sequences, FiniteSets

CONSTANTS
  QueueLen,             \* slots of event_queue (10 in start_ac_mitm_task)
  PowerPayloads,        \* payloads that arrive on Power/Set,
  TemperaturePayloads,  \*   on Temperature/Set (as atoi reads them),
  ModePayloads,         \*   on Mode/Set,
  FanPayloads,          \*   on Fan/Set
  Levels,               \* levels the power detector reports
  RemoteFrames,         \* what the remote control sends; NoFrame: no frame
                        \*   can be made out of the symbols
  MaxWaiting,           \* bound: events of other tasks in the queue at a
                        \*   time (QueueLen: no bound but the queue's own)
  SavesMayFail,         \* can the NVS refuse a save?
  NoFrame,
  NoValue

ASSUME QueueAssumption   == QueueLen \in Nat \ {0}
ASSUME PayloadAssumption == TemperaturePayloads \subseteq Int
ASSUME LevelAssumption   == Levels \subseteq Bit
ASSUME RemoteAssumption  == RemoteFrames \subseteq Frame \union {NoFrame}
ASSUME SaveAssumption    == SavesMayFail \in BOOLEAN
ASSUME NoFrameAssumption == NoFrame \notin Frame
ASSUME NoValueAssumption ==
  NoValue \notin {"on", "off", "low", "medium", "high", "auto"}

VARIABLES
  current,     \* current_state of ac.c
  nvs,         \* the word under nvs_ac_state
  queue,       \* event_queue
  event,       \* the event in hand, NoEvent while none is
  at,          \* where the task is: "idle" in xQueueReceive, a field in
               \*   update_state, "save", or "return" from update_state
  posting,     \* inside the change callback of the field `at'
  args,        \* the arguments of update_state
  sent,        \* the last frame transmitted since the reset, NoFrame if none
  published,   \* for each topic, the last payload since the reset
  unsaved,     \* history: the last save failed
  untold       \* history: a mode command turned the power on and no frame
               \*   has left since

vars == <<current, nvs, queue, event, at, posting, args, sent, published,
          unsaved, untold>>

-----------------------------------------------------------------------------
(* Names on the MQTT side *)

mode_to_name ==
  [m \in Modes |-> CASE m = AC_MODE_FAN  -> "fan_only"
                     [] m = AC_MODE_COOL -> "cool"
                     [] m = AC_MODE_HEAT -> "heat"
                     [] m = AC_MODE_DRY  -> "dry"
                     [] m = AC_MODE_AUTO -> "auto"]

action_to_name ==
  [m \in Modes |-> CASE m = AC_MODE_FAN  -> "fan"
                     [] m = AC_MODE_HEAT -> "heating"
                     [] m = AC_MODE_DRY  -> "drying"
                     [] m \in {AC_MODE_COOL, AC_MODE_AUTO} -> "cooling"]

fan_to_name ==
  [f \in Fans |-> CASE f = AC_FAN_LOW    -> "low"
                    [] f = AC_FAN_MEDIUM -> "medium"
                    [] f = AC_FAN_HIGH   -> "high"
                    [] f = AC_FAN_AUTO   -> "auto"]

name_to_value(table, name) ==
  IF \E v \in DOMAIN table : table[v] = name
  THEN CHOOSE v \in DOMAIN table : table[v] = name
  ELSE -1

PowerName(s)  == IF s.power = 1 THEN "on" ELSE "off"
ActionName(s) == IF s.power = 1 THEN action_to_name[s.mode] ELSE "off"
ModeName(s)   == IF s.power = 1 THEN mode_to_name[s.mode] ELSE "off"

-----------------------------------------------------------------------------
(* Events *)

ChangeEvent == [power       |-> "AC_POWER_CHANGED",
                temperature |-> "AC_TEMPERATURE_CHANGED",
                mode        |-> "AC_MODE_CHANGED",
                fan         |-> "AC_FAN_CHANGED"]

Event(type, value) == [type |-> type, value |-> value, frame |-> NoFrame]
IrEvent(fr)        == [type |-> "IR_RECV", value |-> 0, frame |-> fr]
NoEvent            == Event("NONE", 0)

\* slip: a slot is always kept free
HasRoomBut1 == Len(queue) < QueueLen - 1

HasRoom == Len(queue) < QueueLen

-----------------------------------------------------------------------------
Topics == {"Power", "Temperature", "Mode", "Action", "Fan"}
Nothing == [t \in Topics |-> NoValue]

Init ==
  /\ nvs = FactoryState
  /\ current = nvs
  /\ queue = <<>> /\ event = NoEvent
  /\ at = "idle" /\ posting = FALSE /\ args = AllKept
  /\ sent = NoFrame /\ published = Nothing
  /\ unsaved = FALSE /\ untold = FALSE

-----------------------------------------------------------------------------
(* Other tasks post to the queue; each waits for a free slot.              *)

Waiting == {i \in 1 .. Len(queue) :
              \A f \in Fields : queue[i].type # ChangeEvent[f]}

Post(e) == /\ HasRoom
           /\ Cardinality(Waiting) < MaxWaiting
           /\ queue' = Append(queue, e)
           /\ UNCHANGED <<current, nvs, event, at, posting, args, sent,
                          published, unsaved, untold>>

MqttPower(p) ==
  Post(Event("AC_MQTT_POWER", IF p = "on" THEN 1 ELSE 0))

MqttTemperature(t) == Post(Event("AC_MQTT_TEMPERATURE", t))

MqttMode(m) ==
  Post(IF m = "off" THEN Event("AC_MQTT_POWER", 0)
       ELSE Event("AC_MQTT_MODE", name_to_value(mode_to_name, m)))

MqttFan(f) == Post(Event("AC_MQTT_FAN", name_to_value(fan_to_name, f)))

RemoteControl(fr) == Post(IrEvent(fr))

PowerDetector(level) == Post(Event("POWER_DETECTOR_CHANGED", level))

-----------------------------------------------------------------------------
(* ac_mitm_task takes the next event.                                      *)

Take(type) == /\ at = "idle"
              /\ queue # <<>>
              /\ Head(queue).type = type
              /\ queue' = Tail(queue)

StartUpdate(e, a) == /\ at' = "power"
                     /\ event' = e
                     /\ args' = a
                     /\ UNCHANGED posting

Drop == UNCHANGED <<at, event, args, posting>>

(* ac_ir_send: the frame goes out unless the unit is off and stays off.    *)
\* slip: only a power change is worth a frame
TransmitToggleOnly(s) ==
  IF s.detected_power = s.power THEN UNCHANGED <<sent, untold>>
  ELSE sent' = airwell_frame(s) /\ untold' = FALSE

Transmit(s) == IF StaysOff(s) THEN UNCHANGED <<sent, untold>>
               ELSE sent' = airwell_frame(s) /\ untold' = FALSE

AcOnMqttPower ==
  /\ Take("AC_MQTT_POWER")
  /\ StartUpdate(Head(queue), [AllKept EXCEPT !["power"] = Head(queue).value])
  /\ UNCHANGED <<current, nvs, sent, published, unsaved, untold>>

ac_set_temperature(t) == t \in min_temperature .. max_temperature

AcOnMqttTemperature ==
  /\ Take("AC_MQTT_TEMPERATURE")
  /\ LET t == Head(queue).value IN
       IF ac_set_temperature(t)
       THEN StartUpdate(Head(queue), [AllKept EXCEPT !["temperature"] = t])
       ELSE Drop
  /\ UNCHANGED <<current, nvs, sent, published, unsaved, untold>>

(* First ac_set_power(1); the mode is looked at after that.                *)
AcOnMqttMode ==
  /\ Take("AC_MQTT_MODE")
  /\ StartUpdate(Head(queue), [AllKept EXCEPT !["power"] = 1])
  /\ UNCHANGED <<current, nvs, sent, published, unsaved, untold>>

(* The handler reads the fan through the bool of the event's union: the    *)
(* low byte of the value, or that byte made a truth value.                 *)
FanAsRead(v) == {v % 256, IF v % 256 = 0 THEN 0 ELSE 1}

AcOnMqttFan ==
  /\ Take("AC_MQTT_FAN")
  /\ \E f \in FanAsRead(Head(queue).value) :
       IF f \in supported_fans
       THEN StartUpdate(Head(queue), [AllKept EXCEPT !["fan"] = f])
       ELSE Drop
  /\ UNCHANGED <<current, nvs, sent, published, unsaved, untold>>

IrOnRecv ==
  /\ Take("IR_RECV")
  /\ LET fr == Head(queue).frame IN
       IF fr = NoFrame THEN Drop
       ELSE StartUpdate(Head(queue), airwell_ir_recv(fr, current))
  /\ UNCHANGED <<current, nvs, sent, published, unsaved, untold>>

(* power_detector_changed and ac_set_detected_power                        *)
PowerDetectorChanged ==
  /\ Take("POWER_DETECTOR_CHANGED")
  /\ current' = [current EXCEPT !.detected_power = Head(queue).value]
  /\ IF current'.detected_power # current'.power
     THEN Transmit(current') ELSE UNCHANGED <<sent, untold>>
  /\ Drop
  /\ UNCHANGED <<nvs, published, unsaved>>

(* The change events publish.  The topics Mode and Action are made from    *)
(* the state as it is NOW, the other topics from the event.                *)
\* slip: publish_ac is not called for the power
AcOnPowerChangedAlone ==
  /\ Take("AC_POWER_CHANGED")
  /\ published' = [published EXCEPT
       !.Power  = IF Head(queue).value = 1 THEN "on" ELSE "off"]
  /\ Drop
  /\ UNCHANGED <<current, nvs, sent, unsaved, untold>>

AcOnPowerChanged ==
  /\ Take("AC_POWER_CHANGED")
  /\ published' = [published EXCEPT
       !.Power  = IF Head(queue).value = 1 THEN "on" ELSE "off",
       !.Action = ActionName(current),
       !.Mode   = ModeName(current)]
  /\ Drop
  /\ UNCHANGED <<current, nvs, sent, unsaved, untold>>

\* slip: the temperature too is published as it is now
AcOnTemperatureChangedNow ==
  /\ Take("AC_TEMPERATURE_CHANGED")
  /\ published' = [published EXCEPT !.Temperature = current.temperature]
  /\ Drop
  /\ UNCHANGED <<current, nvs, sent, unsaved, untold>>

AcOnTemperatureChanged ==
  /\ Take("AC_TEMPERATURE_CHANGED")
  /\ published' = [published EXCEPT !.Temperature = Head(queue).value]
  /\ Drop
  /\ UNCHANGED <<current, nvs, sent, unsaved, untold>>

AcOnModeChanged ==
  /\ Take("AC_MODE_CHANGED")
  /\ published' = [published EXCEPT !.Action = ActionName(current),
                                    !.Mode   = ModeName(current)]
  /\ Drop
  /\ UNCHANGED <<current, nvs, sent, unsaved, untold>>

AcOnFanChanged ==
  /\ Take("AC_FAN_CHANGED")
  /\ published' = [published EXCEPT !.Fan = fan_to_name[Head(queue).value]]
  /\ Drop
  /\ UNCHANGED <<current, nvs, sent, unsaved, untold>>

-----------------------------------------------------------------------------
(* update_state                                                            *)

\* slip: the save is left out
AfterUnsaved == [power |-> "temperature", temperature |-> "mode",
                 mode |-> "fan", fan |-> "return"]

After == [power |-> "temperature", temperature |-> "mode", mode |-> "fan",
          fan |-> "save"]

\* slip: -1 is taken for a value
ChangesAlways(f) == current[f] # args[f]

Changes(f) == args[f] # Keep /\ current[f] # args[f]

KeepField ==
  /\ at \in Fields /\ ~posting
  /\ ~Changes(at)
  /\ at' = After[at]
  /\ UNCHANGED <<current, nvs, queue, event, posting, args, sent, published,
                 unsaved, untold>>

(* The assignment; the callback is entered and is to post.                 *)
ChangeField ==
  /\ at \in Fields /\ ~posting
  /\ Changes(at)
  /\ current' = [current EXCEPT ![at] = args[at]]
  /\ posting' = TRUE
  /\ untold' = (untold \/ (event.type = "AC_MQTT_MODE" /\ at = "power"))
  /\ UNCHANGED <<nvs, queue, event, at, args, sent, published, unsaved>>

(* xQueueSend of the callback: it waits for a slot that only this task     *)
(* can free.                                                               *)
\* slip: a change that finds the queue full is dropped
PostChangeOrDrop ==
  /\ posting
  /\ queue' = IF HasRoom
              THEN Append(queue, Event(ChangeEvent[at], current[at]))
              ELSE queue
  /\ posting' = FALSE
  /\ at' = After[at]
  /\ UNCHANGED <<current, nvs, event, args, sent, published, unsaved, untold>>

PostChange ==
  /\ posting
  /\ HasRoom
  /\ queue' = Append(queue, Event(ChangeEvent[at], current[at]))
  /\ posting' = FALSE
  /\ at' = After[at]
  /\ UNCHANGED <<current, nvs, event, args, sent, published, unsaved, untold>>

(* config_ac_persistent_save.  Its result is not looked at; a save that    *)
(* failed in nvs_commit may have reached the flash.                        *)
Save ==
  /\ at = "save"
  /\ at' = "return"
  /\ \/ nvs' = current /\ unsaved' = FALSE
     \/ SavesMayFail /\ nvs' \in {nvs, current} /\ unsaved' = TRUE
  /\ UNCHANGED <<current, queue, event, posting, args, sent, published,
                 untold>>

(* Back in ac_on_mqtt_mode from ac_set_power(1)                            *)
PoweredForMode == event.type = "AC_MQTT_MODE" /\ args["power"] # Keep

SetMode ==
  /\ at = "return" /\ PoweredForMode
  /\ event.value \in supported_modes
  /\ StartUpdate(event, [AllKept EXCEPT !["mode"] = event.value])
  /\ UNCHANGED <<current, nvs, queue, sent, published, unsaved, untold>>

Finish == at' = "idle" /\ event' = NoEvent /\ args' = AllKept

RejectMode ==
  /\ at = "return" /\ PoweredForMode
  /\ event.value \notin supported_modes
  /\ Finish
  /\ UNCHANGED <<current, nvs, queue, posting, sent, published, unsaved,
                 untold>>

(* Every other handler calls ac_ir_send and is done.                       *)
SendFrame ==
  /\ at = "return" /\ ~PoweredForMode
  /\ Transmit(current)
  /\ Finish
  /\ UNCHANGED <<current, nvs, queue, posting, published, unsaved>>

-----------------------------------------------------------------------------
(* A reset, at any point: power cut, abort, esp_restart.  The state comes  *)
(* back from NVS; nothing is published or transmitted because of it.       *)
Restart ==
  /\ UNCHANGED nvs
  /\ current' = nvs
  /\ queue' = <<>> /\ event' = NoEvent
  /\ at' = "idle" /\ posting' = FALSE /\ args' = AllKept
  /\ sent' = NoFrame /\ published' = Nothing
  /\ unsaved' = FALSE /\ untold' = FALSE

Arrive == \/ \E p \in PowerPayloads : MqttPower(p)
          \/ \E t \in TemperaturePayloads : MqttTemperature(t)
          \/ \E m \in ModePayloads : MqttMode(m)
          \/ \E f \in FanPayloads : MqttFan(f)
          \/ \E fr \in RemoteFrames : RemoteControl(fr)
          \/ \E level \in Levels : PowerDetector(level)

Handle == \/ AcOnMqttPower    \/ AcOnMqttTemperature    \/ AcOnMqttMode
          \/ AcOnMqttFan      \/ IrOnRecv               \/ PowerDetectorChanged
          \/ AcOnPowerChanged \/ AcOnTemperatureChanged \/ AcOnModeChanged
          \/ AcOnFanChanged

UpdateState == KeepField \/ ChangeField \/ PostChange \/ Save

Return == SetMode \/ RejectMode \/ SendFrame

TaskStep == Handle \/ UpdateState \/ Return

Next == Arrive \/ TaskStep \/ Restart

Spec == Init /\ [][Next]_vars

(* The scheduler runs ac_mitm_task whenever it is ready.                   *)
FairSpec == Spec /\ WF_vars(TaskStep)

-----------------------------------------------------------------------------
(* Type correctness.  It also says that the tables cover every state the   *)
(* program reaches: no topic is given a name that is not in them.          *)

Plain(types, values) ==
  [type : types, value : values, frame : {NoFrame}]

Events ==
  Plain({"AC_MQTT_POWER", "AC_POWER_CHANGED", "POWER_DETECTOR_CHANGED"}, Bit)
  \union Plain({"AC_MQTT_TEMPERATURE"}, Int)
  \union Plain({"AC_TEMPERATURE_CHANGED"}, Temperatures)
  \union Plain({"AC_MQTT_MODE"}, Modes \union {-1})
  \union Plain({"AC_MODE_CHANGED"}, Modes)
  \union Plain({"AC_MQTT_FAN"}, Fans \union {-1})
  \union Plain({"AC_FAN_CHANGED"}, Fans)
  \union [type : {"IR_RECV"}, value : {0}, frame : Frame \union {NoFrame}]

IsUpdate(a) == /\ DOMAIN a = Fields
               /\ a["power"] \in Bit \union {Keep}
               /\ a["temperature"] \in Temperatures \union {Keep}
               /\ a["mode"] \in Modes \union {Keep}
               /\ a["fan"] \in Fans \union {Keep}

Published ==
  [Power : {"on", "off", NoValue}, Temperature : Temperatures \union {NoValue},
   Mode : {"off", "fan_only", "cool", "heat", "dry", "auto", NoValue},
   Action : {"off", "fan", "cooling", "heating", "drying", NoValue},
   Fan : {"low", "medium", "high", "auto", NoValue}]

TypeOK ==
  /\ current \in AcState
  /\ nvs \in AcState
  /\ queue \in Seq(Events) /\ Len(queue) <= QueueLen
  /\ event \in Events \union {NoEvent}
  /\ at \in Fields \union {"idle", "save", "return"}
  /\ posting \in BOOLEAN /\ (posting => at \in Fields)
  /\ IsUpdate(args)
  /\ sent \in Frame \union {NoFrame}
  /\ published \in Published
  /\ unsaved \in BOOLEAN
  /\ untold \in BOOLEAN

-----------------------------------------------------------------------------
(* A reset never costs more than the command in hand: whatever NVS does    *)
(* not have yet is a field that the running update_state has set, unless   *)
(* the NVS refused the last save.                                          *)
(* [update_state, config_ac_persistent_save, config_ac_persistent_load]    *)
CrashLosesOnlyThisUpdate ==
  ~unsaved => \A f \in Fields :
                \/ nvs[f] = current[f]
                \/ at \in Fields \union {"save"} /\ args[f] = current[f]

(* Between events the last frame the air conditioner was sent carries the  *)
(* fan, mode and temperature of the state, unless it is off and stays off, *)
(* or a mode command was turned down after it had set the power.  A        *)
(* temperature below 15 (the 0 of a first start) has no code.              *)
(* [ac_ir_send and every handler that calls it]                            *)
FrameMatchesState ==
  at = "idle" /\ sent # NoFrame /\ ~untold /\ ~StaysOff(current) =>
    /\ Decoded(sent).fan = current.fan
    /\ Decoded(sent).mode = current.mode
    /\ current.temperature \in 15 .. 30 =>
         Decoded(sent).temperature = current.temperature

(* Is a change event of one of these fields still to be handled?           *)
Pending(fs) ==
  \/ \E f \in fs : posting /\ at = f
  \/ \E f \in fs, i \in 1 .. Len(queue) : queue[i].type = ChangeEvent[f]

(* Once no change of a field is pending, its topics show the state, though *)
(* half of them are made from the event and half from the state of a later *)
(* moment.  (A topic shows nothing before its first change since a reset.) *)
(* [update_state, the change callbacks, ac_on_*_changed, publish_ac]       *)
SettledPublished ==
  /\ ~Pending({"power"}) =>
       published.Power \in {NoValue, PowerName(current)}
  /\ ~Pending({"temperature"}) =>
       published.Temperature \in {NoValue, current.temperature}
  /\ ~Pending({"fan"}) =>
       published.Fan \in {NoValue, fan_to_name[current.fan]}
  /\ ~Pending({"power", "mode"}) =>
       /\ published.Mode \in {NoValue, ModeName(current)}
       /\ published.Action \in {NoValue, ActionName(current)}

(* Power, temperature and fan, each with its topic, implement ChangeFeed:  *)
(* no change is lost, doubled or published before an older one, however    *)
(* commands, frames and change events mix in the queue.                    *)
(* [update_state, the change callbacks, ac_on_*_changed]                   *)
ValuesOf(type, q) ==
  LET values[n \in 0 .. Len(q)] ==
        IF n = 0 THEN <<>>
        ELSE IF q[n].type = type THEN Append(values[n - 1], q[n].value)
        ELSE values[n - 1]
  IN  values[Len(q)]

OnItsWay(f) ==
  LET posted == ValuesOf(ChangeEvent[f], queue)
  IN  IF posting /\ at = f THEN Append(posted, current[f]) ELSE posted

Shown(table, payload) == IF payload = NoValue THEN NoValue
                         ELSE CHOOSE v \in DOMAIN table : table[v] = payload

PowerFeed == INSTANCE ChangeFeed WITH
  Value <- Bit, Unknown <- NoValue, value <- current.power,
  feed <- OnItsWay("power"),
  seen <- Shown([v \in Bit |-> IF v = 1 THEN "on" ELSE "off"],
                published.Power)

TemperatureFeed == INSTANCE ChangeFeed WITH
  Value <- Temperatures, Unknown <- NoValue, value <- current.temperature,
  feed <- OnItsWay("temperature"), seen <- published.Temperature

FanFeed == INSTANCE ChangeFeed WITH
  Value <- Fans, Unknown <- NoValue, value <- current.fan,
  feed <- OnItsWay("fan"), seen <- Shown(fan_to_name, published.Fan)

PublishedInOrder == PowerFeed!Spec /\ TemperatureFeed!Spec /\ FanFeed!Spec

(* A frame of the remote control goes through unchanged: the one sent on   *)
(* after it has its settings (a mode code nobody knows becomes the mode in *)
(* force).                                                                 *)
(* [ir_on_recv: airwell_ir_recv, update_state, airwell_ir_send]            *)
RelayTransparent ==
  [][/\ at = "return" /\ event.type = "IR_RECV" /\ ~StaysOff(current)
     /\ at' = "idle" /\ ~(sent' = NoFrame)
     => /\ sent'.temp = event.frame.temp
        /\ sent'.fan = event.frame.fan
        /\ event.frame.mode \in DOMAIN airwell_modes =>
             sent'.mode = event.frame.mode]_vars

(* The task waits for room in the queue that only it empties.              *)
Stuck == posting /\ Len(queue) = QueueLen

(* Nothing but a reset ends that wait.                                     *)
(* [the change callbacks: xQueueSend(event_queue, ..., portMAX_DELAY)]     *)
StuckForever == [][Stuck => Stuck' \/ Restart]_vars

(* That wait is the only one: an event that was taken is handled to the    *)
(* end, whatever arrives meanwhile, or the task is stuck.                  *)
(* [ac_mitm_handle_event]                                                  *)
HandledOrStuck == (at # "idle") ~> (at = "idle" \/ Stuck)

(* "... as all remote commands go through the ESP32" (README.md:9): an     *)
(* event that was taken is handled to the end.                             *)
CommandsGoThrough == (at # "idle") ~> (at = "idle")
=============================================================================
