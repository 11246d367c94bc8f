----------------------------- MODULE PowerLoop ------------------------------
(***************************************************************************)
(* The loop that keeps the power of the air conditioner under control.     *)
(* The unit has one power key, so a frame can only TOGGLE its power:       *)
(* ac_mitm_task compares the power it wants with the power it last saw on  *)
(* the detector, and sets the toggle of the frame when they differ.  Five  *)
(* activities run against each other: the task, those who post commands to *)
(* it, the transmitter that works through its queue of frames, the unit,   *)
(* and the detector task with its interrupt, debounce and report.          *)
(*                                                                         *)
(* Of the state of AcMitm only the power is kept, and how many other       *)
(* settings change; of a frame only the toggle.  The save is left out: the *)
(* NVS may refuse it, and keeps some earlier state.                        *)
(***************************************************************************)
EXTENDS Integers, Sequences

CONSTANTS
  QueueLen,    \* slots of event_queue of ac_mitm.c
  TxLen,       \* frames the transmitter holds, the one on the air included
  MaxSettings  \* bound: settings that change with one frame (3 in ac.c)

ASSUME QueueAssumption == QueueLen \in Nat \ {0}
ASSUME TxAssumption    == TxLen \in Nat \ {0}
ASSUME SettingAssumption == MaxSettings \in Nat

VARIABLES
  acOn,       \* is the unit on? (what the detector's pin shows)
  power,      \* current_state.power: what the task wants
  detected,   \* current_state.detected_power: what the task last saw
  at,         \* what ac_mitm_task does next: "idle", it takes an event;
              \*   "mode", set the mode of a mode command; "send", transmit;
              \*   "publish" the change it has taken
  changes,    \* change events that update_state posts before that
  queue,      \* event_queue
  txq,        \* frames given to rmt_transmit, the first is on the air
  intr,       \* is the interrupt of the pin enabled?
  edge,       \* is the detector's queue (of one) filled?
  pc,         \* where power_detector_task is
  level,      \* its variable `level', as long as it is used
  reading,    \* history: the last reading of the pin since the reset, "none",
              \*   "good", or "missed" when the unit has switched after it
              \*   while the interrupt was off
  garbled,    \* history: a frame was lost in freed memory, and no frame has
              \*   been put on the air since
  unsent      \* history: a mode command was refused after it had turned the
              \*   power on, and no frame for it and no report came since

state    == <<power, detected>>
task     == <<at, changes>>
detector == <<intr, edge, pc, level>>
vars     == <<acOn, state, task, queue, txq, detector, reading, garbled,
              unsent>>

Bit    == 0 .. 1

(* To the power a frame without the toggle, the frame that resets the      *)
(* output and what is no frame at all are the same.                        *)
Frames == {"toggle", "plain"}

(* What the MQTT client's task and ir_task post: a power or mode command   *)
(* that turns the power on, one that turns it off, a frame with the        *)
(* toggle, and, from both, another setting.  What ac_mitm_task posts:      *)
(* "changed".                                                              *)
Mqtt     == {"on", "off", "setting"}
Remote   == {"toggle", "setting"}
Commands == Mqtt \union Remote
Reports  == {"detected 0", "detected 1"}
Events   == Commands \union Reports \union {"changed"}
Report(l) == IF l = 1 THEN "detected 1" ELSE "detected 0"

TypeOK ==
  /\ acOn \in Bit /\ power \in Bit /\ detected \in Bit
  /\ at \in {"idle", "mode", "send", "publish"}
  /\ changes \in 0 .. MaxSettings + 1
  /\ queue \in Seq(Events) /\ Len(queue) <= QueueLen
  /\ txq \in Seq(Frames) /\ Len(txq) <= TxLen
  /\ intr \in BOOLEAN /\ edge \in BOOLEAN
  /\ pc \in {"wait", "woken", "debounce", "report", "enable"}
  /\ level \in Bit
  /\ reading \in {"none", "good", "missed"}
  /\ garbled \in BOOLEAN /\ unsent \in BOOLEAN

(* ir_initialize gives the transmitter a frame that only resets the output *)
(* and stays in memory.                                                    *)
OutputReset == <<"plain">>

(* The first start: nothing is known of the unit.                          *)
Init ==
  /\ acOn \in Bit /\ power = 0 /\ detected = 0
  /\ at = "idle" /\ changes = 0
  /\ queue = <<>> /\ txq = OutputReset
  /\ intr = TRUE /\ edge = FALSE /\ pc = "wait" /\ level = 0
  /\ reading = "none" /\ garbled = FALSE /\ unsent = FALSE

-----------------------------------------------------------------------------
(* The unit *)

(* The pin changes with the unit.  An edge reaches the detector's queue    *)
(* only while the interrupt is on (a full queue holds an edge already);    *)
(* enabling the interrupt forgets the edges before.                        *)
Switch ==
  /\ acOn' = 1 - acOn
  /\ edge' = (edge \/ intr)
  /\ reading' = IF pc \in {"report", "enable"} THEN "missed" ELSE reading
  /\ UNCHANGED <<intr, pc, level>>

PressButton == /\ Switch
               /\ UNCHANGED <<state, task, queue, txq, garbled, unsent>>

-----------------------------------------------------------------------------
(* The transmitter *)

(* The frame on the air is over and the unit obeys it.  The next one was   *)
(* given as a pointer to memory that airwell_ir_send has freed since: what *)
(* goes on the air may be no frame any more.                               *)
FrameSent ==
  /\ txq # <<>>
  /\ IF Head(txq) = "toggle" THEN Switch
     ELSE UNCHANGED <<acOn, detector, reading>>
  /\ \/ txq' = Tail(txq) /\ UNCHANGED garbled
     \/ /\ Len(txq) > 1
        /\ txq' = <<"plain">> \o Tail(Tail(txq))
        /\ garbled' = TRUE
  /\ UNCHANGED <<state, task, queue, unsent>>

(* airwell_ir_send.  With nothing on the air the frame is encoded at once; *)
(* otherwise it waits, and the memory of one that waits already may come   *)
(* back from malloc for the new one.                                       *)
Transmit(p, d) ==
  LET new == IF p # d THEN "toggle" ELSE "plain"
  IN  \/ p = 0 /\ d = 0 /\ UNCHANGED <<txq, garbled>>
      \/ /\ p = 1 \/ d = 1
         /\ Len(txq) < TxLen
         /\ \E over \in SUBSET (2 .. Len(txq)) :
              txq' = [i \in 1 .. Len(txq) + 1 |->
                        IF i > Len(txq) \/ i \in over THEN new ELSE txq[i]]
         /\ garbled' = \/ \E i \in 2 .. Len(txq) : txq'[i] # txq[i]
                       \/ garbled /\ txq # <<>>

-----------------------------------------------------------------------------
(* The receiver and ir_task, and the MQTT client's task                    *)

Post(e) == /\ Len(queue) < QueueLen
           /\ queue' = Append(queue, e)

(* A frame of the remote control, as ir_task posts it.  It receives none   *)
(* while it waits for room: a frame that waits is one that comes later.    *)
Receive == /\ \E e \in Remote : Post(e)
           /\ UNCHANGED <<acOn, state, task, txq, detector, reading, garbled,
                          unsent>>

Arrive == /\ \E e \in Mqtt : Post(e)
          /\ UNCHANGED <<acOn, state, task, txq, detector, reading, garbled,
                         unsent>>

-----------------------------------------------------------------------------
(* ac_mitm_task *)

Handles(events) == /\ at = "idle"
                   /\ queue # <<>> /\ Head(queue) \in events
                   /\ queue' = Tail(queue)

\* slip: the toggle is added, not inverted
WantedNext(e) == CASE e = "on"     -> 1
                   [] e = "off"    -> 0
                   [] e = "toggle" -> power + 1
                   [] OTHER        -> power

Wanted(e) == CASE e = "on"     -> 1
               [] e = "off"    -> 0
               [] e = "toggle" -> 1 - power
               [] OTHER        -> power

(* Settings that change beside the power: a frame has them all.            *)
OtherChanges(e) == IF e \in Remote THEN 0 .. MaxSettings ELSE {0}

(* A command: update_state changes the state and posts what has changed.   *)
(* A mode command turns the power on, and then sets the mode.              *)
HandleCommand ==
  /\ Handles(Commands)
  /\ power' = Wanted(Head(queue))
  /\ \E n \in OtherChanges(Head(queue)) :
       changes' = n + (IF power' # power THEN 1 ELSE 0)
  /\ at' \in IF Head(queue) = "on" THEN {"send", "mode"} ELSE {"send"}
  /\ UNCHANGED <<acOn, detected, txq, detector, reading, garbled, unsent>>

(* A payload that is turned down, a frame from which nothing is read.      *)
TurnDown ==
  /\ Handles({"setting"})
  /\ UNCHANGED <<acOn, state, task, txq, detector, reading, garbled, unsent>>

(* A change event comes back to the task, which publishes it.              *)
HandleChange ==
  /\ Handles({"changed"})
  /\ at' = "publish"
  /\ UNCHANGED <<acOn, state, changes, txq, detector, reading, garbled, unsent>>

Publish ==
  /\ at = "publish" /\ at' = "idle"
  /\ UNCHANGED <<acOn, state, changes, queue, txq, detector, reading, garbled,
                 unsent>>

(* ac_set_detected_power: nothing is saved, and a frame is sent only if    *)
(* there is something to toggle.                                           *)
Reported  == IF Head(queue) = "detected 1" THEN 1 ELSE 0
Answer(l) == at' = IF l # power THEN "send" ELSE "idle"

\* slip: a report of what is wanted anyway is not recorded
HandleReportOfNews ==
  /\ Handles(Reports)
  /\ detected' = IF Reported = power THEN detected ELSE Reported
  /\ Answer(Reported)
  /\ unsent' = FALSE
  /\ UNCHANGED <<acOn, power, changes, txq, detector, reading, garbled>>

\* slip: a report is only recorded
HandleReportQuietly ==
  /\ Handles(Reports)
  /\ detected' = Reported
  /\ unsent' = FALSE
  /\ UNCHANGED <<acOn, power, task, txq, detector, reading, garbled>>

\* slip: what is reported is not recorded
HandleReportUnrecorded ==
  /\ Handles(Reports)
  /\ Answer(detected)
  /\ unsent' = FALSE
  /\ UNCHANGED <<acOn, state, changes, txq, detector, reading, garbled>>

HandleReport ==
  /\ Handles(Reports)
  /\ detected' = Reported
  /\ Answer(Reported)
  /\ unsent' = FALSE
  /\ UNCHANGED <<acOn, power, changes, txq, detector, reading, garbled>>

(* The callbacks of update_state wait for room in the queue that only this *)
(* task empties.                                                           *)
PostChange ==
  /\ changes > 0 /\ changes' = changes - 1
  /\ Post("changed")
  /\ UNCHANGED <<acOn, state, at, txq, detector, reading, garbled, unsent>>

(* The rest of a mode command: one more update, or the mode is refused and *)
(* nothing is sent.                                                        *)
SetMode ==
  /\ at = "mode" /\ changes = 0
  /\ \/ at' = "send" /\ changes' \in 0 .. 1 /\ UNCHANGED unsent
     \/ at' = "idle" /\ unsent' = (power # detected) /\ UNCHANGED changes
  /\ UNCHANGED <<acOn, state, queue, txq, detector, reading, garbled>>

(* ac_ir_send                                                              *)
Send ==
  /\ at = "send" /\ changes = 0
  /\ Transmit(power, detected)
  /\ at' = "idle" /\ unsent' = FALSE
  /\ UNCHANGED <<acOn, state, changes, queue, detector, reading>>

-----------------------------------------------------------------------------
(* power_detector_task *)

DetectorStep(from, to) ==
  /\ pc = from /\ pc' = to
  /\ UNCHANGED <<acOn, state, task, txq, garbled, unsent>>

Wake == /\ DetectorStep("wait", "woken")
        /\ edge /\ edge' = FALSE
        /\ UNCHANGED <<intr, level, queue, reading>>

Disable == /\ DetectorStep("woken", "debounce")
           /\ intr' = FALSE
           /\ UNCHANGED <<edge, level, queue, reading>>

(* After the delay *)
Read == /\ DetectorStep("debounce", "report")
        /\ level' = acOn
        /\ reading' = "good"
        /\ UNCHANGED <<intr, edge, queue>>

(* The callback posts and waits for room in the queue.                     *)
PostReport == /\ DetectorStep("report", "enable")
              /\ Post(Report(level)) /\ level' = 0
              /\ UNCHANGED <<intr, edge, reading>>

Enable == /\ DetectorStep("enable", "wait")
          /\ intr' = TRUE
          /\ UNCHANGED <<edge, level, queue, reading>>

(* Noise on the pin *)
Bounce == /\ intr /\ edge' = TRUE
          /\ UNCHANGED <<acOn, state, task, queue, txq, intr, pc, level,
                         reading, garbled, unsent>>

-----------------------------------------------------------------------------
(* A reset of the ESP32.  The pin is not read at the start, and the state  *)
(* is one that was saved before.                                           *)
Restart ==
  /\ power' \in Bit /\ detected' \in Bit
  /\ at' = "idle" /\ changes' = 0
  /\ queue' = <<>> /\ txq' = OutputReset
  /\ intr' = TRUE /\ edge' = FALSE /\ pc' = "wait" /\ level' = 0
  /\ reading' = "none" /\ garbled' = FALSE /\ unsent' = FALSE
  /\ UNCHANGED acOn

Handler  == HandleCommand \/ TurnDown \/ HandleChange \/ HandleReport
Task     == Handler \/ PostChange \/ SetMode \/ Send \/ Publish
Detector == Wake \/ Disable \/ Read \/ PostReport \/ Enable
Loop     == FrameSent \/ Task \/ Detector

(* What makes the loop move: keys, commands, noise and resets              *)
Disturbance == PressButton \/ Receive \/ Arrive \/ Bounce \/ Restart

Next == Loop \/ Disturbance

Spec == Init /\ [][Next]_vars

(* With the queue full the task may not go on.  It waits for room itself;  *)
(* or it waits in mqtt_publish for the lock of the MQTT client, whose task *)
(* holds it and waits for room (the Embrace of Mqtt).                      *)
Stuck == Len(queue) = QueueLen /\ (changes > 0 \/ at = "publish")

(* Apart from that the tasks run when they are ready, and the transmitter  *)
(* transmits.                                                              *)
FairSpec == /\ Spec
            /\ WF_vars(FrameSent) /\ WF_vars(Detector)
            /\ WF_vars(Task /\ ~Stuck)

-----------------------------------------------------------------------------
(* Nothing is on its way.                                                  *)
Quiet == /\ queue = <<>> /\ at = "idle" /\ txq = <<>>
         /\ ~edge /\ pc = "wait"

(* Once nothing is on its way, the power the task saw last is the power of *)
(* the unit, unless the unit switched between the reading of the pin and   *)
(* the enabling of the interrupt, or no report came since the reset.       *)
(* [power_detector_task, ac_set_detected_power]                            *)
DetectedIsActual == Quiet /\ reading = "good" => detected = acOn

(* And then it is the power that is wanted: commands that were worked out  *)
(* from a stale reading, and cancelled or doubled each other, have been    *)
(* made good by the reports that followed, unless a frame was garbled or a *)
(* refused mode command has sent none.                                     *)
(* [ac_set_detected_power, airwell_ir_send, ac_on_mqtt_mode]               *)
WantedIsActual ==
  Quiet /\ reading = "good" /\ ~garbled /\ ~unsent => power = acOn

(* When nobody touches anything any more the loop comes to rest: reports   *)
(* and the toggles they bring about do not chase each other for ever,      *)
(* unless each falls into one moment of the detector's task; or the task   *)
(* waits for ever at a full queue, its own, which no other empties.        *)
(* [ac_set_detected_power, airwell_ir_send, power_detector_task,           *)
(* update_state, _ac_on_power_changed]                                     *)
Chased  == FrameSent /\ pc = "woken"
Settles == <>[][Loop]_vars => <>[]Quiet \/ []<><<Chased>>_vars \/ <>[]Stuck

(* "the application will always know if the AC is currently on or not"     *)
(* (README.md:193), once it has heard of it.                               *)
AlwaysKnows == Quiet /\ reading # "none" => detected = acOn
=============================================================================
