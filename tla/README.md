# A TLA+ model of esp32-ac-mitm

The program sits between the remote control of an air conditioner and the
unit: it receives the infra-red frames of the remote control and commands by
MQTT, keeps the state the unit should have, publishes it, and transmits frames
to the unit. The models here are written from the C sources in `src/main`; TLC
checks them on small instances, and TLAPS proves every safety property of the
passing runs, invariants, action properties and refinements, for every value of
the constants.

Run `tlc -config X.cfg M` or `tlapm M.tla` in this directory; `PROJECT.json`
lists the runs, the source lines of every definition (`map`), for every
checked property a plausible bug that breaks it (`mutants`), and the hazards
the properties are for.

## The system: inventory

| Part | Source | State it keeps | Operations | Module |
| --- | --- | --- | --- | --- |
| Air conditioner state, Airwell protocol | `ac.c` | `current_state`, one word: detected power, power, temperature, fan, mode | setters with limits, `update_state`, decode and make a frame | `Ac`, `AcMitm` |
| Event loop | `ac_mitm.c` | `event_queue` (10 slots), the event in hand | one handler per event; every other task posts | `AcMitm`, `Mqtt`, `PowerLoop`, `Network` |
| MQTT wrapper | `mqtt.c` | `is_connected`, `subscription_list`, `publications_list`, the client | connect, disconnect, publish, subscribe, unsubscribe, session events, messages | `Mqtt` |
| Power detector | `power_detector.c` | a queue of one, the interrupt, the last level | interrupt, debounce, read, report | `PowerLoop` |
| Infra-red input and output | `ir.c` | receive queue of one, transmit queue of four | receive a frame, queue a frame, reset the output | `PowerLoop`, `Manchester` |
| Line code | `protocol_parsers.c` | none between calls | make symbols, parse symbols | `Manchester` |
| Updates | `ota.c` | `ota_ctx`, shared by two tasks, no lock | open, write, close, download | `Ota` |
| Configuration store | `config.c` | two partitions, NVS: active partition, saved state word | boot, update begin/write/end, getters | `Ota`, `AcMitm`, `Network` |
| HTTP server | `httpd.c` | none of its own | update upload, post and delete a file; list, read, status, restart | `Ota` |
| Network | `wifi.c`, `eth.c`, the end of `app_main` | `should_reconnect`, which interface | initialize, connect, reconnect, access point, event handlers | `Network` |
| Remote log | `log.c` | socket, saved output function | start, stop, one line | `Network` |
| Name resolution, web page, scripts | `resolve.c`, `www`, `*.py` | none | | not modelled |

How they interact. Seven activities run against each other: `ac_mitm_task`, the
task of the MQTT client (ESP-IDF), the task of the default event loop (ESP-IDF,
it runs the handlers of `wifi.c` and `eth.c`), `ir_task`, `power_detector_task`
with its interrupt, the HTTP server's task, `ota_task`; besides them the
heartbeat timer and the RMT hardware. All but the HTTP server and `ota_task`
reach `ac_mitm_task` through `event_queue`, by an `xQueueSend` that waits without
limit. The setters of `ac.c` call back into `ac_mitm.c`, whose callbacks post to
the same queue from the task that empties it. `ac_mitm_task` and the MQTT
client's task share the lists of `mqtt.c`, the HTTP server's task and `ota_task`
share `ota_ctx` and the file system, `app_main` and the event loop's task share
`should_reconnect`.

What is hard here, and what makes each part right:

- *Event loop.* A task that waits for room in its own queue; change events that
  come after commands queued earlier; a handler that changes a part of the state
  and then refuses. Right: the last frame and the topics follow the state,
  changes are published once and in order, a reset loses only the update in hand.
- *Power.* The unit's power can only be toggled, and is known late. Right: once
  everything has come to rest the unit has the power that is wanted.
- *MQTT.* Sessions and networks come and go while their events wait; lists are
  used by two tasks; the client's lock is held while its task waits for the
  queue. Right: subscribed in every session, nothing twice, nothing lost, and
  messages passed on.
- *Updates.* Failures and resets at every step, two updates at a time, files
  that change beside them. Right: only a whole image becomes active and stays,
  there is always something to start, and updates open again.
- *Network and log.* Reports of networks that came and went wait behind one
  another; the log is started and stopped by them; a network that carries
  nothing. Right: client and log follow the network, and the device comes back
  online.
- *Line code.* Runs that merge, measuring errors, a result without a length.
  Right: read as sent without large errors; with them a frame may be read as
  another, but never with a power key that was not sent.

`PROJECT.json` lists 40 such hazards with their lines. Eight have no property,
and a note that says why. Most of these the code does run into: the model has the
steps, a history variable records that they were taken (`torn`, `troubled`,
`twice`, `unflagged`, `overlapped`), and the properties are stated for behaviours
without. Of some other hazards this is true in part; their notes say so.

## The modules

`Ac` has the operators of `ac.c` (state word, tables, frame to state and back);
it has no variables.

`AcMitm` (extends `Ac`) is the event loop. One variable per variable of the C
code (`current`, `nvs`, `queue`, `event`), and three that are the program
counter of `ac_mitm_task` inside a handler: `at`, `posting`, `args`. A step is a
handler, cut only where someone else can come between: after each field that
`update_state` sets its callback posts to the queue (`ChangeField`,
`PostChange`), then comes `Save`, then what the handler does after
`update_state` returned (`Return`: transmit, or nothing). `Restart` is a reset at
any point: the state is read back from NVS, all else is lost. What was last
transmitted and published is kept in `sent` and `published`, since the reset.

`ChangeFeed` is what the event loop promises of one field and its topic: every
change is published, once, in order. `AcMitm` implements it three times (power,
temperature, fan): `PublishedInOrder` is the refinement, with the feed mapped to
the change events in the queue and the one being posted.

`PowerLoop` is the loop that controls the power: of the state only the power is
kept, and how many other settings change, of a frame only its toggle. Like in
`AcMitm` a handler of `ac_mitm_task` (`at`, `changes`) is cut where `update_state`
posts a change to the task's own queue (`PostChange`), which may have no room;
such an event comes back to the task, which publishes it (`Publish`), and there
it may wait for the MQTT client. In exchange it has the transmitter's queue with
the frames whose memory `airwell_ir_send` has freed (undefined behaviour: such a
frame goes out as it was, as a later frame, or as noise) and the one that resets
the output at the start, the unit, and `power_detector_task` step by step. A
reset finds some state that was saved; which one is `AcMitm`'s.

`Mqtt` is `mqtt.c` with the handlers of `ac_mitm.c` that use it. Steps of
`ac_mitm_task` (`pc`) are cut at each use of what is shared; the task of the
client (`mpc`) runs `mqtt_event_cb` step by step and holds the client's lock
meanwhile (`MayCall` is that lock, from the MQTT client of ESP-IDF: every call of
its API takes it). Publications of one state topic are numbered. A message is
walked through `subscription_list` an entry at a time (`walk`), with a wait for
room in the queue at every entry that matches.

`Ota` is `ota.c`, the update half and the boot half of `config.c`, and the
handlers of `httpd.c` that write. Two updaters run the same code against the
shared `ota_ctx`; a step ends at each use of it. A configuration handle that was
freed and is used again behaves as before or crashes the program (a `Restart`).
Of the files only `config.json` is kept, which decides what the boot loads: it is
truncated, received and, when the connection breaks, deleted (`PostFile`,
`FilePosted`, `DeleteFile`).

`TwoSlots` is what the two partitions of the configuration promise: an image that
is offered fills the spare slot, and becomes the active one only when all of it
is there; files change the slot in use only; a boot loads a usable image if
there is one and damages none. `Ota` implements it (`FillThenActivate`): a slot
holds an image when all of its chunks are there, else nothing, and an image is
offered from the moment its update is in progress until it is active, refused
or given up. Once two updates run into each other only the boot is promised,
until a boot has sorted that out.

`Network` is the end of `app_main`, the event handlers of `wifi.c` and `eth.c` with
the queue of the default event loop before them, `log.c`, and the handlers of
`ac_mitm.c` for the network and for sessions. The interface (`link`) announces
to `events` what happens to it, the event loop's task (`loop`) posts to
`event_queue`, `ac_mitm_task` (`pc`) starts and stops log and client. The MQTT
client is down to its sessions here; `Mqtt`, in turn, takes the network's reports
from outside and has no `log` entry in its configuration. Every configuration
(Wi-Fi, Ethernet, the ssid of the example, none that loads) is a constant of the
behaviour. `Reboot` is an `abort` or a failing `ESP_ERROR_CHECK`.

`Manchester` is `protocol_parsers.c`. `generate_manchester` gives the levels of
the line, one for each half period; `read` counts those the parser has had, and
`Run` is how long the line keeps its level from there, which is what the
receiver's hardware measures; the parser is a state machine that reads a run at
a time, each with an error out of a set. A word is the function of its bits, and
`parsed` is one, as in the code: bits are shifted in from the right, and its
length is not part of the result. How many there were is the history variable
`taken`.

`MCAcMitm`, `MCMqtt`, `MCOta`, `MCNetwork` and `MCManchester` give TLC its sets of
inputs. `AcMitmProofs`, `FeedProofs`, `PowerLoopProofs`, `MqttProofs`, `NetworkProofs`,
`OtaProofs`, `UpdateProofs` and `ManchesterProofs` have the theorems. Definitions marked `slip` are not part of a model: each is a bug that
a mutant puts in the place of a definition.

External to the sources, and modelled from how they are used: the lock of the
MQTT client and its refusal to publish without a session (QoS 0 and a clean
session are the defaults of the configuration), the broker, the RMT hardware,
FreeRTOS queues, the Wi-Fi and Ethernet drivers, the DHCP client, sockets, the
firmware side of `esp_ota_*` (it checks an image before it boots it), and
`esp_http_client`, which ignores what its event handler returns: a download goes
on after a chunk was refused.

## The runs

| Run | Checks | Result |
| --- | --- | --- |
| `acmitm` | `TypeOK`, `CrashLosesOnlyThisUpdate`, `FrameMatchesState`, `SettledPublished`, `PublishedInOrder`, `RelayTransparent`, `StuckForever` | hold (1.66 million states) |
| `acmitm_faults` | `CrashLosesOnlyThisUpdate`, `HandledOrStuck` with failing saves, refused payloads and fairness | hold (190,956) |
| `acmitm_stuck` | `CommandsGoThrough` | violated |
| `powerloop` | `TypeOK`, `DetectedIsActual`, `WantedIsActual`, `Settles` | hold (1.64 million) |
| `powerloop_knows` | `AlwaysKnows` | violated |
| `mqtt` | `TypeOK`, `Subscribed`, `AtMostOnce`, `AllDelivered`, `MessagesPassed`, `HandledOrEmbrace` | hold (2.30 million) |
| `mqtt_order` | `NewestShown` | violated |
| `ota` | `TypeOK`, `AcceptedIsKept`, `FallbackKept`, `FirmwareStarts`, `OpensAgain`, `FillThenActivate` | hold (770,641) |
| `ota_overlap` | `OnlyIfWritten` | violated |
| `network` | `TypeOK`, `ClientFollowsNetwork`, `LogFollowsNetwork`, `BackOnline`, `Boots` | hold (361,422) |
| `network_boot` | `EitherSectionBoots` | violated |
| `manchester` | `ReadAsSent`, `OnlyShortened`, `ToggledWhole` | hold (47,360) |

### What the passing runs show

`acmitm`: with a power key and a settings key of the remote control, commands for
the power, the temperature and the mode (for the fan in `acmitm_faults`) and
detector levels arriving at every step, and resets at every step,
what was transmitted last has the settings of the state, and the topics show the
state once no change event is on its way, though half of them are made from the
event and half from the state of a later moment. The invariants name their
exceptions: a mode command that was refused, a temperature without a code (the 0
of a first start, which is sent as 16).

`powerloop`: commands worked out from an old reading of the power cancel or
double each other, and the reports that follow make it good. Exceptions, each
with a history variable: no report since the reset, an edge that was lost, a
frame that was lost in freed memory, a mode command that was refused and sent
no frame (`unsent`, until the next frame or report). `Settles`: after the last
command the loop comes to rest, whatever commands and losses came before. It has
two exceptions. `Stuck`: the queue is full for ever, because the task itself
waits for room in it to post a change (the hang of `acmitm_stuck`), or because it
waits in `mqtt_publish` for the client whose task waits for room (`Embrace`).
`Chased`: a loop of toggles that each end just between the wake-up of the
detector's task and its `gpio_intr_disable`, again and again; the edge then fills
the queue a second time and the same level is reported twice. Without either of
them TLC finds a counterexample.

`mqtt`: whatever the order of session events and network events in the queue,
once all are handled every command topic is subscribed to. What was published
offline arrives once, and a message of a command topic is passed on. Exceptions:
both tasks at work on one list at a time (`torn`), a publication sent into a
session that had gone, or added to the list while that is flushed (`troubled`),
a message that comes while its topic is between the broker and the list
(`walk.changing`). `HandledOrEmbrace` says that the only way not to finish a
handler is the deadlock with the client's task (`Embrace`), which is reachable. `torn` and
`troubled` stay set, so nothing is said of lists that two tasks have worked on.

`ota`: updates with good and unusable images, failing erases, writes and NVS,
senders that give up or stall, files that are posted and deleted, and resets at
every step. The configuration that is marked active is the one that was accepted
last, all of it, through later updates and boots, unless two updates ran into
each other or a file was changed in the slot that is being updated (`overlapped`);
there is a configuration to fall back to; the firmware that runs is never
overwritten, even by two updates. `OpensAgain` names what keeps an update in
progress for ever: a client that stalls, a task that could not be created.
`FillThenActivate` says of every step what the invariants say of states: nothing
but a whole image, a boot that falls back, or a file changes what is active.

`network`: the client and the log follow the address in whatever order networks
come, go and change address while reports of earlier ones wait, and whichever
way `log_start` fails. Exceptions: an address announced after a disconnection
that is not handled yet (`late`), two connections without a disconnection
(`twice`, after which the log may call itself). `BackOnline`: after any losses,
resets and failures, also on a network that carries nothing (`Mute`), the device
comes back online and stays there; `Excused` lists what prevents it. `Boots`:
`app_main` ends, with a network or an access point, for every configuration but
those of `BootLoop`.

`manchester`: all frames of eight bits. A frame is read as it was sent with errors
up to a quarter of a half period (`ReadAsSent`). Larger ones, and a reception that
ends early, take bits off its end; the result has no length and its bits are
right-aligned, so what is read is `value >> k`: another number, which
`airwell_ir_recv` takes for other settings. `OnlyShortened` says that this is all
that happens, with one exception: a frame that starts with a 1 (a power key) has
a longer space in its header, and this is told from a short one by a quarter of
a half period, not by a quarter of its own length. `ToggledWhole` has no
exception: a frame that is read with a power key is the frame that was sent.

### What the violations show

- `acmitm_stuck`: `ac_mitm_task` waits for room in the queue which only it
  empties (`ac_mitm.c:749`, queue of 10 as in the code).
- `powerloop_knows`: an edge between `gpio_get_level` and `gpio_intr_enable` is
  lost (`power_detector.c:47`).
- `mqtt_order`: publications made offline are published newest first
  (`mqtt.c:120`).
- `ota_overlap`: two updates share a handle, and a blank partition becomes
  active (`ota.c:247`).
- `network_boot`: with an `eth` section and no `wifi` section the ssid that is read
  is the one of the example, and `wifi_start_ap` is called without Wi-Fi
  (`ac_mitm.c:925`): the program aborts after every start.

Met while modelling, and not the subject of a run:

- A mode command with an unknown name turns the power on in the state, saves it
  and publishes it, and sends no frame (`ac_mitm.c:450`; `FrameMatchesState` names
  it as its exception).
- A frame of the remote control that is cut short is taken for one with other
  settings: `parse_manchester` returns the bits it has, right-aligned and without
  their number (`protocol_parsers.c:52`, `:83`, `:150`), and `airwell_ir_recv` takes
  any value but 0 (`ac.c:137-146`). The reception need only end after the fifth
  symbol. The state is set to these settings, published, and sent to the unit.
- An uptime whose session ends between the two tests of the connection is kept
  for later (`ac_mitm.c:120`).
- `Action` also publishes `off`, which `README.md:19-20` does not list; `Status`
  publishes `online` and `offline`, not `Online` and `Offline`.
- "Failed connecting to MQTT 3 times" counts any three disconnections since the
  boot, for the counter is never reset, and wraps at 256 (`ac_mitm.c:351`).
- `wifi_reconnect` does nothing for Ethernet: a port that carries nothing is
  never cured. A station that has joined and gets no address waits for ever.
- `log_start` twice without a `log_stop` (a change of address) makes the log call
  itself; started twice and failing the second time, it leaves the output hooked
  to a socket that is closed.
- On the ESP32-S3 of `sdkconfig.defaults` an `eth` section makes `eth_initialize`
  fail and the program restart for ever. The table of PHY names in `eth.c:99` has
  no terminator: an unknown name is looked for behind its end.
- The program restarts after an update that failed or changed nothing, too.
- A topic may be in `subscription_list` twice (a second connection without a
  disconnection, or the late event of an earlier session); a message of it is
  then handled twice. `MessagesPassed` asks for one at least.

### Bounds

- `AcMitm`: `QueueLen` 4 (2 in `acmitm_faults`) instead of 10. One handler posts
  at most four change events, so 4 has the empty, the partly and the completely
  full queue before each of them; `acmitm_stuck` uses 10. `MaxWaiting` bounds how
  many events of other tasks wait at a time: 1 in `acmitm`, where change events
  fill the rest, 2 in `acmitm_faults` and 10 in `acmitm_stuck` (all of the
  queue). Payloads: one of each kind that is accepted, one that is refused, per
  topic; frames: one that changes all settings, one with a mode code that no
  table has, one from which nothing can be read.
- `PowerLoop`: `QueueLen` 2, `TxLen` 3 (one frame on the air, two waiting, so that
  one waiting frame can become the other), `MaxSettings` 1: with the power a frame
  changes two fields, as many as fill the queue. Presses of the unit's own
  button, commands, noise and resets are unlimited.
- `Mqtt`: `QueueLen` 2, two command topics (a list with an entry to pass over), 2
  changes or heartbeats (an order to get wrong), 1 lost or failed session, 3
  moves of the network (up, down, up again, or two ups in a row), 1 message.
  Sessions end only by these, so the run stops when they are used up, and
  deadlock is not checked; it could not be, for `Embrace` is a deadlock.
  `mqtt_order` has one move and no message.
- `Ota`: 2 chunks (a first and a last one), 2 updates or changed files (an
  overlap, or a file under an update), three images. An image fills its slot
  exactly: a longer body, whose last write fails, is not modelled. With one chunk and three
  updates the same properties hold as well (4.57 million states).
- `Network`: `QueueLen` 2, `MaxTrouble` 3 (what comes from outside: losses,
  failures to join, changes of address, resets, a network that goes mute), six
  configurations. `Span` 4 instead of 256: both leave 1 when divided by 3, so the
  wrap of `num_disconnections` breaks the count to three in the same way. With an
  access point, or nothing left to happen, the system stops, and `Embrace` is a
  deadlock: deadlock is not checked.
- `Manchester`: 8 bits of 34 in words of 10 (the frame is shorter than the word,
  as in the code); the parser's memory is one half bit, so every
  neighbourhood of a bit is there. Errors of a run, in microseconds: 0, 237 (the
  most a half period tolerates), 474 (just under half of one, when it could be
  two), and in a header 711 (just under three quarters of one, when a space
  without a backlog could be one with it). `ErrorAssumption` has these two limits:
  beyond them a run is measured as long as another, which no parser can tell. The run ends with its frame,
  as the function does, so deadlock is not checked.

### Fairness

`AcMitm!FairSpec` and `Mqtt!FairSpec` have weak fairness on the steps of
`ac_mitm_task` and, in `Mqtt`, on those of the client's task: FreeRTOS runs a task
that is ready, these have the same priority as their competitors and block only
where the model blocks. There is no fairness for anything from outside:
commands, frames, networks, resets and failures may come or not.

`PowerLoop!FairSpec` adds the transmitter, which transmits what it was given. Of
`ac_mitm_task` it has `WF_vars(Task /\ ~Stuck)`: nothing is promised of it while the
queue is full and it waits for room itself, or for the MQTT client.
`Ota!FairSpec` has weak fairness on what the device does for each updater, none
on what a client sends: a client may stall. A handle that is freed twice is a
reset that comes.

`Network!FairSpec` has weak fairness on all tasks, and strong fairness on the
event loop's: it waits for slots of `event_queue` with the highest priority of
those that wait, so FreeRTOS gives it the next one. The interface tries what it
was told to try (`Join`, `NotJoined`), notices that a network has gone (`Left`), and
DHCP answers (`GotIp`). Trouble is bounded, which is the premise of `BackOnline`:
the world comes to rest at some time.

## The proofs

Eight modules prove 26 theorems, for every value of the constants. The
assumptions are those named in the modules: queues and images of at least one
slot or chunk, words that hold a frame, bounds that are natural numbers, temperatures that are integers,
levels 0 and 1, frames that are frames, images and values that can be told from
none, and errors of measurement below the limits named under Bounds.

`AcMitmProofs`, for every queue length, every set of payloads, frames and levels,
with and without refused saves:

| Theorem | States | By |
| --- | --- | --- |
| `TypeCorrect` | `Spec => []TypeOK` | inductive as it stands |
| `CrashSafe` | `Spec => []CrashLosesOnlyThisUpdate` | inductive with `TypeOK` |
| `FrameCorrect` | `Spec => []FrameMatchesState` | `ToldInv` |
| `SettledCorrect` | `Spec => []SettledPublished` | `SettledInv` |
| `RelayCorrect` | `Spec => RelayTransparent` | `RelayInv` |
| `StuckIsForever` | `Spec => StuckForever` | from the guards |

`TypeOK` is more than types: it says that every published state has a name in
the tables, and that a change event carries a value of its field.

`FrameMatchesState` speaks of the moments between events; inside a handler the
state runs ahead of the frame. Every handler that starts an update of a setting
transmits at its end, and a transmission makes the frame match whatever the state
is, so nothing need be known of the state on the way there, with one exception:
the power half of a mode command, which ends without a frame when the mode is
refused. `ToldInv` adds just that: during it the frame still matches, for the
update keeps every setting, and a power that changes is remembered in `untold`.

`SettledPublished` speaks of fields with no change on its way. `SettledInv` adds,
for every field, that the newest change event in the queue carries the value of
the field (unless one is being posted just now), so that handling the last event
makes the topic show the state. The lemmas on `Append`, `Tail` and the last event
of a field in a queue are what it rests on.

`RelayTransparent` is about the step that transmits after a frame of the remote
control; `RelayInv` follows the fields that `update_state` has set so far.

`FeedProofs`, under the same assumptions:

| Theorem | States | By |
| --- | --- | --- |
| `PublishedCorrect` | `Spec => PublishedInOrder` | every step of `AcMitm` is a `Change`, a `Publish`, a `Reset` or no step of each of the three feeds |

The feed of a field is made of the values its change events carry, in the order
of the queue (`ValuesOf`, a recursive function on the length of a queue). The lemmas
on it say what an `Append` and a `Tail` do to it; they go by induction over that
length, in a form that the provers can use: an inductive subset of the natural
numbers is all of them (from the library's well-founded induction). The steps are
then four kinds, by what they do to the field, the queue and the topic, and each
kind is mapped for one field at a time.

`PowerLoopProofs`, for every length of both queues:

| Theorem | States | By |
| --- | --- | --- |
| `TypeCorrect` | `Spec => []TypeOK` | inductive as it stands |
| `DetectedCorrect` | `Spec => []DetectedIsActual` | `DetectedInv` |
| `WantedCorrect` | `Spec => []WantedIsActual` | `WantedInv` |

`DetectedInv` follows a reading: the interrupt is on exactly while the task waits
or has just woken, what was read and not yet reported is the unit's power unless
an edge was missed, and once reported it is the newest report, the last one in
the queue or, when none is there, the one in the state. `WantedInv` is about the
other direction: whatever differs from what the task saw last has a toggle in the
transmitter's queue, or there is an edge or a report still to come that will
show it; a handler that has not yet transmitted will, and a mode command that was
refused is the exception (`unsent`). Both are needed at rest, when nothing is left
of either. That the task may hang before its own queue is of no concern to them:
it is not at rest then.

`MqttProofs`, for every queue length, every list of command topics, and any number
of sessions, changes, messages and networks:

| Theorem | States | By |
| --- | --- | --- |
| `TypeCorrect` | `Spec => []TypeOK` | `TypeInv` |
| `OnceCorrect` | `Spec => []AtMostOnce` | `OnceInv` |
| `MessagesCorrect` | `Spec => MessagesPassed` | `WalkInv` with `ListedInv`, `SessionInv` |
| `AllCorrect` | `Spec => []AllDelivered` | `AllInv` with `SessionInv` |
| `SubscribedCorrect` | `Spec => []Subscribed` | `SubscribedInv` with `SessionInv` |

`OnceInv`: a publication is at one place, about to be made, in the list, or at the
broker; while `mqtt_publications_publish` runs its entries are in the list and on
their way, so what is still to be published is compared instead, until the list is
freed. `AllInv` is its counterpart, that a publication is at one place at least,
where a list that is being published counts as what is left of it; that an offline
publication cannot be freed with it rests on `SessionInv`: `is_connected` is set
while the list is published, unless the client is about to be destroyed.
`SubscribedInv`: a session's `MQTT_CONNECTED` is being posted, or is in the queue
with no `MQTT_DISCONNECTED` after it, or was taken and there is no
`MQTT_DISCONNECTED` left, and then the topics up to the one at hand are subscribed
to. It is what makes late events of an old session harmless. `ListedInv`, that what
the broker has is in the list but for the topic at hand, starts `WalkInv`: a
message that has not been passed on has an entry ahead.

`NetworkProofs`, for every configuration, queue length and amount of trouble:

| Theorem | States | By |
| --- | --- | --- |
| `TypeCorrect` | `Spec => []TypeOK` | `TypeInv` |
| `LogCorrect` | `Spec => []LogFollowsNetwork` | `LogInv` |
| `ClientCorrect` | `Spec => []ClientFollowsNetwork` | `FollowInv` |

`FollowInv`: a disconnection never waits before an address in the event loop's
queue; when no disconnection waits there and an address does, there is an
address; when neither does, the newest report (being posted, last in
`event_queue`, or handled last) is that of the address. So when nothing is on its
way the client is as the address says. `LogInv` follows log and client through the
handlers, which deal with the one before the other.

`OtaProofs`, for images of any number of chunks and any number of updates:

| Theorem | States | By |
| --- | --- | --- |
| `TypeCorrect` | `Spec => []TypeOK` | `TypeInv` |
| `FirmwareCorrect` | `Spec => []FirmwareStarts` | `FirmwareInv` |
| `AcceptedCorrect` | `Spec => []AcceptedIsKept` | `OwnInv` |
| `FallbackCorrect` | `Spec => []FallbackKept` | `FallInv` with `OwnInv` |

`FirmwareInv`: no handle that was ever made points at the firmware that runs, so
that no overlap of updates can harm it. `OwnInv` holds unless `overlapped`: one
updater at most is between open and done, and it owns the handle in `ota_ctx`;
the slot holds nothing that was sent behind the place the handle has reached,
and, when no chunk was refused, the image up to there; so a handle that has
reached the end has the whole image. A file is only changed in the other slot.
`FallInv` then needs of an update in progress only that it writes beside the
configuration in use.

`UpdateProofs`, under the same assumptions:

| Theorem | States | By |
| --- | --- | --- |
| `UpdateCorrect` | `Spec => FillThenActivate` | `OwnInv` and `KindInv`, one mapping lemma per kind of step |

What a slot holds is a choice among images, so the first lemmas say when it is
determined: a full slot holds its image, one with a blank or spoiled piece none.
`KindInv` adds what `OwnInv` leaves open: the type of an update is that of `ota_ctx` and
of the handle it uses, so that a step is known to be one of a configuration; and
a configuration handle that a failed write has freed, and that a download goes
on to use, stays behind the chunks that came, so that it never fills the slot.
Then a step either leaves both slots, or fills the spare one with nothing or the
image (`MapUpdating`), opens, activates, changes a file, boots, or clashes.

`ManchesterProofs`, for frames of any length, sent any number of times, every half
period and every set of errors within the assumption:

| Theorem | States | By |
| --- | --- | --- |
| `SentCorrect` | `Spec => []ReadAsSent` | `ParseInv` |
| `ShortenedCorrect` | `Spec => []OnlyShortened` | `ParseInv` |
| `ToggleCorrect` | `Spec => []ToggledWhole` | `ParseInv` |

`ParseInv` says where the parser is: after the header it has read two half
periods for each bit it has, and one more when half a bit is in its backlog,
which is then a half of the bit that comes next (`Placed`); what it has is the
frame shifted right (`ParsedWell`); and the level of the next run is the one it
takes it for. With that the next run is the first half of a bit, the second half,
the second half with the first half of the next bit, or the end of the frame
(`NextRun`). The arithmetic of the tolerances, cut to whole microseconds as in the
code, tells these apart for every half period. After a blurred header of a first
bit of 1 the parser may be out of step (`OutOfStep`): then it has read at least
one half period more than its bits account for, a run never makes that good, and
so it ends with fewer bits than the frame has. Since no bit of the result above
those taken is set (`TopInv`), the place of the power key is 0 (`ToggledWhole`).

TLC only: the liveness properties (`HandledOrStuck`, `Settles`, `HandledOrEmbrace`,
`OpensAgain`, `BackOnline`, `Boots`: fairness and `ENABLED` are out of the prover's
reach), and the five violations.

## Not modelled, and why

- Getters of `config.c`: they read a JSON tree that never changes after the boot;
  what those of the network and of the log return for a section that is missing
  is in `Network`.
- Pages of `httpd.c` that write nothing; the restart page is a `Restart`.
- Driver set-up of `wifi.c`, `eth.c`, `ir.c` and `power_detector.c`, and the
  credentials; `wifi_disconnect`, whose effects a reset follows.
- What the lines of the log say, and the static buffer they are made in.
- The set-up of mDNS and of the HTTP server in `app_main`; topics of the free heap
  and of versions, which have no state.
- `resolve.c`: a query without state. The web page and the scripts.
- Loss of memory: every `malloc` of the handlers is taken to succeed.
- The matching of an MQTT message to a subscription: exact comparison of names.
  `mqtt_unsubscribe_topic_prefix`, which has no caller.

## Plan

Done, in this order: `Ac` and `AcMitm` with `ChangeFeed` (the program's own logic),
their proofs, `PowerLoop`, `Ota`, `Mqtt`, `Manchester`; then `Network` with the log,
files and faults of `Ota`, the receiver and the liveness of `PowerLoop`, the
messages of `Mqtt`, and the proofs of `PowerLoop`, `Network`, `Ota` and `Mqtt`; then
the refinement of `ChangeFeed`, `TwoSlots` with its refinement, and the proofs of
`Manchester`.

Next:

1. Bounds that the liveness properties rest on and that are safety: how many
   change events one handler posts, how often a reading is repeated.
2. An abstract specification of publication through `mqtt.c` (each message is with
   the broker, waiting, or given up), and `Mqtt` shown to implement it.
