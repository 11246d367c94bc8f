------------------------------ MODULE Network ------------------------------
(***************************************************************************)
(* The network: wifi.c, eth.c, the end of app_main, log.c, and the         *)
(* handlers of ac_mitm.c that follow the network.  The interface announces *)
(* what happens to it to the default event loop of ESP-IDF, whose task     *)
(* runs event_handler; that posts to event_queue, waits for room in it     *)
(* without limit, and joins the network again.  ac_mitm_task starts and    *)
(* stops the remote log and the MQTT client, and asks Wi-Fi to reconnect   *)
(* when the client has failed three times.                                 *)
(*                                                                         *)
(* The interface, the DHCP client, the sockets and the MQTT client are     *)
(* external; of the client only its sessions are kept (Mqtt has the rest). *)
(***************************************************************************)
EXTENDS Integers, Sequences

CONSTANTS
  QueueLen,    \* slots of event_queue
  Span,        \* values of num_disconnections, 2^8 in the code
  Configs,     \* configurations the device may have
  MaxTrouble   \* bound: what the world does to the device

Configurations ==
  [failed : BOOLEAN,          \* no configuration could be loaded
   net : {"wifi", "eth"},     \* config_network_type_get
   emac : BOOLEAN,            \* CONFIG_ETH_USE_ESP32_EMAC: the chip has Ethernet
                              \*   (the ESP32-S3 of sdkconfig.defaults has not)
   example : BOOLEAN,         \* the ssid is MY_SSID: that of the example, and
                              \*   what is read where there is no wifi section
   log : BOOLEAN]             \* a remote log is configured

ASSUME QueueAssumption  == QueueLen \in Nat \ {0}
ASSUME SpanAssumption   == Span \in Nat \ {0}
ASSUME ConfigAssumption ==
  /\ Configs \subseteq Configurations
  /\ \A c \in Configs : c.failed => c.net = "wifi" /\ ~c.example /\ ~c.log
ASSUME BoundAssumption  == MaxTrouble \in Nat

VARIABLES
  config,           \* the configuration
  app,              \* app_main: "init", "start", "flag", "done"
  driver,           \* the interface that was initialized
  link,             \* what it does: "off", "idle", "joining", "joined"; "ap"
  netif, address,   \* is it up for ESP-IDF, and has it an address?
  events,           \* the default event loop's queue
  loop,             \* its task: "wait", or what event_handler has to do
  shouldReconnect,  \* should_reconnect of wifi.c
  queue,            \* event_queue, as far as it is about the network
  pc,               \* ac_mitm_task: "idle", or where its handler is
  disconnections,   \* num_disconnections
  client, mpc,      \* the MQTT client's session; what its task has to post
  sock, hook, orig, \* sock >= 0, what esp_log calls, orig_esp_log (log.c)
  air,              \* is there a network to join?
  mute,             \* does it carry nothing, though it was joined?
  trouble,          \* of what MaxTrouble bounds
  unflagged,        \* history: a disconnection was handled before
                    \*   should_reconnect was set
  twice,            \* history: connected twice, not disconnected in between
  leaked,           \* history: an open socket was forgotten
  late              \* history: the last address came after a disconnection
                    \*   the event loop had not handled

interface == <<driver, link, netif, address, events, mute>>
handler   == <<loop, shouldReconnect>>
task      == <<pc, disconnections>>
mqtt      == <<client, mpc>>
log       == <<sock, hook, orig, leaked>>
world     == <<config, air, trouble>>
history   == <<unflagged, twice, late>>
vars == <<app, interface, handler, queue, task, mqtt, log, world, history>>

TypeOK ==
  /\ config \in Configs
  /\ app \in {"init", "start", "flag", "done"}
  /\ driver \in {"none", "wifi", "eth"}
  /\ link \in {"off", "idle", "joining", "joined", "ap"}
  /\ (link # "off" => driver # "none")
  /\ netif \in BOOLEAN /\ address \in BOOLEAN
  /\ events \in Seq({"START", "CONNECTED", "DISCONNECTED", "GOT_IP"})
  /\ loop \in {"wait", "post_up", "post_down", "reconnect"}
  /\ shouldReconnect \in BOOLEAN
  /\ queue \in Seq({"NETWORK_CONNECTED", "NETWORK_DISCONNECTED",
                    "MQTT_CONNECTED", "MQTT_DISCONNECTED"})
  /\ Len(queue) <= QueueLen
  /\ pc \in {"idle", "mqtt_connect", "mqtt_disconnect", "publish", "cleanup"}
  /\ disconnections \in 0 .. Span - 1
  /\ client \in {"none", "starting", "online", "waiting"}
  /\ mpc \in {"wait", "post_up", "post_down"}
  /\ sock \in BOOLEAN
  /\ hook \in {"console", "remote"} /\ orig \in {"null", "console", "remote"}
  /\ (hook = "remote" => orig # "null")
  /\ air \in BOOLEAN /\ mute \in BOOLEAN /\ (mute => link = "joined")
  /\ trouble \in 0 .. MaxTrouble
  /\ unflagged \in BOOLEAN /\ twice \in BOOLEAN
  /\ leaked \in BOOLEAN /\ late \in BOOLEAN

Init ==
  /\ config \in Configs /\ air \in BOOLEAN /\ trouble = 0
  /\ app = "init" /\ driver = "none" /\ link = "off" /\ mute = FALSE
  /\ netif = FALSE /\ address = FALSE
  /\ events = <<>> /\ loop = "wait" /\ shouldReconnect = FALSE
  /\ queue = <<>> /\ pc = "idle" /\ disconnections = 0
  /\ client = "none" /\ mpc = "wait"
  /\ sock = FALSE /\ hook = "console" /\ orig = "null"
  /\ unflagged = FALSE /\ twice = FALSE /\ leaked = FALSE /\ late = FALSE

(* abort(), or a failing ESP_ERROR_CHECK: the program starts again.        *)
Reboot ==
  /\ app' = "init" /\ driver' = "none" /\ link' = "off" /\ mute' = FALSE
  /\ netif' = FALSE /\ address' = FALSE
  /\ events' = <<>> /\ loop' = "wait" /\ shouldReconnect' = FALSE
  /\ queue' = <<>> /\ pc' = "idle" /\ disconnections' = 0
  /\ client' = "none" /\ mpc' = "wait"
  /\ sock' = FALSE /\ hook' = "console" /\ orig' = "null"
  /\ unflagged' = FALSE /\ twice' = FALSE /\ leaked' = FALSE /\ late' = FALSE
  /\ UNCHANGED <<config, air>>

Trouble == trouble < MaxTrouble /\ trouble' = trouble + 1

(* The device is reset from outside, or resets after an update (reset).    *)
Restart == Trouble /\ Reboot

-----------------------------------------------------------------------------
(* app_main, the network's part of it                                      *)

\* slip: only Wi-Fi that is to be joined is initialized
InitializeLate ==
  /\ app = "init" /\ app' = "start"
  /\ driver' = IF config.failed THEN "none" ELSE config.net
  /\ UNCHANGED <<link, netif, address, events, mute, handler, queue, task,
                 mqtt, log, world, history>>

Missing == config.net = "eth" /\ ~config.emac

(* wifi_initialize or eth_initialize, and all that follows                 *)
Initialize ==
  /\ app = "init" /\ app' = "start"
  /\ driver' = IF Missing THEN "none" ELSE config.net
  /\ UNCHANGED <<link, netif, address, events, mute, handler, queue, task,
                 mqtt, log, world, history>>

(* eth_initialize returns -1, which does not pass ESP_ERROR_CHECK.         *)
NoEthernet == app = "start" /\ Missing /\ Reboot /\ UNCHANGED trouble

OwnAccessPoint == config.failed \/ config.example

(* wifi_start_ap works with Wi-Fi that is initialized, and else aborts.    *)
StartAp ==
  /\ app = "start" /\ OwnAccessPoint
  /\ \/ /\ driver = "wifi"
        /\ app' = "done" /\ link' = "ap"
        /\ UNCHANGED <<driver, netif, address, events, mute, handler, queue,
                       task, mqtt, log, world, history>>
     \/ driver = "eth" /\ Reboot /\ UNCHANGED trouble

(* wifi_connect starts Wi-Fi, and only then sets should_reconnect.         *)
WifiConnect ==
  /\ app = "start" /\ ~OwnAccessPoint /\ driver = "wifi"
  /\ app' = "flag"
  /\ link' = "idle" /\ events' = Append(events, "START")
  /\ UNCHANGED <<driver, netif, address, mute, handler, queue, task, mqtt, log,
                 world, history>>

SetReconnect ==
  /\ app = "flag" /\ app' = "done"
  /\ shouldReconnect' = TRUE
  /\ UNCHANGED <<interface, loop, queue, task, mqtt, log, world, history>>

(* From here on the port joins by itself whenever there is a network.      *)
EthConnect ==
  /\ app = "start" /\ ~OwnAccessPoint /\ driver = "eth"
  /\ app' = "done" /\ link' = "joining"
  /\ UNCHANGED <<driver, netif, address, events, mute, handler, queue, task,
                 mqtt, log, world, history>>

AppMain == Initialize \/ NoEthernet \/ StartAp \/ WifiConnect \/ SetReconnect \/ EthConnect

-----------------------------------------------------------------------------
(* The interface, and the DHCP client.  A change that has a cause in the   *)
(* world needs none of the bound.                                          *)

WorldOnly == <<app, handler, queue, task, mqtt, log, config, history>>

(* The interface leaves, or gives up joining; Wi-Fi does not try again by  *)
(* itself.                                                                 *)
Leave == /\ link' = IF driver = "wifi" THEN "idle" ELSE "joining"
         /\ mute' = FALSE
         /\ events' = Append(events, "DISCONNECTED")
         /\ UNCHANGED <<driver, netif, address>>

Join ==
  /\ link = "joining" /\ air
  /\ link' = "joined" /\ events' = Append(events, "CONNECTED")
  /\ UNCHANGED <<WorldOnly, driver, netif, address, mute, air, trouble>>

NotJoined ==
  /\ link = "joining" /\ driver = "wifi"
  /\ Leave
  /\ IF air THEN Trouble ELSE UNCHANGED trouble
  /\ UNCHANGED <<WorldOnly, air>>

Left ==
  /\ link = "joined"
  /\ Leave
  /\ IF air THEN Trouble ELSE UNCHANGED trouble
  /\ UNCHANGED <<WorldOnly, air>>

Disconnecting == \E i \in 1 .. Len(events) : events[i] = "DISCONNECTED"

AnnounceAddress == /\ events' = Append(events, "GOT_IP")
                   /\ late' = Disconnecting

AddressOnly == <<app, driver, link, netif, handler, queue, task, mqtt, log,
                 config, air, unflagged, twice>>

(* An address comes as long as the event loop has not taken the interface  *)
(* down, also when the network has just gone (which the bound counts).     *)
GotIp ==
  /\ netif /\ ~address
  /\ address' = TRUE /\ AnnounceAddress
  /\ IF Disconnecting THEN Trouble ELSE UNCHANGED trouble
  /\ UNCHANGED <<AddressOnly, mute>>

NewAddress ==
  /\ netif /\ address /\ link = "joined" /\ ~mute /\ Trouble
  /\ AnnounceAddress
  /\ UNCHANGED <<AddressOnly, mute, address>>

(* The network is there and carries nothing, until it is joined anew.      *)
Mute ==
  /\ link = "joined" /\ address /\ ~mute /\ Trouble
  /\ mute' = TRUE
  /\ UNCHANGED <<WorldOnly, driver, link, netif, address, events, air>>

AirMoves ==
  /\ Trouble /\ air' = ~air
  /\ UNCHANGED <<WorldOnly, interface>>

-----------------------------------------------------------------------------
(* The task of the default event loop: event_handler of wifi.c and eth.c   *)

\* slip: the queue takes one event too many
HasRoom1More == Len(queue) <= QueueLen

HasRoom == Len(queue) < QueueLen

Post(e) == HasRoom /\ queue' = Append(queue, e)

(* esp_wifi_connect *)
Connect == link' = IF link = "idle" THEN "joining" ELSE link

TakeEvent(e) == loop = "wait" /\ events # <<>> /\ Head(events) = e
                /\ events' = Tail(events)

StaStart ==
  /\ TakeEvent("START")
  /\ Connect
  /\ UNCHANGED <<app, driver, netif, address, mute, handler, queue, task, mqtt,
                 log, world, history>>

Connected ==
  /\ TakeEvent("CONNECTED")
  /\ netif' = TRUE
  /\ UNCHANGED <<app, driver, link, address, mute, handler, queue, task, mqtt,
                 log, world, history>>

Disconnected ==
  /\ TakeEvent("DISCONNECTED")
  /\ netif' = FALSE /\ address' = FALSE
  /\ loop' = "post_down"
  /\ UNCHANGED <<app, driver, link, mute, shouldReconnect, queue, task, mqtt,
                 log, world, history>>

\* slip: the report is dropped when the queue is full
PostDisconnectedOrNot ==
  /\ loop = "post_down"
  /\ queue' = IF HasRoom THEN Append(queue, "NETWORK_DISCONNECTED") ELSE queue
  /\ loop' = IF driver = "wifi" THEN "reconnect" ELSE "wait"
  /\ UNCHANGED <<app, interface, shouldReconnect, task, mqtt, log, world,
                 history>>

PostDisconnected ==
  /\ loop = "post_down" /\ Post("NETWORK_DISCONNECTED")
  /\ loop' = IF driver = "wifi" THEN "reconnect" ELSE "wait"
  /\ UNCHANGED <<app, interface, shouldReconnect, task, mqtt, log, world,
                 history>>

\* slip: Wi-Fi that has not joined is not told to try again
ReconnectOnce ==
  /\ loop = "reconnect" /\ loop' = "wait"
  /\ IF shouldReconnect /\ client # "none" THEN Connect ELSE UNCHANGED link
  /\ unflagged' = (unflagged \/ ~shouldReconnect)
  /\ UNCHANGED <<app, driver, netif, address, events, mute, shouldReconnect,
                 queue, task, mqtt, log, world, twice, late>>

Reconnect ==
  /\ loop = "reconnect" /\ loop' = "wait"
  /\ IF shouldReconnect THEN Connect ELSE UNCHANGED link
  /\ unflagged' = (unflagged \/ ~shouldReconnect)
  /\ UNCHANGED <<app, driver, netif, address, events, mute, shouldReconnect,
                 queue, task, mqtt, log, world, twice, late>>

GotIpEvent ==
  /\ TakeEvent("GOT_IP")
  /\ loop' = "post_up"
  /\ UNCHANGED <<app, driver, link, netif, address, mute, shouldReconnect,
                 queue, task, mqtt, log, world, history>>

PostConnected ==
  /\ loop = "post_up" /\ Post("NETWORK_CONNECTED")
  /\ loop' = "wait"
  /\ UNCHANGED <<app, interface, shouldReconnect, task, mqtt, log, world,
                 history>>

EventLoop == \/ StaStart \/ Connected \/ Disconnected \/ PostDisconnected
             \/ Reconnect \/ GotIpEvent \/ PostConnected

-----------------------------------------------------------------------------
(* The task of the MQTT client                                             *)

Passes == link = "joined" /\ address /\ ~mute

ClientConnects ==
  /\ mpc = "wait" /\ client \in {"starting", "waiting"} /\ Passes
  /\ client' = "online" /\ mpc' = "post_up"
  /\ UNCHANGED <<app, interface, handler, queue, task, log, world, history>>

\* nothing is on its way to a task, or being handled
Quiet == /\ events = <<>> /\ loop = "wait"
         /\ queue = <<>> /\ pc = "idle" /\ mpc = "wait"

(* A session ends, or cannot be started.  The client then waits for 10 s   *)
(* before it tries again, in which the tasks do what they have to do.      *)
ClientDisconnected ==
  /\ mpc = "wait" /\ client # "none"
  /\ client = "waiting" => Quiet
  /\ IF Passes THEN Trouble ELSE UNCHANGED trouble
  /\ client' = "waiting" /\ mpc' = "post_down"
  /\ UNCHANGED <<app, interface, handler, queue, task, log, config, air,
                 history>>

ClientPosts ==
  /\ \/ mpc = "post_up" /\ Post("MQTT_CONNECTED")
     \/ mpc = "post_down" /\ Post("MQTT_DISCONNECTED")
  /\ mpc' = "wait"
  /\ UNCHANGED <<app, interface, handler, task, client, log, world, history>>

Client == ClientConnects \/ ClientDisconnected \/ ClientPosts

-----------------------------------------------------------------------------
(* log_start and log_stop *)

\* slip: a socket that was closed is not forgotten
LogFailsOpen == sock' = TRUE /\ UNCHANGED <<hook, orig, leaked>>

(* No address, no socket, or no connection: the socket at hand is closed.  *)
LogFails == /\ sock' = FALSE
            /\ leaked' \in {leaked, leaked \/ sock}
            /\ UNCHANGED <<hook, orig>>

(* The one at hand before is left open and forgotten.                      *)
LogStarts == /\ sock' = TRUE /\ leaked' = (leaked \/ sock)
             /\ orig' = hook /\ hook' = "remote"

LogStart == \/ config.log /\ (LogStarts \/ LogFails)
            \/ ~config.log /\ UNCHANGED log

LogStop == /\ hook' = IF sock THEN orig ELSE hook
           /\ sock' = FALSE
           /\ UNCHANGED <<orig, leaked>>

(* log_vprintf calls orig_esp_log, which is log_vprintf: the first line    *)
(* that anybody logs is the end.                                           *)
LogsItself == hook = "remote" /\ orig = "remote"

Overflow == LogsItself /\ Reboot /\ UNCHANGED trouble

-----------------------------------------------------------------------------
(* ac_mitm_task *)

Take(e) == pc = "idle" /\ queue # <<>> /\ Head(queue) = e /\ queue' = Tail(queue)

(* A call into the client waits for its lock.                              *)
MayCall == mpc = "wait" \/ client = "none"

NetworkOnConnected ==
  /\ Take("NETWORK_CONNECTED")
  /\ LogStart
  /\ twice' = (twice \/ client # "none")
  /\ pc' = "mqtt_connect"
  /\ UNCHANGED <<app, interface, handler, disconnections, mqtt, world,
                 unflagged, late>>

MqttConnect ==
  /\ pc = "mqtt_connect" /\ pc' = "idle"
  /\ ~LogsItself /\ MayCall
  /\ client' = "starting"
  /\ UNCHANGED <<app, interface, handler, queue, disconnections, mpc, log,
                 world, history>>

NetworkOnDisconnected ==
  /\ Take("NETWORK_DISCONNECTED")
  /\ LogStop
  /\ pc' = "mqtt_disconnect"
  /\ UNCHANGED <<app, interface, handler, disconnections, mqtt, world,
                 history>>

MqttDisconnect ==
  /\ pc = "mqtt_disconnect" /\ pc' = "idle"
  /\ MayCall
  /\ client' = "none"
  /\ UNCHANGED <<app, interface, handler, queue, disconnections, mpc, log,
                 world, history>>

MqttOnConnected ==
  /\ Take("MQTT_CONNECTED") /\ pc' = "publish"
  /\ UNCHANGED <<app, interface, handler, disconnections, mqtt, log, world,
                 history>>

Publish ==
  /\ pc = "publish" /\ pc' = "idle"
  /\ client = "online" => MayCall
  /\ UNCHANGED <<app, interface, handler, queue, disconnections, mqtt, log,
                 world, history>>

MqttOnDisconnected ==
  /\ Take("MQTT_DISCONNECTED") /\ pc' = "cleanup"
  /\ UNCHANGED <<app, interface, handler, disconnections, mqtt, log, world,
                 history>>

AsksToReconnect == disconnections' % 3 = 0

(* Every third disconnection has Wi-Fi leave (wifi_reconnect); it is       *)
(* joined again when the event loop hears of that.                         *)
CleanUp ==
  /\ pc = "cleanup" /\ pc' = "idle"
  /\ client = "online" => MayCall
  /\ disconnections' = (disconnections + 1) % Span
  /\ IF AsksToReconnect /\ driver = "wifi" /\ link \in {"joining", "joined"}
     THEN Leave ELSE UNCHANGED interface
  /\ UNCHANGED <<app, handler, queue, mqtt, log, world, history>>

Task == \/ NetworkOnConnected \/ MqttConnect
        \/ NetworkOnDisconnected \/ MqttDisconnect
        \/ MqttOnConnected \/ Publish \/ MqttOnDisconnected \/ CleanUp

-----------------------------------------------------------------------------
Next == \/ AppMain \/ EventLoop \/ Client \/ Task \/ Overflow
        \/ Join \/ NotJoined \/ Left \/ GotIp \/ NewAddress \/ Mute
        \/ AirMoves \/ Restart

Spec == Init /\ [][Next]_vars

(* The tasks run when they are ready; the one of the event loop has the    *)
(* highest priority of those that wait for the queue, and so gets a slot.  *)
(* The interface tries what it was told to try.                            *)
Fairness ==
  /\ WF_vars(AppMain) /\ WF_vars(Client) /\ WF_vars(Task) /\ WF_vars(Overflow)
  /\ SF_vars(EventLoop)
  /\ WF_vars(Join \/ NotJoined) /\ WF_vars(Left) /\ WF_vars(GotIp)

FairSpec == Spec /\ Fairness

-----------------------------------------------------------------------------
(* Once all reports are handled there is an MQTT client exactly if there   *)
(* is an address, in whatever order networks came, went and changed        *)
(* addresses while the reports of earlier ones waited; unless an address   *)
(* was announced late.                                                     *)
(* [event_handler, network_on_connected, network_on_disconnected]          *)
ClientFollowsNetwork == Quiet /\ ~late => (client # "none" <=> address)

(* The log's socket is open only while the output is hooked, the output is *)
(* hooked only while there is a client, and no socket is forgotten,        *)
(* whatever fails when the log is started; unless it was started twice.    *)
(* [log_start, log_stop, network_on_connected, network_on_disconnected]    *)
LogFollowsNetwork ==
  ~twice => /\ ~LogsItself /\ ~leaked
            /\ sock <=> hook = "remote"
            /\ pc = "idle" /\ client = "none" => ~sock

(* ac_mitm_task waits for the client's lock, and the client's task waits   *)
(* for a slot of the queue.                                                *)
Embrace ==
  /\ pc \in {"mqtt_connect", "mqtt_disconnect"} \/ client = "online"
  /\ pc # "idle" /\ client # "none"
  /\ mpc # "wait" /\ Len(queue) = QueueLen

(* An access point is to be started without Wi-Fi, or there is no Ethernet *)
(* to initialize: the program starts again and again.                      *)
BootLoop == config.net = "eth" /\ (config.example \/ ~config.emac)

(* What keeps the device offline although the world is at peace: no        *)
(* network, its own access point, both tasks waiting for each other, a     *)
(* disconnection before should_reconnect was set, a mute Ethernet, and a   *)
(* program that never gets through app_main.                               *)
Excused == \/ ~air \/ link = "ap" \/ Embrace \/ unflagged
           \/ driver = "eth" /\ mute
           \/ BootLoop

(* The device comes back online and stays there, after any losses, resets, *)
(* failures to join and changes of address, and when the network carries   *)
(* nothing: the client's failures then have Wi-Fi join anew.               *)
(* [event_handler, wifi_connect, mqtt_on_disconnected, wifi_reconnect]     *)
BackOnline == <>[](client = "online") \/ <>[]Excused

(* Whatever the configuration, app_main ends with a network, its own or    *)
(* the one configured, except in a boot loop.                              *)
(* [app_main, wifi_initialize, eth_initialize, wifi_start_ap]              *)
Boots == ~BootLoop => (app = "init" ~> app = "done")

(* "The network section should contain either a wifi section or an eth     *)
(* section" (README.md:75): with just one of them, app_main ends.          *)
(* [app_main, eth_initialize, config_network_wifi_ssid_get, wifi_start_ap] *)
EitherSectionBoots == app = "init" ~> app = "done"
=============================================================================
