-------------------------------- MODULE Mqtt --------------------------------
(***************************************************************************)
(* src/main/mqtt.c and the handlers of ac_mitm.c that use it.  Two tasks   *)
(* share its lists and flags without a lock: ac_mitm_task, which connects, *)
(* subscribes and publishes, and the task of the MQTT client, which runs   *)
(* mqtt_event_cb when a session with the broker starts or ends, or brings  *)
(* a message.  The client has a lock of its own: it holds it while         *)
(* mqtt_event_cb runs, and every call of ac_mitm_task into the client      *)
(* waits for it.                                                           *)
(*                                                                         *)
(* Of the state topics one is kept: the n-th publication of it is the      *)
(* number n.  A step of ac_mitm_task ends where it can see, or be seen by, *)
(* the other task.                                                         *)
(***************************************************************************)
EXTENDS Integers, Sequences, FiniteSets

CONSTANTS
  QueueLen,     \* slots of event_queue
  Commands,     \* topics that are subscribed to, in order
  MaxChanges,   \* bound: changes of the state and events of the heartbeat
                \*   timer
  MaxDrops,     \* bound: sessions lost and attempts to connect that fail
  MaxMoves,     \* bound: times the network comes, goes or changes address
  MaxMessages   \* bound: messages of command topics

ASSUME QueueAssumption   == QueueLen \in Nat \ {0}
ASSUME CommandAssumption == Commands \in Seq(STRING)
ASSUME BoundAssumption   ==
  {MaxChanges, MaxDrops, MaxMoves, MaxMessages} \subseteq Nat

VARIABLES
  isConnected,  \* is_connected
  subs,         \* subscription_list
  pubs,         \* publications_list
  client,       \* mqtt_handle, by its session: "none" (no client),
                \*   "offline", "online", "lost" (gone, and not yet noticed)
  remote,       \* topics the broker has subscribed for the session
  delivered,    \* publications of the state topic the broker got, in order
  mpc,          \* the client's task: "wait" outside mqtt_event_cb, or where
                \*   it is inside
  flushing,     \* what mqtt_publications_publish has still to publish
  walk,         \* mqtt_message_cb: the topic of the message, the place it is
                \*   at in the list, how often it called back; and (history)
                \*   whether the topic's subscription was changing then
  queue,        \* event_queue
  pc,           \* ac_mitm_task
  todo,         \* what its handler has still to publish
  after,        \* what it does after that
  i,            \* the topic it is at
  link,         \* is the network up?
  last,         \* publications of the state topic so far
  count,        \* of what MaxChanges, ... bound
  torn,         \* history: both tasks were at work on one list
  troubled      \* history: a publication was sent without a session, or was
                \*   being added to the list when the list was flushed

lists   == <<subs, pubs>>
session == <<client, remote, delivered>>
clientTask == <<mpc, flushing, walk>>
task    == <<pc, todo, after, i>>
world   == <<link, last, count>>
history == <<torn, troubled>>
vars    == <<isConnected, lists, session, clientTask, queue, task, world,
             history>>

(* Publications that are not of the state topic, and the wish to publish   *)
(* an uptime.                                                              *)
Status    == 0
Uptime    == -1
Heartbeat == -2

Bounds == [change |-> MaxChanges, drop |-> MaxDrops,
           move |-> MaxMoves, message |-> MaxMessages]

Count(what) == /\ count[what] < Bounds[what]
               /\ count' = [count EXCEPT ![what] = @ + 1]

RangeOf(s) == {s[j] : j \in DOMAIN s}

NoWalk == [topic |-> "none", at |-> 1, hits |-> 0, changing |-> FALSE]

TypeOK ==
  /\ isConnected \in BOOLEAN
  /\ subs \in Seq(RangeOf(Commands))
  /\ last \in Nat /\ pubs \in Seq(Uptime .. last)
  /\ client \in {"none", "offline", "online", "lost"}
  /\ remote \subseteq RangeOf(Commands)
  /\ (remote # {} => client = "online")
  /\ delivered \in Seq(1 .. last)
  /\ mpc \in {"wait", "flush", "free", "post up", "clear", "post down",
             "data"}
  /\ walk \in [topic : RangeOf(Commands) \union {"none"}, at : Nat, hits : Nat,
               changing : BOOLEAN]
  /\ flushing \in Seq(Uptime .. last)
  /\ queue \in Seq({"NETWORK_CONNECTED", "NETWORK_DISCONNECTED",
                    "MQTT_CONNECTED", "MQTT_DISCONNECTED", "CHANGED",
                    "HEARTBEAT_TIMER", "MESSAGE"})
  /\ Len(queue) <= QueueLen
  /\ pc \in {"idle", "publish", "send", "add", "subscribe", "list",
             "unsubscribe", "unlisted", "connect", "destroy"}
  /\ todo \in Seq(Heartbeat .. last)
  /\ after \in {"idle", "subscribe"}
  /\ i \in 1 .. Len(Commands) + 1
  /\ link \in BOOLEAN
  /\ count \in [DOMAIN Bounds -> Nat]
  /\ \A b \in DOMAIN Bounds : count[b] <= Bounds[b]
  /\ torn \in BOOLEAN /\ troubled \in BOOLEAN

Init ==
  /\ isConnected = FALSE /\ subs = <<>> /\ pubs = <<>>
  /\ client = "none" /\ remote = {} /\ delivered = <<>>
  /\ mpc = "wait" /\ flushing = <<>> /\ walk = NoWalk
  /\ queue = <<>>
  /\ pc = "idle" /\ todo = <<>> /\ after = "idle" /\ i = 1
  /\ link = FALSE /\ last = 0 /\ count = [b \in DOMAIN Bounds |-> 0]
  /\ torn = FALSE /\ troubled = FALSE

-----------------------------------------------------------------------------
\* slip: the queue takes one event too many
HasRoom1More == Len(queue) <= QueueLen

\* slip: a slot is always kept free
HasRoomBut1 == Len(queue) < QueueLen - 1

HasRoom == Len(queue) < QueueLen

Post(e) == HasRoom /\ queue' = Append(queue, e)

(* Other tasks.  A change of address is announced like a connection.       *)
NetworkUp ==
  /\ Count("move") /\ Post("NETWORK_CONNECTED")
  /\ link' = TRUE
  /\ UNCHANGED <<isConnected, lists, session, clientTask, task, last, history>>

NetworkDown ==
  /\ link
  /\ Count("move") /\ Post("NETWORK_DISCONNECTED")
  /\ link' = FALSE
  /\ UNCHANGED <<isConnected, lists, session, clientTask, task, last, history>>

Others == /\ Count("change")
          /\ Post("CHANGED") \/ Post("HEARTBEAT_TIMER")
          /\ UNCHANGED <<isConnected, lists, session, clientTask, task, link,
                         last, history>>

-----------------------------------------------------------------------------
(* The task of the client *)

(* The broker gets p, if there is a session.                               *)
Deliver(p) ==
  /\ delivered' = IF client = "online" /\ p > 0 THEN Append(delivered, p)
                  ELSE delivered
  /\ troubled' = (troubled \/ client # "online")
  /\ UNCHANGED <<client, remote>>

(* MQTT_EVENT_CONNECTED *)
\* slip: is_connected is not set
ConnectedUnset ==
  /\ mpc = "wait" /\ client = "offline" /\ link
  /\ client' = "online"
  /\ mpc' = "post up" /\ UNCHANGED <<flushing, walk, isConnected>>
  /\ UNCHANGED <<lists, remote, delivered, queue, task, world, history>>

Connected ==
  /\ mpc = "wait" /\ client = "offline" /\ link
  /\ client' = "online"
  /\ isConnected' = TRUE
  /\ mpc' = "flush" /\ flushing' = pubs
  /\ UNCHANGED <<walk, lists, remote, delivered, queue, task, world, history>>

(* mqtt_publications_publish, by mqtt_publish                              *)
\* slip: the last publication of the list is not reached
FlushShort ==
  /\ mpc = "flush" /\ flushing # <<>>
  /\ flushing' = IF Len(flushing) = 2 THEN <<>> ELSE Tail(flushing)
  /\ Deliver(Head(flushing))
  /\ UNCHANGED <<isConnected, lists, mpc, walk, queue, task, world, torn>>

Flush ==
  /\ mpc = "flush" /\ flushing # <<>>
  /\ flushing' = Tail(flushing)
  /\ \/ isConnected /\ Deliver(Head(flushing)) /\ UNCHANGED pubs
     \/ /\ ~isConnected
        /\ pubs' = <<Head(flushing)>> \o pubs
        /\ troubled' = TRUE
        /\ UNCHANGED session
  /\ UNCHANGED <<isConnected, subs, mpc, walk, queue, task, world, torn>>

Flushed ==
  /\ mpc = "flush" /\ flushing = <<>>
  /\ mpc' = "free"
  /\ UNCHANGED <<isConnected, lists, session, flushing, walk, queue, task, world,
                 history>>

(* mqtt_publications_free *)
\* slip: what was published stays in the list
FreeNothing ==
  /\ mpc = "free" /\ mpc' = "post up"
  /\ UNCHANGED <<isConnected, lists, session, flushing, walk, queue, task, world,
                 history>>

Free ==
  /\ mpc = "free" /\ mpc' = "post up"
  /\ pubs' = <<>>
  /\ UNCHANGED <<isConnected, subs, session, flushing, walk, queue, task, world,
                 history>>

PostConnected ==
  /\ mpc = "post up" /\ mpc' = "wait"
  /\ Post("MQTT_CONNECTED")
  /\ UNCHANGED <<isConnected, lists, session, flushing, walk, task, world, history>>

(* MQTT_EVENT_DISCONNECTED: the session has gone, or a connection failed.  *)
Disconnected ==
  /\ mpc = "wait" /\ mpc' = "clear"
  /\ \/ client = "lost" /\ UNCHANGED count
     \/ client = "offline" /\ Count("drop")
  /\ client' = "offline"
  /\ isConnected' = FALSE
  /\ UNCHANGED <<lists, remote, delivered, flushing, walk, queue, task, link, last,
                 history>>

Clear ==
  /\ mpc = "clear" /\ mpc' = "post down"
  /\ subs' = <<>>
  /\ UNCHANGED <<isConnected, pubs, session, flushing, walk, queue, task, world,
                 history>>

PostDisconnected ==
  /\ mpc = "post down" /\ mpc' = "wait"
  /\ Post("MQTT_DISCONNECTED")
  /\ UNCHANGED <<isConnected, lists, session, flushing, walk, task, world, history>>

(* MQTT_EVENT_DATA: a message of a topic that the broker has subscribed.   *)
Changing(t) == \/ pc = "destroy"
               \/ pc \in {"list", "unlisted"} /\ Commands[i] = t

MessageArrives ==
  /\ mpc = "wait" /\ client = "online" /\ Count("message")
  /\ mpc' = "data"
  /\ \E t \in remote :
       walk' = [topic |-> t, at |-> 1, hits |-> 0, changing |-> Changing(t)]
  /\ UNCHANGED <<isConnected, lists, session, flushing, queue, task, link, last,
                 history>>

(* mqtt_message_cb walks the list, and the callback of every entry for the *)
(* topic posts the message and waits for room.                             *)
AtEntry == walk.at <= Len(subs) /\ subs[walk.at] = walk.topic

MessageCallback ==
  /\ mpc = "data" /\ AtEntry
  /\ Post("MESSAGE")
  /\ walk' = [walk EXCEPT !.at = @ + 1, !.hits = @ + 1]
  /\ UNCHANGED <<isConnected, lists, session, mpc, flushing, task, world,
                 history>>

\* slip: the walk ends at the first entry that is for another topic
MessageOtherEnds ==
  /\ mpc = "data" /\ walk.at <= Len(subs) /\ subs[walk.at] # walk.topic
  /\ walk' = [walk EXCEPT !.at = Len(subs) + 1]
  /\ UNCHANGED <<isConnected, lists, session, mpc, flushing, queue, task, world,
                 history>>

MessageOther ==
  /\ mpc = "data" /\ walk.at <= Len(subs) /\ subs[walk.at] # walk.topic
  /\ walk' = [walk EXCEPT !.at = @ + 1]
  /\ UNCHANGED <<isConnected, lists, session, mpc, flushing, queue, task, world,
                 history>>

MessageDone ==
  /\ mpc = "data" /\ walk.at > Len(subs)
  /\ mpc' = "wait" /\ walk' = NoWalk
  /\ UNCHANGED <<isConnected, lists, session, flushing, queue, task, world,
                 history>>

(* The session breaks; the broker forgets its subscriptions.               *)
SessionLost ==
  /\ client = "online" /\ client' = "lost"
  /\ Count("drop")
  /\ remote' = {}
  /\ UNCHANGED <<isConnected, lists, delivered, clientTask, queue, task, link,
                 last, history>>

-----------------------------------------------------------------------------
(* ac_mitm_task takes an event.                                            *)

Take(e) == pc = "idle" /\ queue # <<>> /\ Head(queue) = e /\ queue' = Tail(queue)

(* A call into the client waits for its lock; without a client it returns. *)
MayCall == mpc = "wait" \/ client = "none"

(* network_on_connected: mqtt_connect.  An old client is destroyed; then   *)
(* is_connected and the subscriptions are left as they are.  (No remote    *)
(* log is configured: log_start and log_stop do nothing.)                  *)
NetworkOnConnected ==
  /\ Take("NETWORK_CONNECTED")
  /\ pc' = "connect"
  /\ UNCHANGED <<isConnected, lists, session, clientTask, todo, after, i, world,
                 history>>

Connect ==
  /\ pc = "connect" /\ pc' = "idle"
  /\ MayCall
  /\ client' = "offline" /\ remote' = {}
  /\ UNCHANGED <<isConnected, lists, delivered, clientTask, queue, todo, after,
                 i, world, history>>

(* network_on_disconnected: mqtt_disconnect, cleanup.                      *)
NetworkOnDisconnected ==
  /\ Take("NETWORK_DISCONNECTED")
  /\ isConnected' = FALSE
  /\ subs' = <<>> /\ torn' = (torn \/ mpc \in {"clear", "data"})
  /\ pc' = "destroy"
  /\ UNCHANGED <<pubs, session, clientTask, todo, after, i, world, troubled>>

Destroy ==
  /\ pc = "destroy" /\ MayCall
  /\ client' = "none" /\ remote' = {}
  /\ pc' = "unsubscribe" /\ i' = 1
  /\ UNCHANGED <<isConnected, lists, delivered, clientTask, queue, todo, after,
                 world, history>>

StartPublishing(ps, next) ==
  /\ pc' = "publish" /\ todo' = ps /\ after' = next
  /\ UNCHANGED <<isConnected, lists, session, clientTask, i, link, count,
                 history>>

(* mqtt_on_connected: self_publish, and then the subscriptions             *)
MqttOnConnected ==
  /\ Take("MQTT_CONNECTED")
  /\ StartPublishing(<<Status, Heartbeat>>, "subscribe")
  /\ UNCHANGED last

(* mqtt_on_disconnected: cleanup.  (Every third one also has Wi-Fi         *)
(* reconnect, which NetworkDown may always do.)                            *)
MqttOnDisconnected ==
  /\ Take("MQTT_DISCONNECTED")
  /\ pc' = "unsubscribe" /\ i' = 1
  /\ UNCHANGED <<isConnected, lists, session, clientTask, todo, after, world,
                 history>>

(* ac_on_*_changed *)
AcChanged ==
  /\ Take("CHANGED")
  /\ last' = last + 1
  /\ StartPublishing(<<last + 1>>, "idle")

(* What a message does is AcMitm's.                                        *)
OnMessage ==
  /\ Take("MESSAGE")
  /\ UNCHANGED <<isConnected, lists, session, clientTask, task, world, history>>

HeartbeatPublish ==
  /\ Take("HEARTBEAT_TIMER")
  /\ StartPublishing(<<Heartbeat>>, "idle")
  /\ UNCHANGED last

-----------------------------------------------------------------------------
(* mqtt_publish for the publications of a handler                          *)

(* heartbeat_publish: an uptime is published only when connected.          *)
CheckHeartbeat ==
  /\ pc = "publish" /\ todo # <<>> /\ Head(todo) = Heartbeat
  /\ todo' = (IF isConnected THEN <<Uptime>> ELSE <<>>) \o Tail(todo)
  /\ UNCHANGED <<isConnected, lists, session, clientTask, queue, pc, after, i,
                 world, history>>

Publish ==
  /\ pc = "publish" /\ todo # <<>> /\ Head(todo) # Heartbeat
  /\ pc' = IF isConnected THEN "send" ELSE "add"
  /\ UNCHANGED <<isConnected, lists, session, clientTask, queue, todo, after, i,
                 world, history>>

Send ==
  /\ pc = "send" /\ MayCall
  /\ Deliver(Head(todo))
  /\ pc' = "publish" /\ todo' = Tail(todo)
  /\ UNCHANGED <<isConnected, lists, clientTask, queue, after, i, world, torn>>

Add ==
  /\ pc = "add"
  /\ pubs' = <<Head(todo)>> \o pubs
  /\ torn' = (torn \/ mpc = "free")
  /\ troubled' = (troubled \/ isConnected)
  /\ pc' = "publish" /\ todo' = Tail(todo)
  /\ UNCHANGED <<isConnected, subs, session, clientTask, queue, after, i, world>>

Published ==
  /\ pc = "publish" /\ todo = <<>>
  /\ pc' = after /\ after' = "idle" /\ i' = 1
  /\ UNCHANGED <<isConnected, lists, session, clientTask, queue, todo, world,
                 history>>

(* mqtt_subscribe *)
Subscribe ==
  /\ pc = "subscribe" /\ i <= Len(Commands)
  /\ isConnected => MayCall
  /\ \/ /\ isConnected /\ client = "online"
        /\ remote' = remote \union {Commands[i]}
        /\ pc' = "list" /\ UNCHANGED i
     \/ /\ ~(isConnected /\ client = "online")
        /\ i' = i + 1 /\ UNCHANGED <<pc, remote>>
  /\ UNCHANGED <<isConnected, lists, client, delivered, clientTask, queue, todo,
                 after, world, history>>

List ==
  /\ pc = "list" /\ pc' = "subscribe" /\ i' = i + 1
  /\ subs' = Append(subs, Commands[i])
  /\ torn' = (torn \/ mpc = "clear")
  /\ UNCHANGED <<isConnected, pubs, session, clientTask, queue, todo, after,
                 world, troubled>>

(* mqtt_unsubscribe *)
Without(t) ==
  \/ t \notin RangeOf(subs) /\ UNCHANGED subs
  \/ \E k \in DOMAIN subs :
       /\ subs[k] = t /\ \A j \in 1 .. k - 1 : subs[j] # t
       /\ subs' = SubSeq(subs, 1, k - 1) \o SubSeq(subs, k + 1, Len(subs))

Unsubscribe ==
  /\ pc = "unsubscribe" /\ i <= Len(Commands)
  /\ Without(Commands[i])
  /\ torn' = (torn \/ mpc \in {"clear", "data"})
  /\ pc' = "unlisted"
  /\ UNCHANGED <<isConnected, pubs, session, clientTask, queue, todo, after, i,
                 world, troubled>>

Unlisted ==
  /\ pc = "unlisted" /\ pc' = "unsubscribe" /\ i' = i + 1
  /\ isConnected => MayCall
  /\ remote' = IF isConnected THEN remote \ {Commands[i]} ELSE remote
  /\ UNCHANGED <<isConnected, lists, client, delivered, clientTask, queue, todo,
                 after, world, history>>

EndOfTopics ==
  /\ pc \in {"subscribe", "unsubscribe"} /\ i > Len(Commands)
  /\ pc' = "idle" /\ i' = 1
  /\ UNCHANGED <<isConnected, lists, session, clientTask, queue, todo, after,
                 world, history>>

-----------------------------------------------------------------------------
TaskStep == \/ NetworkOnConnected \/ Connect
            \/ NetworkOnDisconnected \/ Destroy
            \/ MqttOnConnected \/ MqttOnDisconnected \/ AcChanged
            \/ HeartbeatPublish \/ OnMessage
            \/ CheckHeartbeat \/ Publish \/ Send \/ Add \/ Published
            \/ Subscribe \/ List \/ Unsubscribe \/ Unlisted
            \/ EndOfTopics

ClientStep == \/ Connected \/ Flush \/ Flushed \/ Free \/ PostConnected
              \/ Disconnected \/ Clear \/ PostDisconnected
              \/ MessageCallback \/ MessageOther \/ MessageDone

Next == TaskStep \/ ClientStep \/ SessionLost \/ MessageArrives
        \/ NetworkUp \/ NetworkDown \/ Others

Spec == Init /\ [][Next]_vars

(* The scheduler runs both tasks whenever they are ready.                  *)
FairSpec == Spec /\ WF_vars(TaskStep) /\ WF_vars(ClientStep)

-----------------------------------------------------------------------------
Quiet == queue = <<>> /\ pc = "idle" /\ mpc = "wait"

(* Once everything is handled and there is a session, every command topic  *)
(* is subscribed to, at the broker and in the list, however the events of  *)
(* old and new sessions and of the network mix in the queue.               *)
(* [mqtt_event_cb, mqtt_on_connected, mqtt_on_disconnected, network_on_*]  *)
Subscribed ==
  Quiet /\ client = "online" /\ ~torn =>
    /\ RangeOf(Commands) \subseteq remote
    /\ RangeOf(Commands) \subseteq RangeOf(subs)

(* Nothing is published twice, through however many sessions.              *)
(* [mqtt_publish, mqtt_publications_publish, mqtt_publications_free]       *)
AtMostOnce ==
  ~torn => \A j, k \in DOMAIN delivered : delivered[j] = delivered[k] => j = k

(* And everything is published: what was published offline too, unless it  *)
(* was sent into a session that had gone, or was being added to the list   *)
(* when that was flushed.                                                  *)
(* [mqtt_publish, mqtt_event_cb]                                           *)
AllDelivered ==
  Quiet /\ client = "online" /\ isConnected /\ ~torn /\ ~troubled =>
    RangeOf(delivered) = 1 .. last

(* A message of a command topic is passed on, unless it came while the     *)
(* task was between the broker and the list with this subscription, or     *)
(* this session is being ended.                                            *)
(* [mqtt_message_cb, mqtt_subscribe, mqtt_unsubscribe, mqtt_disconnect]    *)
MessagesPassed ==
  [][MessageDone => walk.hits > 0 \/ walk.changing \/ torn]_vars

(* ac_mitm_task waits for the client's lock, and the client's task, inside *)
(* mqtt_event_cb, for a slot of the queue.                                 *)
CallsClient ==
  \/ pc \in {"connect", "destroy", "send"}
  \/ pc = "subscribe" /\ i <= Len(Commands) /\ isConnected
  \/ pc = "unlisted" /\ isConnected

Embrace ==
  /\ CallsClient /\ client # "none" /\ Len(queue) = QueueLen
  /\ mpc \in {"post up", "post down"} \/ (mpc = "data" /\ AtEntry)

(* An event that was taken is handled to the end, or the two tasks wait    *)
(* for each other.                                                         *)
(* [ac_mitm_handle_event, mqtt_event_cb]                                   *)
HandledOrEmbrace == (pc # "idle") ~> (pc = "idle" \/ Embrace)

(* "Temperature - The AC's set temperature" (README.md:24): a topic shows  *)
(* what was published last.                                                *)
NewestShown ==
  Quiet /\ client = "online" /\ isConnected /\ ~torn /\ ~troubled
    /\ delivered # <<>> => delivered[Len(delivered)] = last
=============================================================================
