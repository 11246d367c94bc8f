----------------------------- MODULE MqttProofs -----------------------------
(***************************************************************************)
(* Theorems about Mqtt, for every queue length, every list of command      *)
(* topics and any number of sessions, changes, messages and networks.      *)
(***************************************************************************)
EXTENDS Mqtt, SequenceTheorems, TLAPS

-----------------------------------------------------------------------------
(* Types *)

(* TypeOK is inductive with this: there is a publication to send or to     *)
(* add, and a topic to list.                                               *)
TypeInv == /\ TypeOK
           /\ pc \in {"send", "add"} => todo # <<>> /\ Head(todo) # Heartbeat
           /\ pc \in {"list", "unlisted"} => i <= Len(Commands)

Events == {"NETWORK_CONNECTED", "NETWORK_DISCONNECTED", "MQTT_CONNECTED",
           "MQTT_DISCONNECTED", "CHANGED", "HEARTBEAT_TIMER", "MESSAGE"}

(* The same, in groups.                                                    *)
ListsOK   == /\ last \in Nat /\ subs \in Seq(RangeOf(Commands))
             /\ pubs \in Seq(Uptime .. last)
SessionOK == /\ client \in {"none", "offline", "online", "lost"}
             /\ remote \subseteq RangeOf(Commands)
             /\ remote # {} => client = "online"
             /\ delivered \in Seq(1 .. last)
ClientOK  == /\ mpc \in {"wait", "flush", "free", "post up", "clear",
                         "post down", "data"}
             /\ walk \in [topic : RangeOf(Commands) \union {"none"}, at : Nat,
                          hits : Nat, changing : BOOLEAN]
             /\ flushing \in Seq(Uptime .. last)
QueueOK   == queue \in Seq(Events) /\ Len(queue) <= QueueLen
TaskOK    == /\ pc \in {"idle", "publish", "send", "add", "subscribe", "list",
                        "unsubscribe", "unlisted", "connect", "destroy"}
             /\ todo \in Seq(Heartbeat .. last)
             /\ after \in {"idle", "subscribe"}
             /\ i \in 1 .. Len(Commands) + 1
             /\ pc \in {"send", "add"} => todo # <<>> /\ Head(todo) # Heartbeat
             /\ pc \in {"list", "unlisted"} => i <= Len(Commands)
WorldOK   == /\ link \in BOOLEAN
             /\ count \in [DOMAIN Bounds -> Nat]
             /\ \A b \in DOMAIN Bounds : count[b] <= Bounds[b]
FlagsOK   == isConnected \in BOOLEAN /\ torn \in BOOLEAN /\ troubled \in BOOLEAN

LEMMA Groups == TypeInv <=> /\ ListsOK /\ SessionOK /\ ClientOK /\ QueueOK
                            /\ TaskOK /\ WorldOK /\ FlagsOK
BY Zenon DEF TypeInv, TypeOK, ListsOK, SessionOK, ClientOK, QueueOK, TaskOK,
             WorldOK, FlagsOK, Events

LEMMA GroupsNext == TypeInv' <=> /\ ListsOK' /\ SessionOK' /\ ClientOK' /\ QueueOK'
                                /\ TaskOK' /\ WorldOK' /\ FlagsOK'
BY Groups, PTL

(* What a step leaves alone keeps its type. *)
LEMMA Same ==
  ASSUME TypeInv
  PROVE  /\ UNCHANGED <<lists, last>> => ListsOK'
         /\ UNCHANGED <<session, last>> => SessionOK'
         /\ UNCHANGED <<clientTask, last>> => ClientOK'
         /\ UNCHANGED queue => QueueOK'
         /\ UNCHANGED <<task, last>> => TaskOK'
         /\ UNCHANGED <<link, count>> => WorldOK'
         /\ UNCHANGED <<isConnected, history>> => FlagsOK'
<1>1. UNCHANGED <<lists, last>> => ListsOK'
  BY Groups DEF ListsOK, lists
<1>2. UNCHANGED <<session, last>> => SessionOK'
  BY Groups DEF SessionOK, session
<1>3. UNCHANGED <<clientTask, last>> => ClientOK'
  BY Groups DEF ClientOK, clientTask
<1>4. UNCHANGED queue => QueueOK'
  BY Groups DEF QueueOK
<1>5. UNCHANGED <<task, last>> => TaskOK'
  BY Groups DEF TaskOK, task
<1>6. UNCHANGED <<link, count>> => WorldOK'
  BY Groups DEF WorldOK
<1>7. UNCHANGED <<isConnected, history>> => FlagsOK'
  BY Groups DEF FlagsOK, history
<1> QED BY <1>1, <1>2, <1>3, <1>4, <1>5, <1>6, <1>7

LEMMA TypeInit == Init => TypeInv
<1> SUFFICES ASSUME Init PROVE TypeInv
  OBVIOUS
<1> USE DEF Init
<1>1. /\ subs \in Seq(RangeOf(Commands)) /\ last \in Nat
      /\ pubs \in Seq(Uptime .. last) /\ delivered \in Seq(1 .. last)
      /\ flushing \in Seq(Uptime .. last) /\ todo \in Seq(Heartbeat .. last)
      /\ queue \in Seq(Events) /\ Len(queue) <= QueueLen
  BY QueueAssumption
<1>2. i \in 1 .. Len(Commands) + 1
  BY CommandAssumption
<1>3. walk \in [topic : RangeOf(Commands) \union {"none"}, at : Nat,
                hits : Nat, changing : BOOLEAN]
  BY DEF NoWalk
<1>4. /\ count \in [DOMAIN Bounds -> Nat]
      /\ \A b \in DOMAIN Bounds : count[b] <= Bounds[b]
  BY BoundAssumption DEF Bounds
<1> QED BY <1>1, <1>2, <1>3, <1>4, Zenon DEF TypeInv, TypeOK, Events

(* A bound is kept. *)
LEMMA CountOK ==
  ASSUME TypeInv, NEW b \in DOMAIN Bounds, Count(b) \/ UNCHANGED count
  PROVE  /\ count' \in [DOMAIN Bounds -> Nat]
         /\ \A c \in DOMAIN Bounds : count'[c] <= Bounds[c]
<1>1. /\ count \in [DOMAIN Bounds -> Nat]
      /\ \A c \in DOMAIN Bounds : count[c] <= Bounds[c]
  BY Groups DEF WorldOK
<1>2. CASE UNCHANGED count
  BY <1>1, <1>2
<1>3. CASE Count(b)
  <2>1. \A c \in DOMAIN Bounds : Bounds[c] \in Nat
    BY BoundAssumption DEF Bounds
  <2> QED BY <1>1, <1>3, <2>1 DEF Count
<1> QED BY <1>2, <1>3

LEMMA PostOK ==
  ASSUME TypeInv, NEW e \in Events, Post(e)
  PROVE  QueueOK' /\ queue' = Append(queue, e)
<1>1. queue \in Seq(Events) /\ Len(queue) < QueueLen /\ QueueLen \in Nat
      /\ queue' = Append(queue, e)
  BY Groups, QueueAssumption DEF QueueOK, Post, HasRoom
<1>2. Append(queue, e) \in Seq(Events) /\ Len(Append(queue, e)) <= QueueLen
  BY <1>1
<1> QED BY <1>1, <1>2 DEF QueueOK

LEMMA TakeOK ==
  ASSUME TypeInv, NEW e, Take(e)
  PROVE  QueueOK' /\ pc = "idle"
<1>1. queue \in Seq(Events) /\ Len(queue) <= QueueLen /\ queue # <<>>
  BY Groups DEF QueueOK, Take
<1>2. Tail(queue) \in Seq(Events) /\ Len(Tail(queue)) = Len(queue) - 1
  BY <1>1, HeadTailProperties
<1> QED BY <1>1, <1>2, QueueAssumption DEF Take, QueueOK

LEMMA BoundNames == DOMAIN Bounds = {"change", "drop", "move", "message"}
BY DEF Bounds

(* What the broker has stays what was published. *)
LEMMA DeliverOK ==
  ASSUME TypeInv, NEW p \in Uptime .. last, Deliver(p), UNCHANGED last
  PROVE  SessionOK' /\ troubled' \in BOOLEAN
<1>1. delivered \in Seq(1 .. last) /\ last \in Nat
  BY Groups DEF SessionOK, ListsOK
<1>2. p > 0 => p \in 1 .. last
  BY <1>1 DEF Uptime
<1>3. delivered' \in Seq(1 .. last)
  <2>1. CASE p > 0
    <3>1. Append(delivered, p) \in Seq(1 .. last)
      BY <1>1, <1>2, <2>1
    <3> QED BY <1>1, <3>1, Zenon DEF Deliver
  <2>2. CASE ~(p > 0)
    BY <1>1, <2>2, Zenon DEF Deliver
  <2> QED BY <2>1, <2>2
<1>4. UNCHANGED <<client, remote, last>>
  BY DEF Deliver
<1>5. SessionOK'
  BY <1>3, <1>4, Groups, Zenon DEF SessionOK
<1>6. troubled' \in BOOLEAN
  BY Groups, Zenon DEF Deliver, FlagsOK
<1> QED BY <1>5, <1>6

(* The world, and the network's reports. *)
LEMMA TypeWorld ==
  TypeInv /\ (NetworkUp \/ NetworkDown \/ Others \/ SessionLost) => TypeInv'
<1> SUFFICES ASSUME TypeInv,
                    NetworkUp \/ NetworkDown \/ Others \/ SessionLost
             PROVE  TypeInv'
  OBVIOUS
<1>1. WorldOK'
  <2>1. /\ count' \in [DOMAIN Bounds -> Nat]
        /\ \A c \in DOMAIN Bounds : count'[c] <= Bounds[c]
    BY CountOK, BoundNames, Zenon
       DEF NetworkUp, NetworkDown, Others, SessionLost
  <2>2. link' \in BOOLEAN
    BY Groups, Zenon DEF NetworkUp, NetworkDown, Others, SessionLost, WorldOK
  <2> QED BY <2>1, <2>2 DEF WorldOK
<1>2. CASE NetworkUp \/ NetworkDown \/ Others
  <2>1. QueueOK'
    BY <1>2, PostOK DEF NetworkUp, NetworkDown, Others, Events
  <2>2. UNCHANGED <<isConnected, lists, session, clientTask, task, last, history>>
    BY <1>2 DEF NetworkUp, NetworkDown, Others
  <2> QED BY <1>1, <2>1, <2>2, Same, GroupsNext, Zenon
<1>3. CASE SessionLost
  <2>1. SessionOK'
    BY <1>3, Groups, Zenon DEF SessionLost, SessionOK
  <2>2. UNCHANGED <<isConnected, lists, clientTask, queue, task, last, history>>
    BY <1>3 DEF SessionLost
  <2> QED BY <1>1, <2>1, <2>2, Same, GroupsNext, Zenon
<1> QED BY <1>2, <1>3

(* The client's task. *)
LEMMA TypeFlush ==
  TypeInv /\ (Connected \/ Flush \/ Flushed \/ Free \/ Clear) => TypeInv'
<1> SUFFICES ASSUME TypeInv,
                    Connected \/ Flush \/ Flushed \/ Free \/ Clear
             PROVE  TypeInv'
  OBVIOUS
<1>0. /\ pubs \in Seq(Uptime .. last) /\ flushing \in Seq(Uptime .. last)
      /\ last \in Nat
  BY Groups DEF ListsOK, ClientOK
<1>a. UNCHANGED <<queue, task, last, link, count>>
  BY DEF Connected, Flush, Flushed, Free, Clear, world
<1>b. QueueOK' /\ TaskOK' /\ WorldOK'
  BY <1>a, Same
<1>1. CASE Connected
  <2>1. SessionOK'
    BY <1>1, Groups DEF Connected, SessionOK, world
  <2>2. ClientOK'
    BY <1>0, <1>1, Groups, Zenon DEF Connected, ClientOK, world
  <2>3. FlagsOK'
    BY <1>1, Groups DEF Connected, FlagsOK, history
  <2>4. ListsOK'
    BY <1>1, <1>a, Same DEF Connected
  <2> QED BY <1>b, <2>1, <2>2, <2>3, <2>4, GroupsNext
<1>2. CASE Flush
  <2>1. /\ Head(flushing) \in Uptime .. last
        /\ Tail(flushing) \in Seq(Uptime .. last)
    BY <1>0, <1>2, HeadTailProperties DEF Flush
  <2>2. <<Head(flushing)>> \o pubs \in Seq(Uptime .. last)
    BY <1>0, <2>1
  <2>3. ClientOK'
    BY <1>2, <1>a, <2>1, Groups, Zenon DEF Flush, ClientOK
  <2>4. UNCHANGED <<isConnected, subs, torn>>
    BY <1>2 DEF Flush
  <2>5. CASE Deliver(Head(flushing)) /\ UNCHANGED pubs
    <3>1. SessionOK' /\ troubled' \in BOOLEAN
      BY <1>a, <2>1, <2>5, DeliverOK
    <3>2. ListsOK' /\ FlagsOK'
      BY <1>a, <2>4, <2>5, <3>1, Groups, Zenon DEF ListsOK, FlagsOK
    <3> QED BY <1>b, <2>3, <3>1, <3>2, GroupsNext
  <2>6. CASE /\ pubs' = <<Head(flushing)>> \o pubs
             /\ troubled' = TRUE /\ UNCHANGED session
    <3>1. ListsOK'
      BY <1>a, <2>2, <2>4, <2>6, Groups, Zenon DEF ListsOK
    <3>2. FlagsOK'
      BY <2>4, <2>6, Groups, Zenon DEF FlagsOK
    <3>3. SessionOK'
      BY <1>a, <2>6, Same
    <3> QED BY <1>b, <2>3, <3>1, <3>2, <3>3, GroupsNext
  <2> QED BY <1>2, <2>5, <2>6 DEF Flush
<1>3. CASE Flushed \/ Free \/ Clear
  <2>1. ClientOK'
    BY <1>3, <1>a, Groups, Zenon DEF Flushed, Free, Clear, ClientOK
  <2>2. ListsOK'
    <3>1. UNCHANGED lists \/ (pubs' = <<>> /\ subs' = subs)
            \/ (pubs' = pubs /\ subs' = <<>>)
      BY <1>3, Zenon DEF Flushed, Free, Clear
    <3>2. <<>> \in Seq(Uptime .. last) /\ <<>> \in Seq(RangeOf(Commands))
      OBVIOUS
    <3> QED BY <1>a, <3>1, <3>2, Groups, Same DEF ListsOK
  <2>3. UNCHANGED <<isConnected, session, history>>
    BY <1>3 DEF Flushed, Free, Clear
  <2> QED BY <1>a, <1>b, <2>1, <2>2, <2>3, Same, GroupsNext
<1> QED BY <1>1, <1>2, <1>3

LEMMA TypeSession ==
  TypeInv /\ (PostConnected \/ Disconnected \/ PostDisconnected) => TypeInv'
<1> SUFFICES ASSUME TypeInv,
                    PostConnected \/ Disconnected \/ PostDisconnected
             PROVE  TypeInv'
  OBVIOUS
<1>0. UNCHANGED <<lists, task, last, history>>
  BY DEF PostConnected, Disconnected, PostDisconnected, world
<1>1. ClientOK'
  BY <1>0, Groups, Zenon
     DEF PostConnected, Disconnected, PostDisconnected, ClientOK
<1>2. CASE PostConnected \/ PostDisconnected
  <2>1. QueueOK'
    BY <1>2, PostOK DEF PostConnected, PostDisconnected, Events
  <2>2. UNCHANGED <<isConnected, session, link, count>>
    BY <1>2 DEF PostConnected, PostDisconnected, world
  <2> QED BY <1>0, <1>1, <2>1, <2>2, Same, GroupsNext
<1>3. CASE Disconnected
  <2>1. WorldOK'
    <3>1. /\ count' \in [DOMAIN Bounds -> Nat]
          /\ \A c \in DOMAIN Bounds : count'[c] <= Bounds[c]
      BY <1>3, CountOK, BoundNames, Zenon DEF Disconnected
    <3>2. UNCHANGED link
      BY <1>3 DEF Disconnected
    <3> QED BY <3>1, <3>2, Groups, Zenon DEF WorldOK
  <2>2. SessionOK'
    <3>1. remote = {}
      BY <1>3, Groups DEF Disconnected, SessionOK
    <3> QED BY <1>0, <1>3, <3>1, Groups, Zenon DEF Disconnected, SessionOK
  <2>3. FlagsOK'
    BY <1>3, Groups DEF Disconnected, FlagsOK, history
  <2>4. UNCHANGED queue
    BY <1>3 DEF Disconnected
  <2> QED BY <1>0, <1>1, <2>1, <2>2, <2>3, <2>4, Same, GroupsNext
<1> QED BY <1>2, <1>3

LEMMA TypeMessage ==
  TypeInv /\ (MessageArrives \/ MessageCallback \/ MessageOther \/ MessageDone)
    => TypeInv'
<1> SUFFICES ASSUME TypeInv, MessageArrives \/ MessageCallback \/ MessageOther
                             \/ MessageDone
             PROVE  TypeInv'
  OBVIOUS
<1> DEFINE Walks == [topic : RangeOf(Commands) \union {"none"}, at : Nat,
                     hits : Nat, changing : BOOLEAN]
<1>0. UNCHANGED <<isConnected, lists, session, task, last, link, flushing, history>>
  BY DEF MessageArrives, MessageCallback, MessageOther, MessageDone, world
<1>1. walk' \in Walks
  <2>1. walk \in Walks
    BY Groups DEF ClientOK
  <2>2. CASE MessageArrives
    <3>1. PICK t \in remote :
            walk' = [topic |-> t, at |-> 1, hits |-> 0, changing |-> Changing(t)]
      BY <2>2 DEF MessageArrives
    <3>2. t \in RangeOf(Commands) /\ Changing(t) \in BOOLEAN
      BY Groups DEF SessionOK, Changing
    <3> QED BY <3>1, <3>2
  <2>3. CASE MessageCallback \/ MessageOther
    <3>1. walk' \in {[walk EXCEPT !.at = @ + 1, !.hits = @ + 1],
                    [walk EXCEPT !.at = @ + 1]}
      BY <2>3 DEF MessageCallback, MessageOther
    <3>2. walk.at + 1 \in Nat /\ walk.hits + 1 \in Nat
      BY <2>1
    <3> QED BY <2>1, <3>1, <3>2
  <2>4. CASE MessageDone
    BY <2>4 DEF MessageDone, NoWalk
  <2> QED BY <2>2, <2>3, <2>4
<1>2. mpc' \in {"wait", "data"}
  BY Zenon DEF MessageArrives, MessageCallback, MessageOther, MessageDone
<1>3. ClientOK'
  BY <1>0, <1>1, <1>2, Groups DEF ClientOK
<1>4. QueueOK'
  <2>1. UNCHANGED queue \/ Post("MESSAGE")
    BY DEF MessageArrives, MessageCallback, MessageOther, MessageDone
  <2> QED BY <2>1, Same, PostOK DEF Events
<1>5. WorldOK'
  <2>1. /\ count' \in [DOMAIN Bounds -> Nat]
        /\ \A c \in DOMAIN Bounds : count'[c] <= Bounds[c]
    <3>1. Count("message") \/ UNCHANGED count
      BY DEF MessageArrives, MessageCallback, MessageOther, MessageDone, world
    <3> QED BY <3>1, CountOK, BoundNames
  <2> QED BY <1>0, <2>1, Groups, Zenon DEF WorldOK
<1> QED BY <1>0, <1>3, <1>4, <1>5, Same, GroupsNext

(* ac_mitm_task. *)
LEMMA TypeTake ==
  TypeInv /\ (\/ NetworkOnConnected \/ NetworkOnDisconnected \/ MqttOnConnected
              \/ MqttOnDisconnected \/ AcChanged \/ HeartbeatPublish
              \/ OnMessage)
    => TypeInv'
<1> SUFFICES ASSUME TypeInv,
                    \/ NetworkOnConnected \/ NetworkOnDisconnected
                    \/ MqttOnConnected \/ MqttOnDisconnected \/ AcChanged
                    \/ HeartbeatPublish \/ OnMessage
             PROVE  TypeInv'
  OBVIOUS
<1>0. QueueOK' /\ pc = "idle"
  BY TakeOK DEF NetworkOnConnected, NetworkOnDisconnected, MqttOnConnected,
     MqttOnDisconnected, AcChanged, HeartbeatPublish, OnMessage
<1>1. CASE NetworkOnConnected \/ NetworkOnDisconnected \/ MqttOnDisconnected
           \/ OnMessage
  <2>1. UNCHANGED <<pubs, session, clientTask, todo, after, link, count, last>>
    BY <1>1 DEF NetworkOnConnected, NetworkOnDisconnected, MqttOnDisconnected,
                OnMessage, lists, task, world
  <2>2. TaskOK'
    <3>1. 1 \in 1 .. Len(Commands) + 1
      BY CommandAssumption
    <3>2. i' \in {1, i}
      BY <1>1 DEF NetworkOnConnected, NetworkOnDisconnected, MqttOnDisconnected,
                  OnMessage, task
    <3>3. pc' \in {"idle", "connect", "destroy", "unsubscribe"}
      BY <1>0, <1>1 DEF NetworkOnConnected, NetworkOnDisconnected, MqttOnDisconnected,
                  OnMessage, task
    <3> QED BY <2>1, <3>1, <3>2, <3>3, Groups DEF TaskOK
  <2>3. ListsOK'
    <3>1. subs' = subs \/ subs' = <<>>
      BY <1>1, Zenon DEF NetworkOnConnected, NetworkOnDisconnected,
                  MqttOnDisconnected, OnMessage, lists
    <3>2. <<>> \in Seq(RangeOf(Commands))
      OBVIOUS
    <3> QED BY <2>1, <3>1, <3>2, Groups DEF ListsOK
  <2>4. FlagsOK'
    BY <1>1, Groups DEF NetworkOnConnected, NetworkOnDisconnected,
                  MqttOnDisconnected, OnMessage, history, FlagsOK
  <2> QED BY <1>0, <2>1, <2>2, <2>3, <2>4, Same, GroupsNext
<1>2. CASE MqttOnConnected \/ AcChanged \/ HeartbeatPublish
  <2>1. /\ last' \in {last, last + 1} /\ last \in Nat
        /\ UNCHANGED <<isConnected, lists, session, clientTask, link, count,
                       i, history>>
    BY <1>2, Groups DEF MqttOnConnected, AcChanged, HeartbeatPublish,
                        StartPublishing, ListsOK
  <2>2. \A n \in Int : n .. last \subseteq n .. last'
    BY <2>1
  <2>3. \A n \in Int : Seq(n .. last) \subseteq Seq(n .. last')
    BY <2>2, SeqMonotonic
  <2>4. TaskOK'
    <3>1. todo' \in Seq(Heartbeat .. last')
      <4>1. \/ todo' = <<Status, Heartbeat>> \/ todo' = <<Heartbeat>>
            \/ todo' = <<last + 1>> /\ last' = last + 1
        BY <1>2 DEF MqttOnConnected, AcChanged, HeartbeatPublish, StartPublishing
      <4>2. {Status, Heartbeat} \subseteq Heartbeat .. last'
        BY <2>1 DEF Status, Heartbeat
      <4>3. last + 1 \in Heartbeat .. last + 1
        BY <2>1 DEF Heartbeat
      <4> DEFINE P == Heartbeat .. last'
      <4>4. \A a, b \in P : <<a, b>> \in Seq(P) /\ <<a>> \in Seq(P)
        OBVIOUS
      <4>5. Status \in P /\ Heartbeat \in P
        BY <4>2, Zenon
      <4>6. last' = last + 1 => last + 1 \in P
        BY <4>3, Zenon
      <4> HIDE DEF P
      <4>7. todo' \in Seq(P)
        BY <4>1, <4>4, <4>5, <4>6, Zenon
      <4> QED BY <4>7 DEF P
    <3>2. pc' = "publish" /\ after' \in {"idle", "subscribe"}
      BY <1>2 DEF MqttOnConnected, AcChanged, HeartbeatPublish, StartPublishing
    <3> QED BY <2>1, <3>1, <3>2, Groups DEF TaskOK
  <2>5. ListsOK'
    <3>1. pubs \in Seq(Uptime .. last')
      BY <2>3, Groups DEF ListsOK, Uptime
    <3>2. last' \in Nat
      BY <2>1
    <3> QED BY <2>1, <3>1, <3>2, Groups DEF ListsOK, lists
  <2>6. SessionOK'
    <3>1. delivered \in Seq(1 .. last')
      BY <2>3, Groups DEF SessionOK
    <3> QED BY <2>1, <3>1, Groups DEF SessionOK, session
  <2>7. ClientOK'
    <3>1. flushing \in Seq(Uptime .. last')
      <4>1. Uptime \in Int
        BY DEF Uptime
      <4>2. flushing \in Seq(Uptime .. last)
        BY Groups DEF ClientOK
      <4> QED BY <2>3, <4>1, <4>2
    <3> QED BY <2>1, <3>1, Groups DEF ClientOK, clientTask
  <2> QED BY <1>0, <2>1, <2>4, <2>5, <2>6, <2>7, Same, GroupsNext
<1> QED BY <1>1, <1>2

LEMMA TypePublish ==
  TypeInv /\ (\/ Connect \/ Destroy \/ CheckHeartbeat \/ Publish \/ Send \/ Add
              \/ Published)
    => TypeInv'
<1> SUFFICES ASSUME TypeInv, \/ Connect \/ Destroy \/ CheckHeartbeat \/ Publish
                             \/ Send \/ Add \/ Published
             PROVE  TypeInv'
  OBVIOUS
<1>0. UNCHANGED <<isConnected, subs, clientTask, queue, last, link, count>>
  BY DEF Connect, Destroy, CheckHeartbeat, Publish, Send, Add, Published, lists,
         world
<1>a. todo \in Seq(Heartbeat .. last) /\ last \in Nat
  BY Groups DEF TaskOK, ListsOK
<1>b. todo # <<>> => /\ Head(todo) \in Heartbeat .. last
                     /\ Tail(todo) \in Seq(Heartbeat .. last)
  BY <1>a, HeadTailProperties
<1>c. 1 \in 1 .. Len(Commands) + 1
  BY CommandAssumption
<1>1. CASE Connect \/ Destroy
  <2>1. SessionOK'
    BY <1>0, <1>1, Groups, Zenon DEF Connect, Destroy, SessionOK
  <2>2. TaskOK'
    BY <1>0, <1>1, <1>c, Groups DEF Connect, Destroy, TaskOK
  <2>3. UNCHANGED <<lists, history>>
    BY <1>1 DEF Connect, Destroy
  <2> QED BY <1>0, <2>1, <2>2, <2>3, Same, GroupsNext
<1>2. CASE CheckHeartbeat \/ Publish \/ Published
  <2>1. UNCHANGED <<lists, session, history>>
    BY <1>2 DEF CheckHeartbeat, Publish, Published
  <2>2. CASE CheckHeartbeat
    <3>1. todo' \in Seq(Heartbeat .. last)
      <4>1. <<Uptime>> \in Seq(Heartbeat .. last) /\ <<>> \in Seq(Heartbeat .. last)
        BY <1>a DEF Uptime, Heartbeat
      <4>2. Tail(todo) \in Seq(Heartbeat .. last)
        BY <1>b, <2>2 DEF CheckHeartbeat
      <4>3. todo' = <<Uptime>> \o Tail(todo) \/ todo' = <<>> \o Tail(todo)
        BY <2>2, Zenon DEF CheckHeartbeat
      <4> QED BY <4>1, <4>2, <4>3, ConcatProperties
    <3>2. TaskOK'
      BY <1>0, <2>2, <3>1, Groups DEF CheckHeartbeat, TaskOK
    <3> QED BY <1>0, <2>1, <3>2, Same, GroupsNext
  <2>3. CASE Publish
    <3>1. TaskOK'
      BY <1>0, <2>3, Groups DEF Publish, TaskOK
    <3> QED BY <1>0, <2>1, <3>1, Same, GroupsNext
  <2>4. CASE Published
    <3>1. TaskOK'
      BY <1>0, <1>c, <2>4, Groups DEF Published, TaskOK
    <3> QED BY <1>0, <2>1, <3>1, Same, GroupsNext
  <2> QED BY <1>2, <2>2, <2>3, <2>4
<1>3. CASE Send \/ Add
  <2>1. /\ Head(todo) \in Uptime .. last
        /\ Tail(todo) \in Seq(Heartbeat .. last)
    BY <1>3, <1>a, <1>b, Groups DEF Send, Add, TaskOK, Uptime, Heartbeat
  <2>2. TaskOK'
    <3>1. pc' = "publish" /\ todo' = Tail(todo) /\ UNCHANGED <<after, i>>
      BY <1>3 DEF Send, Add
    <3> QED BY <1>0, <2>1, <3>1, Groups DEF TaskOK
  <2>3. CASE Send
    <3>1. SessionOK' /\ troubled' \in BOOLEAN
      BY <1>0, <2>1, <2>3, DeliverOK DEF Send
    <3>2. UNCHANGED <<lists, torn>>
      BY <2>3 DEF Send
    <3>3. FlagsOK'
      BY <1>0, <3>1, <3>2, Groups, Zenon DEF FlagsOK
    <3> QED BY <1>0, <2>2, <3>1, <3>2, <3>3, Same, GroupsNext
  <2>4. CASE Add
    <3>1. <<Head(todo)>> \o pubs \in Seq(Uptime .. last)
      BY <1>a, <2>1, Groups DEF ListsOK
    <3>2. ListsOK'
      BY <1>0, <2>4, <3>1, Groups, Zenon DEF Add, ListsOK
    <3>3. FlagsOK'
      BY <1>0, <2>4, Groups DEF Add, FlagsOK
    <3>4. UNCHANGED session
      BY <2>4 DEF Add
    <3> QED BY <1>0, <2>2, <3>2, <3>3, <3>4, Same, GroupsNext
  <2> QED BY <1>3, <2>3, <2>4
<1> QED BY <1>1, <1>2, <1>3

(* A list with an entry removed is what it was, apart from that entry. *)
LEMMA WithoutOK ==
  ASSUME TypeInv, NEW STATE t, Without(t)
  PROVE  /\ subs' \in Seq(RangeOf(Commands))
         /\ \A x \in RangeOf(subs) : x = t \/ x \in RangeOf(subs)'
<1>1. subs \in Seq(RangeOf(Commands))
  BY Groups DEF ListsOK
<1>2. CASE UNCHANGED subs
  BY <1>1, <1>2
<1>3. ASSUME NEW k \in DOMAIN subs, subs[k] = t,
             subs' = SubSeq(subs, 1, k - 1) \o SubSeq(subs, k + 1, Len(subs))
      PROVE  /\ subs' \in Seq(RangeOf(Commands))
             /\ \A x \in RangeOf(subs) : x = t \/ x \in RangeOf(subs)'
  <2> DEFINE n == Len(subs)
             a == SubSeq(subs, 1, k - 1)
             b == SubSeq(subs, k + 1, n)
  <2>1. n \in Nat /\ k \in 1 .. n /\ DOMAIN subs = 1 .. n
    BY <1>1
  <2>2. /\ a \in Seq(RangeOf(Commands)) /\ Len(a) = k - 1
        /\ \A j \in 1 .. k - 1 : a[j] = subs[j]
    BY <1>1, <2>1
  <2>3. /\ b \in Seq(RangeOf(Commands)) /\ Len(b) = n - k
        /\ \A j \in 1 .. n - k : b[j] = subs[k + j]
    BY <1>1, <2>1
  <2> HIDE DEF a, b
  <2>4. subs' = a \o b
    BY <1>3 DEF a, b
  <2>5. /\ subs' \in Seq(RangeOf(Commands)) /\ Len(subs') = n - 1
        /\ \A j \in 1 .. n - 1 :
              subs'[j] = IF j <= k - 1 THEN a[j] ELSE b[j - (k - 1)]
    <3>1. /\ a \o b \in Seq(RangeOf(Commands)) /\ Len(a \o b) = Len(a) + Len(b)
          /\ \A j \in 1 .. Len(a) + Len(b) :
               (a \o b)[j] = IF j <= Len(a) THEN a[j] ELSE b[j - Len(a)]
      BY <2>2, <2>3, ConcatProperties, Zenon
    <3>2. Len(a) + Len(b) = n - 1 /\ Len(a) = k - 1
      BY <2>1, <2>2, <2>3
    <3> QED BY <2>4, <3>1, <3>2, Zenon
  <2>6. ASSUME NEW j \in 1 .. n, j # k
        PROVE  \E l \in DOMAIN subs' : subs'[l] = subs[j]
    <3>1. DOMAIN subs' = 1 .. n - 1
      BY <2>1, <2>5
    <3>2. CASE j < k
      <4>1. j \in 1 .. n - 1 /\ subs'[j] = subs[j]
        BY <2>1, <2>2, <2>5, <2>6, <3>2
      <4> QED BY <3>1, <4>1
    <3>3. CASE j > k
      <4>1. j - 1 \in 1 .. n - 1 /\ j - k \in 1 .. n - k
        BY <2>1, <3>3
      <4>2. subs'[j - 1] = b[j - k] /\ b[j - k] = subs[j]
        <5>1. ~(j - 1 <= k - 1) /\ (j - 1) - (k - 1) = j - k /\ k + (j - k) = j
          BY <2>1, <3>3
        <5> QED BY <2>3, <2>5, <4>1, <5>1, Zenon
      <4> QED BY <3>1, <4>1, <4>2
    <3> QED BY <2>1, <2>6, <3>2, <3>3
  <2>7. ASSUME NEW x \in RangeOf(subs), x # t
        PROVE  x \in RangeOf(subs')
    <3>1. PICK j \in 1 .. n : subs[j] = x
      BY <2>1, Zenon DEF RangeOf
    <3>2. j # k
      BY <1>3, <2>7, <3>1
    <3>3. PICK l \in DOMAIN subs' : subs'[l] = x
      BY <2>6, <3>1, <3>2
    <3> QED BY <3>3, Zenon DEF RangeOf
  <2> QED BY <2>5, <2>7 DEF RangeOf
<1> QED BY <1>2, <1>3, Zenon DEF Without

LEMMA TypeSubscribe ==
  TypeInv /\ (Subscribe \/ List \/ Unsubscribe \/ Unlisted \/ EndOfTopics)
    => TypeInv'
<1> SUFFICES ASSUME TypeInv, \/ Subscribe \/ List \/ Unsubscribe \/ Unlisted
                             \/ EndOfTopics
             PROVE  TypeInv'
  OBVIOUS
<1>0. UNCHANGED <<isConnected, pubs, client, delivered, clientTask, queue, todo,
                 after, last, link, count, troubled>>
  BY DEF Subscribe, List, Unsubscribe, Unlisted, EndOfTopics, lists, session,
         world, history
<1>1. Len(Commands) \in Nat /\ DOMAIN Commands = 1 .. Len(Commands)
  BY CommandAssumption
<1>2. i \in 1 .. Len(Commands) => Commands[i] \in RangeOf(Commands)
  BY <1>1 DEF RangeOf
<1>3. i \in 1 .. Len(Commands) + 1
  BY Groups DEF TaskOK
<1>4. TaskOK'
  <2>1. i' \in 1 .. Len(Commands) + 1
    BY <1>1, <1>3, Groups DEF Subscribe, List, Unsubscribe, Unlisted,
                              EndOfTopics, TaskOK
  <2>2. /\ pc' \in {"subscribe", "unsubscribe", "idle", "list", "unlisted"}
        /\ pc' \in {"list", "unlisted"} => i <= Len(Commands) /\ i' = i
    BY Zenon DEF Subscribe, List, Unsubscribe, Unlisted, EndOfTopics
  <2> QED BY <1>0, <2>1, <2>2, Groups DEF TaskOK
<1>5. SessionOK'
  <2>1. \/ UNCHANGED session
        \/ Subscribe /\ remote' = remote \union {Commands[i]}
           /\ client = "online" /\ i <= Len(Commands)
        \/ remote' = remote \ {Commands[i]}
    BY <1>0 DEF Subscribe, List, Unsubscribe, Unlisted, EndOfTopics, session
  <2>2. CASE UNCHANGED session
    BY <1>0, <2>2, Same
  <2>3. CASE /\ remote' = remote \union {Commands[i]}
             /\ client = "online" /\ i <= Len(Commands)
    <3>1. Commands[i] \in RangeOf(Commands)
      BY <1>1, <1>2, <1>3, <2>3
    <3> QED BY <1>0, <2>3, <3>1, Groups DEF SessionOK
  <2>4. CASE remote' = remote \ {Commands[i]}
    BY <1>0, <2>4, Groups DEF SessionOK
  <2> QED BY <2>1, <2>2, <2>3, <2>4
<1>6. ListsOK'
  <2>1. subs' \in Seq(RangeOf(Commands))
    <3>1. subs \in Seq(RangeOf(Commands))
      BY Groups DEF ListsOK
    <3>2. CASE List
      <4>1. Commands[i] \in RangeOf(Commands)
        BY <1>1, <1>2, <1>3, <3>2, Groups DEF List, TaskOK
      <4> QED BY <3>1, <3>2, <4>1 DEF List
    <3>3. CASE Unsubscribe
      BY <3>3, WithoutOK DEF Unsubscribe
    <3>4. CASE Subscribe \/ Unlisted \/ EndOfTopics
      BY <3>1, <3>4 DEF Subscribe, Unlisted, EndOfTopics, lists
    <3> QED BY <3>2, <3>3, <3>4
  <2> QED BY <1>0, <2>1, Groups, Zenon DEF ListsOK
<1>7. FlagsOK'
  <2>1. torn' \in BOOLEAN
    BY Groups, Zenon DEF Subscribe, List, Unsubscribe, Unlisted, EndOfTopics,
                         history, FlagsOK
  <2> QED BY <1>0, <2>1, Groups, Zenon DEF FlagsOK
<1> QED BY <1>0, <1>4, <1>5, <1>6, <1>7, Same, GroupsNext

LEMMA TypeNext == TypeInv /\ [Next]_vars => TypeInv'
<1> SUFFICES ASSUME TypeInv, [Next]_vars PROVE TypeInv'
  OBVIOUS
<1>1. CASE UNCHANGED vars
  BY <1>1, Same, GroupsNext DEF vars, world
<1>2. CASE TaskStep
  BY <1>2, TypeTake, TypePublish, TypeSubscribe, Zenon DEF TaskStep
<1>3. CASE ClientStep \/ MessageArrives
  BY <1>3, TypeFlush, TypeSession, TypeMessage, Zenon DEF ClientStep
<1> QED BY <1>1, <1>2, <1>3, TypeWorld, Zenon DEF Next

LEMMA TypeAlways == Spec => []TypeInv
BY TypeInit, TypeNext, PTL DEF Spec

(* The types hold always, of the lists, flags and queue of mqtt.c and of   *)
(* ac_mitm_task.                                                           *)
THEOREM TypeCorrect == Spec => []TypeOK
<1>1. TypeInv => TypeOK
  BY DEF TypeInv
<1> QED BY <1>1, TypeAlways, PTL

-----------------------------------------------------------------------------
(* Lists of publications *)

LEMMA RangeAppend ==
  ASSUME NEW S, NEW s \in Seq(S), NEW e \in S
  PROVE  RangeOf(Append(s, e)) = RangeOf(s) \union {e}
<1> DEFINE n == Len(s)
           r == Append(s, e)
<1>1. /\ n \in Nat /\ DOMAIN s = 1 .. n /\ DOMAIN r = 1 .. n + 1
      /\ r[n + 1] = e /\ \A j \in 1 .. n : r[j] = s[j]
  OBVIOUS
<1>2. n + 1 \in 1 .. n + 1 /\ \A j \in 1 .. n + 1 : j \in 1 .. n \/ j = n + 1
  BY <1>1
<1>3. \A j \in 1 .. n : j \in 1 .. n + 1
  BY <1>1
<1> HIDE DEF n, r
<1> QED BY <1>1, <1>2, <1>3, Zenon DEF RangeOf, r

LEMMA RangeCons ==
  ASSUME NEW S, NEW s \in Seq(S), NEW e \in S
  PROVE  /\ RangeOf(<<e>> \o s) = RangeOf(s) \union {e}
         /\ Len(<<e>> \o s) = Len(s) + 1 /\ (<<e>> \o s)[1] = e
         /\ \A j \in 1 .. Len(s) : (<<e>> \o s)[j + 1] = s[j]
<1> DEFINE n == Len(s)
           r == <<e>> \o s
<1>0. /\ r \in Seq(S) /\ Len(r) = 1 + n
      /\ \A j \in 1 .. 1 + n : r[j] = IF j <= 1 THEN <<e>>[j] ELSE s[j - 1]
  <2>1. <<e>> \in Seq(S) /\ Len(<<e>>) = 1
    OBVIOUS
  <2> QED BY <2>1, ConcatProperties
<1>1. /\ n \in Nat /\ DOMAIN s = 1 .. n /\ DOMAIN r = 1 .. n + 1
      /\ r[1] = e
  BY <1>0
<1>2. \A j \in 1 .. n : j + 1 \in 1 .. n + 1 /\ r[j + 1] = s[j]
  BY <1>0, <1>1
<1>3. 1 \in 1 .. n + 1 /\ \A j \in 1 .. n + 1 : j = 1 \/ \E k \in 1 .. n : j = k + 1
  <2>1. \A j \in 1 .. n + 1 : j = 1 \/ (j - 1 \in 1 .. n /\ j = (j - 1) + 1)
    BY <1>1
  <2> QED BY <1>1, <2>1
<1>4. Len(r) = n + 1
  BY <1>0, <1>1
<1> HIDE DEF n, r
<1>5. RangeOf(r) = RangeOf(s) \union {e}
  <2>1. \A x \in RangeOf(r) : x \in RangeOf(s) \/ x = e
    <3> SUFFICES ASSUME NEW j \in 1 .. n + 1
                 PROVE  r[j] \in RangeOf(s) \/ r[j] = e
      BY <1>1, Zenon DEF RangeOf
    <3>1. CASE j = 1
      BY <1>1, <3>1
    <3>2. ASSUME NEW k \in 1 .. n, j = k + 1
          PROVE  r[j] \in RangeOf(s)
      <4>1. r[j] = s[k]
        BY <1>2, <3>2
      <4> QED BY <1>1, <4>1, Zenon DEF RangeOf
    <3> QED BY <1>3, <3>1, <3>2
  <2>2. \A x \in RangeOf(s) : x \in RangeOf(r)
    <3> SUFFICES ASSUME NEW j \in 1 .. n PROVE s[j] \in RangeOf(r)
      BY <1>1 DEF RangeOf
    <3> QED BY <1>1, <1>2, Zenon DEF RangeOf
  <2>3. e \in RangeOf(r)
    BY <1>1, <1>3, Zenon DEF RangeOf
  <2> QED BY <2>1, <2>2, <2>3
<1> QED BY <1>1, <1>2, <1>4, <1>5 DEF n, r

LEMMA RangeTail ==
  ASSUME NEW S, NEW s \in Seq(S), s # <<>>
  PROVE  /\ RangeOf(s) = RangeOf(Tail(s)) \union {Head(s)}
         /\ Tail(s) \in Seq(S) /\ Head(s) \in S
         /\ Len(s) = Len(Tail(s)) + 1 /\ s[1] = Head(s)
         /\ \A j \in 1 .. Len(Tail(s)) : s[j + 1] = Tail(s)[j]
<1>1. Tail(s) \in Seq(S) /\ Head(s) \in S
  BY HeadTailProperties
<1>2. s = <<Head(s)>> \o Tail(s)
  <2>1. /\ Len(<<Head(s)>> \o Tail(s)) = Len(s)
        /\ <<Head(s)>> \o Tail(s) \in Seq(S)
        /\ \A j \in 1 .. Len(s) : (<<Head(s)>> \o Tail(s))[j] = s[j]
    BY <1>1
  <2> QED BY <2>1, SeqEqual
<1>3. /\ RangeOf(<<Head(s)>> \o Tail(s)) = RangeOf(Tail(s)) \union {Head(s)}
      /\ Len(<<Head(s)>> \o Tail(s)) = Len(Tail(s)) + 1
      /\ (<<Head(s)>> \o Tail(s))[1] = Head(s)
      /\ \A j \in 1 .. Len(Tail(s)) : (<<Head(s)>> \o Tail(s))[j + 1] = Tail(s)[j]
  <2> DEFINE h == Head(s)
             t == Tail(s)
  <2>1. h \in S /\ t \in Seq(S)
    BY <1>1
  <2> HIDE DEF h, t
  <2>2. /\ RangeOf(<<h>> \o t) = RangeOf(t) \union {h}
        /\ Len(<<h>> \o t) = Len(t) + 1 /\ (<<h>> \o t)[1] = h
        /\ \A j \in 1 .. Len(t) : (<<h>> \o t)[j + 1] = t[j]
    BY <2>1, RangeCons
  <2> QED BY <2>2 DEF h, t
<1> QED BY <1>1, <1>2, <1>3, Zenon

(* No publication of the state topic is in a list twice, ... *)
Distinct(s) == \A j, k \in DOMAIN s : s[j] > 0 /\ s[j] = s[k] => j = k

(* ... or in both of two. *)
Apart(s, r) == \A p \in RangeOf(s) \intersect RangeOf(r) : p <= 0

LEMMA DistinctAppend ==
  ASSUME NEW s \in Seq(Int), NEW e \in Int, Distinct(s),
         e > 0 => e \notin RangeOf(s)
  PROVE  Distinct(Append(s, e))
<1> DEFINE n == Len(s)
           r == Append(s, e)
<1>1. /\ n \in Nat /\ DOMAIN s = 1 .. n /\ DOMAIN r = 1 .. n + 1
      /\ r[n + 1] = e /\ \A j \in 1 .. n : r[j] = s[j] /\ s[j] \in Int
  OBVIOUS
<1>2. \A j \in 1 .. n + 1 : j \in 1 .. n \/ j = n + 1
  BY <1>1
<1>3. \A j \in 1 .. n : e > 0 => s[j] # e
  BY <1>1 DEF RangeOf
<1> HIDE DEF n, r
<1> QED BY <1>1, <1>2, <1>3 DEF Distinct, r

LEMMA DistinctCons ==
  ASSUME NEW s \in Seq(Int), NEW e \in Int, Distinct(s),
         e > 0 => e \notin RangeOf(s)
  PROVE  Distinct(<<e>> \o s)
<1> DEFINE n == Len(s)
           r == <<e>> \o s
<1>1. /\ n \in Nat /\ DOMAIN s = 1 .. n /\ \A j \in 1 .. n : s[j] \in Int
  OBVIOUS
<1>2. DOMAIN r = 1 .. n + 1 /\ r[1] = e /\ \A j \in 1 .. n : r[j + 1] = s[j]
  <2>1. r \in Seq(Int) /\ Len(r) = n + 1
    BY <1>1
  <2> QED BY <2>1, RangeCons
<1>3. \A j \in 1 .. n + 1 : j = 1 \/ (j - 1 \in 1 .. n /\ r[j] = s[j - 1])
  <2>1. \A j \in 1 .. n + 1 : j = 1 \/ (j - 1 \in 1 .. n /\ (j - 1) + 1 = j)
    BY <1>1
  <2> QED BY <1>2, <2>1
<1>4. \A j \in 1 .. n : e > 0 => s[j] # e
  BY <1>1 DEF RangeOf
<1> HIDE DEF n, r
<1> SUFFICES ASSUME NEW j \in 1 .. n + 1, NEW k \in 1 .. n + 1,
                    r[j] > 0, r[j] = r[k]
             PROVE  j = k
  BY <1>2 DEF Distinct, r
<1>5. CASE j = 1 /\ k # 1
  BY <1>2, <1>3, <1>4, <1>5
<1>6. CASE j # 1 /\ k = 1
  BY <1>2, <1>3, <1>4, <1>6
<1>7. CASE j # 1 /\ k # 1
  <2>1. j - 1 \in DOMAIN s /\ k - 1 \in DOMAIN s
        /\ s[j - 1] > 0 /\ s[j - 1] = s[k - 1]
    BY <1>1, <1>3, <1>7
  <2>2. j - 1 = k - 1
    BY <2>1 DEF Distinct
  <2> QED BY <1>1, <2>2
<1> QED BY <1>5, <1>6, <1>7

LEMMA DistinctTail ==
  ASSUME NEW s \in Seq(Int), s # <<>>, Distinct(s)
  PROVE  /\ Distinct(Tail(s))
         /\ Head(s) > 0 => Head(s) \notin RangeOf(Tail(s))
<1> DEFINE r == Tail(s)
           n == Len(r)
<1>1. /\ r \in Seq(Int) /\ Len(s) = n + 1 /\ s[1] = Head(s)
      /\ \A j \in 1 .. n : s[j + 1] = r[j]
  BY RangeTail
<1>2. n \in Nat /\ DOMAIN r = 1 .. n /\ DOMAIN s = 1 .. n + 1
  BY <1>1
<1> HIDE DEF n, r
<1>3. \A j \in 1 .. n : j + 1 \in DOMAIN s /\ j + 1 # 1
  BY <1>2
<1>4. Distinct(r)
  <2> SUFFICES ASSUME NEW j \in 1 .. n, NEW k \in 1 .. n, r[j] > 0, r[j] = r[k]
               PROVE  j = k
    BY <1>2 DEF Distinct
  <2>1. j + 1 = k + 1
    BY <1>1, <1>3 DEF Distinct
  <2> QED BY <1>2, <2>1
<1>5. ASSUME Head(s) > 0, NEW j \in 1 .. n, r[j] = Head(s)
      PROVE  FALSE
  <2>1. 1 \in DOMAIN s
    BY <1>2
  <2> QED BY <1>1, <1>3, <1>5, <2>1 DEF Distinct
<1> QED BY <1>2, <1>4, <1>5 DEF RangeOf, r

(* A list, and the same with a new publication. *)
LEMMA Appended ==
  ASSUME NEW s \in Seq(Int), NEW e \in Int, Distinct(s),
         e > 0 => e \notin RangeOf(s), NEW r, r = s \/ r = Append(s, e)
  PROVE  Distinct(r) /\ RangeOf(r) \in {RangeOf(s), RangeOf(s) \union {e}}
<1>1. CASE r = s
  BY <1>1
<1>2. CASE r = Append(s, e)
  <2>1. Distinct(Append(s, e))
    BY DistinctAppend
  <2>2. RangeOf(Append(s, e)) = RangeOf(s) \union {e}
    BY RangeAppend
  <2> QED BY <1>2, <2>1, <2>2, Zenon
<1> QED BY <1>1, <1>2

LEMMA Prefixed ==
  ASSUME NEW s \in Seq(Int), NEW e \in Int,
         e > 0 => e \notin RangeOf(s), NEW r, r = s \/ r = <<e>> \o s
  PROVE  /\ Distinct(s) => Distinct(r)
         /\ RangeOf(r) \in {RangeOf(s), RangeOf(s) \union {e}}
<1>1. CASE r = s
  BY <1>1
<1>2. CASE r = <<e>> \o s
  <2>1. Distinct(s) => Distinct(<<e>> \o s)
    BY DistinctCons
  <2>2. RangeOf(<<e>> \o s) = RangeOf(s) \union {e}
    BY RangeCons
  <2> QED BY <1>2, <2>1, <2>2, Zenon
<1> QED BY <1>1, <1>2

LEMMA EmptyOK == Distinct(<<>>) /\ RangeOf(<<>>) = {}
BY DEF Distinct, RangeOf

LEMMA Publications ==
  ASSUME TypeInv
  PROVE  /\ pubs \in Seq(Int) /\ flushing \in Seq(Int) /\ delivered \in Seq(Int)
         /\ todo \in Seq(Int) /\ last \in Nat
         /\ \A p \in RangeOf(pubs) \union RangeOf(flushing)
                   \union RangeOf(delivered) : p \in Int /\ p <= last
<1>1. /\ last \in Nat /\ pubs \in Seq(Uptime .. last)
      /\ flushing \in Seq(Uptime .. last) /\ delivered \in Seq(1 .. last)
      /\ todo \in Seq(Heartbeat .. last)
  BY Groups DEF ListsOK, ClientOK, SessionOK, TaskOK
<1>2. /\ Uptime .. last \subseteq Int /\ Heartbeat .. last \subseteq Int
      /\ 1 .. last \subseteq Int
  BY <1>1 DEF Uptime, Heartbeat
<1>3. /\ pubs \in Seq(Int) /\ flushing \in Seq(Int) /\ delivered \in Seq(Int)
      /\ todo \in Seq(Int)
  BY <1>1, <1>2, SeqMonotonic, Zenon
<1>4. \A n \in Int : \A s : s \in Seq(n .. last) =>
        \A p \in RangeOf(s) : p \in Int /\ p <= last
  BY <1>1 DEF RangeOf
<1>5. Uptime \in Int
  BY DEF Uptime
<1> QED BY <1>1, <1>3, <1>4, <1>5

-----------------------------------------------------------------------------
(* Nothing twice *)

(* A publication that is new is at one place: about to be made, in the     *)
(* list, on its way out of the list, or at the broker.  While the list is  *)
(* being published its entries are in both, and then it is freed.          *)
OnceInv ==
  ~torn =>
    /\ Distinct(delivered) /\ Distinct(todo)
    /\ Apart(todo, delivered) /\ Apart(todo, pubs)
    /\ mpc = "flush" => /\ Distinct(flushing)
                        /\ Apart(flushing, delivered)
                        /\ Apart(flushing, todo)
    /\ mpc \notin {"flush", "free"} => Distinct(pubs) /\ Apart(pubs, delivered)

LEMMA OnceStill ==
  ASSUME OnceInv, UNCHANGED <<delivered, todo, pubs, flushing>>, torn => torn',
         \/ UNCHANGED mpc
         \/ mpc \notin {"flush", "free"} /\ mpc' \notin {"flush", "free"}
  PROVE  OnceInv'
BY Zenon DEF OnceInv

(* What has happened has happened. *)
LEMMA TornStays == Next => (torn => torn') /\ (troubled => troubled')
<1> SUFFICES ASSUME Next PROVE (torn => torn') /\ (troubled => troubled')
  OBVIOUS
<1>1. CASE NetworkUp \/ NetworkDown \/ Others \/ SessionLost \/ MessageArrives
  BY <1>1 DEF NetworkUp, NetworkDown, Others, SessionLost, MessageArrives, history
<1>2. CASE \/ Connected \/ Flushed \/ Free \/ PostConnected \/ Disconnected
           \/ Clear \/ PostDisconnected \/ MessageCallback \/ MessageOther
           \/ MessageDone
  <2>1. UNCHANGED history
    BY <1>2, Zenon DEF Connected, Flushed, Free, PostConnected, Disconnected,
       Clear, PostDisconnected, MessageCallback, MessageOther, MessageDone
  <2> QED BY <2>1, Zenon DEF history
<1>3. CASE Flush \/ Send
  <2>1. UNCHANGED torn /\ (Deliver(Head(flushing)) \/ Deliver(Head(todo))
                         \/ troubled' = TRUE)
    BY <1>3, Zenon DEF Flush, Send
  <2>2. troubled => troubled'
    BY <2>1 DEF Deliver
  <2> QED BY <2>1, <2>2
<1>4. CASE NetworkOnDisconnected \/ Add \/ List \/ Unsubscribe
  <2>1. CASE Add
    BY <2>1 DEF Add
  <2>2. CASE NetworkOnDisconnected
    BY <2>2 DEF NetworkOnDisconnected
  <2>3. CASE List
    BY <2>3 DEF List
  <2>4. CASE Unsubscribe
    BY <2>4 DEF Unsubscribe
  <2> QED BY <1>4, <2>1, <2>2, <2>3, <2>4
<1>5. CASE \/ NetworkOnConnected \/ Connect \/ Destroy \/ MqttOnConnected
           \/ MqttOnDisconnected \/ AcChanged \/ HeartbeatPublish \/ OnMessage
           \/ CheckHeartbeat \/ Publish \/ Published \/ Subscribe \/ Unlisted
           \/ EndOfTopics
  <2>1. UNCHANGED history
    BY <1>5, Zenon DEF NetworkOnConnected, Connect, Destroy, MqttOnConnected,
       MqttOnDisconnected, AcChanged, HeartbeatPublish, OnMessage,
       CheckHeartbeat, Publish, Published, Subscribe, Unlisted, EndOfTopics,
       StartPublishing
  <2> QED BY <2>1, Zenon DEF history
<1> QED BY <1>1, <1>2, <1>3, <1>4, <1>5, Zenon DEF Next, TaskStep, ClientStep

LEMMA TornKept == [Next]_vars => (torn => torn') /\ (troubled => troubled')
<1>1. UNCHANGED vars => UNCHANGED torn /\ UNCHANGED troubled
  BY DEF vars, history
<1> QED BY <1>1, TornStays, Zenon

(* The list is published and freed. *)
LEMMA OnceFlush ==
  TypeInv /\ OnceInv /\ (Connected \/ Flush \/ Flushed \/ Free) => OnceInv'
<1> SUFFICES ASSUME TypeInv, OnceInv, ~torn,
                    Connected \/ Flush \/ Flushed \/ Free
             PROVE  OnceInv'
  BY TornStays, Zenon DEF Next, ClientStep, OnceInv
<1>0. UNCHANGED todo
  BY DEF Connected, Flush, Flushed, Free, task
<1>1. CASE Connected
  <2>1. UNCHANGED <<delivered, pubs>> /\ flushing' = pubs /\ mpc' = "flush"
    BY <1>1 DEF Connected, lists
  <2>2. Apart(pubs, todo) /\ mpc = "wait"
    BY <1>1 DEF OnceInv, Apart, Connected
  <2> QED BY <1>0, <2>1, <2>2, Zenon DEF OnceInv
<1>2. CASE Flush
  <2> DEFINE p == Head(flushing)
  <2>1. /\ mpc = "flush" /\ mpc' = "flush" /\ flushing # <<>>
        /\ flushing' = Tail(flushing)
    BY <1>2 DEF Flush
  <2>2. /\ flushing \in Seq(Int) /\ RangeOf(flushing) = RangeOf(flushing') \union {p}
        /\ Distinct(flushing') /\ (p > 0 => p \notin RangeOf(flushing'))
        /\ p \in Int
    BY <2>1, Publications, RangeTail, DistinctTail DEF OnceInv
  <2> HIDE DEF p
  <2>3. RangeOf(delivered') \in {RangeOf(delivered), RangeOf(delivered) \union {p}}
        /\ Distinct(delivered')
    <3>1. \/ delivered' = delivered
          \/ delivered' = Append(delivered, p) /\ p > 0
      <4>1. Deliver(p) \/ UNCHANGED session
        BY <1>2, Zenon DEF Flush, p
      <4>2. CASE client = "online" /\ p > 0
        BY <4>1, <4>2 DEF Deliver, session
      <4>3. CASE ~(client = "online" /\ p > 0)
        BY <4>1, <4>3 DEF Deliver, session
      <4> QED BY <4>2, <4>3
    <3>2. delivered \in Seq(Int) /\ Distinct(delivered)
      BY Publications DEF OnceInv
    <3>3. p > 0 => p \notin RangeOf(delivered)
      BY <2>1, <2>2 DEF OnceInv, Apart
    <3> QED BY <2>2, <3>1, <3>2, <3>3, Appended
  <2>4. RangeOf(pubs') \in {RangeOf(pubs), RangeOf(pubs) \union {p}}
    <3>1. pubs' = pubs \/ pubs' = <<p>> \o pubs
      BY <1>2 DEF Flush, p
    <3>2. pubs \in Seq(Int)
      BY Publications
    <3>3. RangeOf(<<p>> \o pubs) = RangeOf(pubs) \union {p}
      BY <2>2, <3>2, RangeCons
    <3> QED BY <3>1, <3>3
  <2>5. /\ Apart(todo, delivered') /\ Apart(todo, pubs')
        /\ Apart(flushing', delivered') /\ Apart(flushing', todo)
    BY <2>1, <2>2, <2>3, <2>4 DEF OnceInv, Apart
  <2> QED BY <1>0, <2>1, <2>2, <2>3, <2>5 DEF OnceInv
<1>3. CASE Flushed
  <2>1. UNCHANGED <<delivered, pubs>> /\ mpc' = "free"
    BY <1>3 DEF Flushed, lists, session
  <2> QED BY <1>0, <2>1, Zenon DEF OnceInv
<1>4. CASE Free
  <2>1. UNCHANGED delivered /\ pubs' = <<>> /\ mpc' = "post up"
    BY <1>4 DEF Free, session
  <2>2. /\ Distinct(pubs') /\ RangeOf(pubs') = {}
    BY <2>1, EmptyOK
  <2> QED BY <1>0, <2>1, <2>2 DEF OnceInv, Apart
<1> QED BY <1>1, <1>2, <1>3, <1>4

(* A handler publishes. *)
LEMMA OnceStart ==
  TypeInv /\ OnceInv /\ (MqttOnConnected \/ AcChanged \/ HeartbeatPublish)
    => OnceInv'
<1> SUFFICES ASSUME TypeInv, OnceInv, ~torn,
                    MqttOnConnected \/ AcChanged \/ HeartbeatPublish
             PROVE  OnceInv'
  BY TornStays, Zenon DEF Next, TaskStep, OnceInv
<1>1. UNCHANGED <<delivered, pubs, flushing, mpc>>
  BY DEF MqttOnConnected, AcChanged, HeartbeatPublish, StartPublishing, lists,
         session, clientTask
<1>2. /\ Distinct(todo')
      /\ \A p \in RangeOf(todo') : p > 0 => p > last
  <2>1. \/ todo' = <<Status, Heartbeat>> \/ todo' = <<Heartbeat>>
        \/ todo' = <<last + 1>>
    BY DEF MqttOnConnected, AcChanged, HeartbeatPublish, StartPublishing
  <2>2. last \in Nat
    BY Publications
  <2> QED BY <2>1, <2>2 DEF Status, Heartbeat, Distinct, RangeOf
<1>3. \A p \in RangeOf(pubs) \union RangeOf(flushing) \union RangeOf(delivered) :
        p \in Int /\ p <= last /\ last \in Int
  BY Publications
<1>4. /\ Apart(todo', delivered) /\ Apart(todo', pubs)
      /\ Apart(flushing, todo')
  BY <1>2, <1>3 DEF Apart
<1> QED BY <1>1, <1>2, <1>4 DEF OnceInv

(* And sends what it publishes, or adds it to the list. *)
LEMMA OncePublish ==
  TypeInv /\ OnceInv /\ (CheckHeartbeat \/ Send \/ Add) => OnceInv'
<1> SUFFICES ASSUME TypeInv, OnceInv, ~torn, CheckHeartbeat \/ Send \/ Add
             PROVE  OnceInv'
  BY TornStays, Zenon DEF Next, TaskStep, OnceInv
<1> DEFINE p == Head(todo)
<1>1. UNCHANGED <<flushing, mpc>>
  BY DEF CheckHeartbeat, Send, Add, clientTask
<1>2. /\ todo # <<>> /\ todo \in Seq(Int)
  BY Groups, Publications DEF CheckHeartbeat, Send, Add, TaskOK
<1>3. /\ RangeOf(todo) = RangeOf(Tail(todo)) \union {p}
      /\ Tail(todo) \in Seq(Int) /\ p \in Int
      /\ Distinct(Tail(todo)) /\ (p > 0 => p \notin RangeOf(Tail(todo)))
  BY <1>2, RangeTail, DistinctTail DEF OnceInv
<1>4. /\ delivered \in Seq(Int) /\ pubs \in Seq(Int)
      /\ Distinct(delivered)
  BY Publications DEF OnceInv
<1>5. p > 0 => /\ p \notin RangeOf(delivered) /\ p \notin RangeOf(pubs)
               /\ mpc = "flush" => p \notin RangeOf(flushing)
  BY <1>3 DEF OnceInv, Apart
<1>6. CASE CheckHeartbeat
  <2>1. UNCHANGED <<delivered, pubs>>
    BY <1>6 DEF CheckHeartbeat, lists, session
  <2>2. /\ Distinct(todo')
        /\ RangeOf(todo') \in {RangeOf(Tail(todo)), RangeOf(Tail(todo)) \union {Uptime}}
    <3>1. todo' = <<Uptime>> \o Tail(todo) \/ todo' = <<>> \o Tail(todo)
      BY <1>6, Zenon DEF CheckHeartbeat
    <3>2. <<>> \o Tail(todo) = Tail(todo)
      BY <1>3
    <3>3. Uptime \in Int /\ ~(Uptime > 0)
      BY DEF Uptime
    <3> QED BY <1>3, <3>1, <3>2, <3>3, Prefixed
  <2>3. Uptime <= 0
    BY DEF Uptime
  <2>4. /\ Apart(todo', delivered) /\ Apart(todo', pubs)
        /\ mpc = "flush" => Apart(flushing, todo')
    BY <1>3, <2>2, <2>3 DEF OnceInv, Apart
  <2> QED BY <1>1, <2>1, <2>2, <2>4 DEF OnceInv
<1>7. CASE Send \/ Add
  <2>1. todo' = Tail(todo)
    BY <1>7 DEF Send, Add
  <2>2. /\ RangeOf(delivered') \in {RangeOf(delivered), RangeOf(delivered) \union {p}}
        /\ Distinct(delivered')
    <3>1. \/ delivered' = delivered
          \/ delivered' = Append(delivered, p) /\ p > 0
      <4>1. Deliver(p) \/ UNCHANGED session
        BY <1>7, Zenon DEF Send, Add
      <4>2. CASE client = "online" /\ p > 0
        BY <4>1, <4>2 DEF Deliver, session
      <4>3. CASE ~(client = "online" /\ p > 0)
        BY <4>1, <4>3 DEF Deliver, session
      <4> QED BY <4>2, <4>3
    <3> QED BY <1>3, <1>4, <1>5, <3>1, Appended
  <2>3. /\ RangeOf(pubs') \in {RangeOf(pubs), RangeOf(pubs) \union {p}}
        /\ Distinct(pubs) => Distinct(pubs')
    <3>1. pubs' = pubs \/ pubs' = <<p>> \o pubs
      BY <1>7 DEF Send, Add, lists
    <3> QED BY <1>3, <1>4, <1>5, <3>1, Prefixed
  <2>4. delivered' = delivered \/ pubs' = pubs
    BY <1>7 DEF Send, Add, lists, session
  <2> HIDE DEF p
  <2>5. /\ Apart(todo', delivered') /\ Apart(todo', pubs')
        /\ mpc = "flush" => Apart(flushing, delivered') /\ Apart(flushing, todo')
        /\ mpc \notin {"flush", "free"} => Apart(pubs', delivered')
    BY <1>3, <1>5, <2>1, <2>2, <2>3, <2>4 DEF OnceInv, Apart
  <2> QED BY <1>1, <1>3, <2>1, <2>2, <2>3, <2>5 DEF OnceInv
<1> QED BY <1>6, <1>7

LEMMA OnceNext == TypeInv /\ OnceInv /\ [Next]_vars => OnceInv'
<1> SUFFICES ASSUME TypeInv, OnceInv, [Next]_vars PROVE OnceInv'
  OBVIOUS
<1>0. torn => torn'
  BY TornKept
<1>1. CASE UNCHANGED vars
  BY <1>0, <1>1, OnceStill DEF vars, lists, session, clientTask, task
<1>2. CASE NetworkUp \/ NetworkDown \/ Others \/ SessionLost
  BY <1>0, <1>2, OnceStill DEF NetworkUp, NetworkDown, Others, SessionLost,
                               lists, session, clientTask, task
<1>3. CASE PostConnected \/ Disconnected \/ Clear \/ PostDisconnected
  <2>1. UNCHANGED <<delivered, todo, pubs, flushing>>
    BY <1>3 DEF PostConnected, Disconnected, Clear, PostDisconnected, lists,
                session, task
  <2>2. mpc \notin {"flush", "free"} /\ mpc' \notin {"flush", "free"}
    BY <1>3 DEF PostConnected, Disconnected, Clear, PostDisconnected
  <2> QED BY <1>0, <2>1, <2>2, OnceStill
<1>4. CASE MessageArrives \/ MessageCallback \/ MessageOther \/ MessageDone
  <2>1. UNCHANGED <<delivered, todo, pubs, flushing>>
    BY <1>4 DEF MessageArrives, MessageCallback, MessageOther, MessageDone, lists,
                session, task
  <2>2. \/ UNCHANGED mpc
        \/ mpc \notin {"flush", "free"} /\ mpc' \notin {"flush", "free"}
    BY <1>4 DEF MessageArrives, MessageCallback, MessageOther, MessageDone
  <2> QED BY <1>0, <2>1, <2>2, OnceStill
<1>5. CASE \/ NetworkOnConnected \/ NetworkOnDisconnected \/ MqttOnDisconnected
           \/ OnMessage \/ Connect \/ Destroy \/ Publish \/ Published
  <2>1. UNCHANGED <<delivered, todo, pubs, flushing, mpc>>
    BY <1>5
       DEF NetworkOnConnected, NetworkOnDisconnected, MqttOnDisconnected,
           OnMessage, Connect, Destroy, Publish, Published, lists, session,
           clientTask, task
  <2> QED BY <1>0, <2>1, OnceStill
<1>6. CASE Subscribe \/ List \/ Unsubscribe \/ Unlisted \/ EndOfTopics
  <2>1. UNCHANGED <<delivered, todo, pubs, flushing, mpc>>
    BY <1>6 DEF Subscribe, List, Unsubscribe, Unlisted, EndOfTopics, lists,
                session, clientTask
  <2> QED BY <1>0, <2>1, OnceStill
<1> QED BY <1>1, <1>2, <1>3, <1>4, <1>5, <1>6, OnceFlush, OnceStart, OncePublish,
           Zenon DEF Next, TaskStep, ClientStep

LEMMA OnceInit == Init => OnceInv
BY DEF Init, OnceInv, Distinct, Apart, RangeOf

(* Nothing is published twice, through any number of sessions.             *)
(* [mqtt_publish, mqtt_publications_publish, mqtt_publications_free]       *)
THEOREM OnceCorrect == Spec => []AtMostOnce
<1>1. TypeInv /\ OnceInv => AtMostOnce
  <2>1. TypeInv => \A j \in DOMAIN delivered : delivered[j] > 0
    <3> SUFFICES ASSUME TypeInv, NEW j \in DOMAIN delivered
                 PROVE  delivered[j] > 0
      OBVIOUS
    <3>1. delivered \in Seq(1 .. last) /\ last \in Nat
      BY Groups DEF SessionOK, ListsOK
    <3>2. delivered[j] \in 1 .. last
      BY <3>1, ElementOfSeq
    <3> QED BY <3>1, <3>2
  <2> QED BY <2>1 DEF OnceInv, Distinct, AtMostOnce
<1> QED BY <1>1, OnceInit, OnceNext, TypeAlways, PTL DEF Spec

-----------------------------------------------------------------------------
(* Sessions *)

(* A session is known, or is about to be destroyed; while the end of one   *)
(* is handled there is none; and without a client its task waits.          *)
SessionInv ==
  /\ mpc \in {"clear", "post down"} => client = "offline"
  /\ mpc \in {"flush", "free"} => isConnected \/ pc = "destroy"
  /\ client = "online" => isConnected \/ pc = "destroy"
  /\ client = "none" => mpc = "wait"

LEMMA SessionNext == SessionInv /\ [Next]_vars => SessionInv'
<1> SUFFICES ASSUME SessionInv, [Next]_vars PROVE SessionInv'
  OBVIOUS
<1>1. CASE UNCHANGED vars
  BY <1>1 DEF SessionInv, vars, session, clientTask, task
<1>2. CASE NetworkUp \/ NetworkDown \/ Others
  <2>1. UNCHANGED <<mpc, client, isConnected, pc>>
    BY <1>2 DEF NetworkUp, NetworkDown, Others, session, clientTask, task
  <2> QED BY <2>1 DEF SessionInv
<1>3. CASE SessionLost
  BY <1>3 DEF SessionInv, SessionLost, clientTask, task
<1>4. CASE \/ Flush \/ Flushed \/ Free \/ PostConnected \/ Clear
           \/ PostDisconnected \/ MessageCallback \/ MessageOther \/ MessageDone
  <2>1. UNCHANGED <<client, isConnected, pc>>
    BY <1>4, Zenon DEF Flush, Flushed, Free, PostConnected, Clear,
       PostDisconnected, MessageCallback, MessageOther, MessageDone, Deliver,
       session, task
  <2>2. \/ mpc' = mpc
        \/ mpc = "flush" /\ mpc' = "free"
        \/ mpc = "clear" /\ mpc' = "post down"
        \/ mpc # "wait" /\ mpc' \in {"wait", "post up"}
    BY <1>4, Zenon DEF Flush, Flushed, Free, PostConnected, Clear,
       PostDisconnected, MessageCallback, MessageOther, MessageDone
  <2> QED BY <2>1, <2>2 DEF SessionInv
<1>5. CASE Connected \/ Disconnected \/ MessageArrives
  BY <1>5 DEF SessionInv, Connected, Disconnected, MessageArrives, session, task
<1>6. CASE Connect \/ Destroy
  BY <1>6 DEF SessionInv, Connect, Destroy, MayCall, clientTask
<1>7. CASE NetworkOnDisconnected
  BY <1>7 DEF SessionInv, NetworkOnDisconnected, session, clientTask
<1>8. CASE \/ NetworkOnConnected \/ MqttOnConnected \/ MqttOnDisconnected
           \/ AcChanged \/ HeartbeatPublish \/ OnMessage \/ CheckHeartbeat
           \/ Publish \/ Send \/ Add \/ Published \/ Subscribe \/ List
           \/ Unsubscribe \/ Unlisted \/ EndOfTopics
  <2>1. UNCHANGED <<client, isConnected, mpc>>
    BY <1>8, Zenon
       DEF NetworkOnConnected, MqttOnConnected, MqttOnDisconnected, AcChanged,
           HeartbeatPublish, OnMessage, CheckHeartbeat, Publish, Send, Add,
           Published, Subscribe, List, Unsubscribe, Unlisted, EndOfTopics,
           StartPublishing, Deliver, session, clientTask
  <2>2. pc # "destroy"
    BY <1>8
       DEF NetworkOnConnected, MqttOnConnected, MqttOnDisconnected, AcChanged,
           HeartbeatPublish, OnMessage, CheckHeartbeat, Publish, Send, Add,
           Published, Subscribe, List, Unsubscribe, Unlisted, EndOfTopics, Take
  <2> QED BY <2>1, <2>2 DEF SessionInv
<1> QED BY <1>1, <1>2, <1>3, <1>4, <1>5, <1>6, <1>7, <1>8, Zenon
        DEF Next, TaskStep, ClientStep

LEMMA SessionAlways == Spec => []SessionInv
<1>1. Init => SessionInv
  BY DEF Init, SessionInv
<1> QED BY <1>1, SessionNext, PTL DEF Spec

-----------------------------------------------------------------------------
(* The list is what the broker has *)

(* The actions that neither subscribe nor unsubscribe. *)
Elsewhere ==
  \/ NetworkUp \/ NetworkDown \/ Others
  \/ Connected \/ Flush \/ Flushed \/ Free \/ PostConnected
  \/ Disconnected \/ PostDisconnected
  \/ NetworkOnConnected \/ MqttOnConnected \/ MqttOnDisconnected
  \/ AcChanged \/ HeartbeatPublish \/ OnMessage
  \/ CheckHeartbeat \/ Publish \/ Send \/ Add \/ Published \/ EndOfTopics

LEMMA ElsewhereSame ==
  Elsewhere => /\ UNCHANGED <<remote, subs, walk>>
               /\ \/ UNCHANGED <<pc, i>>
                  \/ pc \notin {"destroy", "list", "unlisted"}
               /\ mpc' = "data" => mpc = "data"
<1> SUFFICES ASSUME Elsewhere
             PROVE  /\ UNCHANGED <<remote, subs, walk>>
                    /\ \/ UNCHANGED <<pc, i>>
                       \/ pc \notin {"destroy", "list", "unlisted"}
                    /\ mpc' = "data" => mpc = "data"
  OBVIOUS
<1>1. CASE \/ NetworkUp \/ NetworkDown \/ Others \/ Connected \/ Flush \/ Flushed
           \/ Free \/ PostConnected \/ Disconnected \/ PostDisconnected
  <2>1. UNCHANGED <<remote, subs, walk, pc, i>>
    BY <1>1, Zenon DEF NetworkUp, NetworkDown, Others, Connected, Flush, Flushed,
       Free, PostConnected, Disconnected, PostDisconnected, Deliver, lists,
       session, clientTask, task
  <2>2. mpc' = "data" => mpc = "data"
    BY <1>1 DEF NetworkUp, NetworkDown, Others, Connected, Flush, Flushed,
       Free, PostConnected, Disconnected, PostDisconnected, clientTask
  <2> QED BY <2>1, <2>2
<1>2. CASE \/ NetworkOnConnected \/ MqttOnConnected \/ MqttOnDisconnected
           \/ AcChanged \/ HeartbeatPublish \/ OnMessage
           \/ CheckHeartbeat \/ Publish \/ Send \/ Add \/ Published \/ EndOfTopics
  <2>1. UNCHANGED <<remote, subs, walk, mpc>>
    BY <1>2, Zenon
       DEF NetworkOnConnected, MqttOnConnected, MqttOnDisconnected, AcChanged,
           HeartbeatPublish, OnMessage, CheckHeartbeat, Publish, Send, Add,
           Published, EndOfTopics, StartPublishing, Deliver, lists, session,
           clientTask
  <2>2. pc \notin {"destroy", "list", "unlisted"}
    BY <1>2
       DEF NetworkOnConnected, MqttOnConnected, MqttOnDisconnected, AcChanged,
           HeartbeatPublish, OnMessage, CheckHeartbeat, Publish, Send, Add,
           Published, EndOfTopics, Take
  <2> QED BY <2>1, <2>2
<1> QED BY <1>1, <1>2, Zenon DEF Elsewhere

(* A topic the broker has subscribed is in the list, but for the one that  *)
(* is being subscribed or unsubscribed.                                    *)
ListedInv == ~torn => \A t \in remote : t \in RangeOf(subs) \/ Changing(t)

LEMMA ListedNext ==
  TypeInv /\ SessionInv /\ ListedInv /\ [Next]_vars => ListedInv'
<1> SUFFICES ASSUME TypeInv, SessionInv, ListedInv, [Next]_vars
             PROVE  ListedInv'
  OBVIOUS
<1>0. torn => torn'
  BY TornKept
<1> SUFFICES ASSUME ~torn, NEW t \in remote'
             PROVE  (t \in RangeOf(subs) \/ Changing(t))'
  BY <1>0, Zenon DEF ListedInv
<1>1. remote # {} => client = "online"
  BY Groups DEF SessionOK
<1>2. CASE UNCHANGED vars
  BY <1>2 DEF ListedInv, Changing, RangeOf, vars, lists, session, task
<1>3. CASE Elsewhere
  <2>1. CASE UNCHANGED <<pc, i>>
    BY <1>3, <2>1, ElsewhereSame DEF ListedInv, Changing, RangeOf
  <2>2. CASE pc \notin {"destroy", "list", "unlisted"}
    BY <1>3, <2>2, ElsewhereSame DEF ListedInv, Changing, RangeOf
  <2> QED BY <1>3, <2>1, <2>2, ElsewhereSame
<1>4. CASE MessageArrives \/ MessageCallback \/ MessageOther \/ MessageDone
  <2>1. UNCHANGED <<remote, subs, pc, i>>
    BY <1>4, Zenon DEF MessageArrives, MessageCallback, MessageOther, MessageDone,
       lists, session, task
  <2> QED BY <2>1 DEF ListedInv, Changing, RangeOf
<1>5. CASE SessionLost \/ Connect \/ Destroy
  BY <1>5 DEF SessionLost, Connect, Destroy
<1>6. CASE Clear
  BY <1>1, <1>6 DEF Clear, SessionInv, session
<1>7. CASE NetworkOnDisconnected
  BY <1>7 DEF NetworkOnDisconnected, Changing
<1>8. CASE Subscribe
  <2>1. UNCHANGED subs /\ pc = "subscribe"
    BY <1>8 DEF Subscribe, lists
  <2>2. \A u \in remote : u \in RangeOf(subs)
    BY <2>1 DEF ListedInv, Changing
  <2>3. \/ UNCHANGED remote
        \/ t \in remote \/ (t = Commands[i] /\ pc' = "list" /\ i' = i)
    BY <1>8 DEF Subscribe
  <2> QED BY <2>1, <2>2, <2>3 DEF Changing, RangeOf
<1>9. CASE List
  <2>1. /\ UNCHANGED remote /\ pc = "list" /\ subs' = Append(subs, Commands[i])
    BY <1>9 DEF List, session
  <2>2. subs \in Seq(RangeOf(Commands)) /\ Commands[i] \in RangeOf(Commands)
    BY <2>1, CommandAssumption, Groups DEF ListsOK, TaskOK, RangeOf
  <2>3. RangeOf(subs') = RangeOf(subs) \union {Commands[i]}
    BY <2>1, <2>2, RangeAppend
  <2>4. t \in RangeOf(subs) \union {Commands[i]}
    BY <2>1 DEF ListedInv, Changing
  <2>5. t \in RangeOf(subs')
    BY <2>3, <2>4
  <2> QED BY <2>5 DEF RangeOf
<1>10. CASE Unsubscribe
  <2>1. /\ UNCHANGED <<remote, i>> /\ pc = "unsubscribe" /\ pc' = "unlisted"
        /\ Without(Commands[i])
    BY <1>10 DEF Unsubscribe, session
  <2>2. t \in RangeOf(subs)
    BY <2>1 DEF ListedInv, Changing
  <2>3. t # Commands[i] => t \in RangeOf(subs')
    BY <2>1, <2>2, WithoutOK
  <2> QED BY <2>1, <2>3 DEF Changing, RangeOf
<1>11. CASE Unlisted
  <2>1. UNCHANGED subs /\ pc = "unlisted" /\ t \in remote
    BY <1>11 DEF Unlisted, lists
  <2>2. isConnected
    BY <1>1, <2>1 DEF SessionInv
  <2>3. t # Commands[i]
    BY <1>11, <2>2 DEF Unlisted
  <2>4. t \in RangeOf(subs)
    BY <2>1, <2>3 DEF ListedInv, Changing
  <2> QED BY <2>1, <2>4 DEF RangeOf
<1> QED BY <1>2, <1>3, <1>4, <1>5, <1>6, <1>7, <1>8, <1>9, <1>10, <1>11, Zenon
        DEF Next, TaskStep, ClientStep, Elsewhere

(* A message of a topic that is in the list reaches an entry for it.       *)
Ahead == \E k \in DOMAIN subs : k >= walk.at /\ subs[k] = walk.topic

WalkInv == mpc = "data" /\ ~torn /\ ~walk.changing => walk.hits > 0 \/ Ahead

LEMMA WalkNext ==
  TypeInv /\ ListedInv /\ WalkInv /\ [Next]_vars => WalkInv'
<1> SUFFICES ASSUME TypeInv, ListedInv, WalkInv, [Next]_vars
             PROVE  WalkInv'
  OBVIOUS
<1>0. torn => torn'
  BY TornKept
<1>1. /\ subs \in Seq(RangeOf(Commands))
      /\ walk \in [topic : RangeOf(Commands) \union {"none"}, at : Nat,
                   hits : Nat, changing : BOOLEAN]
  BY Groups DEF ListsOK, ClientOK
<1>2. ASSUME UNCHANGED <<subs, walk>>, mpc' = "data" => mpc = "data"
      PROVE  WalkInv'
  BY <1>0, <1>2 DEF WalkInv, Ahead
<1>3. CASE UNCHANGED vars
  BY <1>2, <1>3 DEF vars, lists, clientTask
<1>4. CASE Elsewhere
  BY <1>2, <1>4, ElsewhereSame
<1>5. CASE SessionLost \/ Connect \/ Destroy \/ Subscribe \/ Unlisted
  BY <1>2, <1>5 DEF SessionLost, Connect, Destroy, Subscribe, Unlisted, lists,
                    clientTask
<1>6. CASE MessageArrives
  <2>1. PICK t \in remote :
          walk' = [topic |-> t, at |-> 1, hits |-> 0, changing |-> Changing(t)]
    BY <1>6, Zenon DEF MessageArrives
  <2>2. UNCHANGED subs
    BY <1>6 DEF MessageArrives, lists
  <2>3. walk'.topic = t /\ walk'.at = 1 /\ walk'.changing = Changing(t)
    BY <2>1
  <2>4. ASSUME ~torn, ~Changing(t)
        PROVE  Ahead'
    <3>1. t \in RangeOf(subs)
      BY <2>4, Zenon DEF ListedInv
    <3>2. PICK k \in DOMAIN subs : subs[k] = t
      BY <3>1, Zenon DEF RangeOf
    <3>3. k >= 1
      BY <1>1
    <3> QED BY <2>2, <2>3, <3>2, <3>3 DEF Ahead
  <2> QED BY <1>0, <2>3, <2>4, Zenon DEF WalkInv
<1>7. CASE MessageCallback
  BY <1>1, <1>7 DEF MessageCallback, WalkInv
<1>8. CASE MessageOther
  <2>1. /\ UNCHANGED subs /\ mpc = "data"
        /\ walk' = [walk EXCEPT !.at = @ + 1]
        /\ subs[walk.at] # walk.topic
    BY <1>8 DEF MessageOther, lists
  <2>2. /\ walk'.at = walk.at + 1 /\ walk'.topic = walk.topic
        /\ walk'.hits = walk.hits /\ walk'.changing = walk.changing
    BY <1>1, <2>1
  <2>3. ASSUME NEW k \in DOMAIN subs, k >= walk.at, subs[k] = walk.topic
        PROVE  Ahead'
    <3>1. k # walk.at
      BY <2>1, <2>3
    <3>2. k \in Int /\ walk.at \in Int
      BY <1>1
    <3>3. k >= walk'.at
      BY <2>2, <2>3, <3>1, <3>2
    <3> QED BY <2>1, <2>2, <2>3, <3>3 DEF Ahead
  <2> QED BY <1>0, <2>1, <2>2, <2>3 DEF WalkInv, Ahead
<1>9. CASE MessageDone \/ Clear
  BY <1>9 DEF MessageDone, Clear, WalkInv
<1>10. CASE NetworkOnDisconnected \/ Unsubscribe
  <2>1. mpc = "data" => torn'
    BY <1>10 DEF NetworkOnDisconnected, Unsubscribe
  <2>2. mpc' = mpc
    BY <1>10 DEF NetworkOnDisconnected, Unsubscribe, clientTask
  <2> QED BY <2>1, <2>2 DEF WalkInv
<1>11. CASE List
  <2>1. /\ UNCHANGED clientTask /\ pc = "list"
        /\ subs' = Append(subs, Commands[i])
    BY <1>11 DEF List
  <2>2. Commands[i] \in RangeOf(Commands)
    BY <2>1, CommandAssumption, Groups DEF TaskOK, RangeOf
  <2>3. \A k \in DOMAIN subs : k \in DOMAIN subs' /\ subs'[k] = subs[k]
    BY <1>1, <2>1, <2>2
  <2>4. Ahead => Ahead'
    BY <2>1, <2>3 DEF Ahead, clientTask
  <2> QED BY <1>0, <2>1, <2>4 DEF WalkInv, clientTask
<1> QED BY <1>3, <1>4, <1>5, <1>6, <1>7, <1>8, <1>9, <1>10, <1>11, Zenon
        DEF Next, TaskStep, ClientStep, Elsewhere

LEMMA WalkAlways == Spec => []WalkInv
<1>1. Init => ListedInv /\ WalkInv
  BY DEF Init, ListedInv, WalkInv
<1> QED BY <1>1, TypeAlways, SessionAlways, ListedNext, WalkNext, PTL DEF Spec

(* A message of a command topic is passed on, but for the named races.     *)
(* [mqtt_message_cb, mqtt_subscribe, mqtt_unsubscribe, mqtt_disconnect]    *)
THEOREM MessagesCorrect == Spec => MessagesPassed
<1>1. TypeInv /\ WalkInv /\ [Next]_vars
        => [MessageDone => walk.hits > 0 \/ walk.changing \/ torn]_vars
  <2> SUFFICES ASSUME TypeInv, WalkInv, MessageDone
               PROVE  walk.hits > 0 \/ walk.changing \/ torn
    OBVIOUS
  <2>1. mpc = "data" /\ walk.at > Len(subs)
    BY DEF MessageDone
  <2>2. subs \in Seq(RangeOf(Commands)) /\ walk.at \in Nat
    BY Groups DEF ListsOK, ClientOK
  <2>3. ~Ahead
    BY <2>1, <2>2 DEF Ahead
  <2> QED BY <2>1, <2>3 DEF WalkInv
<1> QED BY <1>1, TypeAlways, WalkAlways, PTL DEF Spec, MessagesPassed

-----------------------------------------------------------------------------
(* Everything *)

(* What mqtt_publications_publish has, or will have, to publish.           *)
Kept == CASE mpc = "flush" -> flushing
          [] mpc = "free"  -> <<>>
          [] OTHER         -> pubs

(* A publication has been sent, is about to be, or waits in the list; and  *)
(* while there is a session the list is empty.                             *)
AllInv ==
  /\ pc \notin {"publish", "send", "add"} => todo = <<>>
  /\ ~torn /\ ~troubled =>
       /\ \A n \in 1 .. last :
            n \in RangeOf(delivered) \union RangeOf(todo) \union RangeOf(Kept)
       /\ isConnected /\ mpc \notin {"flush", "free"} => pubs = <<>>

LEMMA AllClient ==
  TypeInv /\ AllInv /\ (\/ ClientStep \/ MessageArrives \/ NetworkUp
                        \/ NetworkDown \/ Others \/ SessionLost) => AllInv'
<1> SUFFICES ASSUME TypeInv, AllInv,
                    \/ ClientStep \/ MessageArrives \/ NetworkUp
                    \/ NetworkDown \/ Others \/ SessionLost
             PROVE  AllInv'
  OBVIOUS
<1>0. (torn => torn') /\ (troubled => troubled')
  BY TornStays, Zenon DEF Next
<1>1. UNCHANGED <<pc, todo, last>>
  BY Zenon DEF ClientStep, Connected, Flush, Flushed, Free, PostConnected,
     Disconnected, Clear, PostDisconnected, MessageCallback, MessageOther,
     MessageDone, MessageArrives, NetworkUp, NetworkDown, Others, SessionLost,
     task, world
<1>2. ASSUME UNCHANGED <<delivered, pubs>>,
             mpc \notin {"flush", "free"} /\ mpc' \notin {"flush", "free"},
             isConnected' => isConnected
      PROVE  AllInv'
  BY <1>0, <1>1, <1>2 DEF AllInv, Kept
<1>3. CASE \/ PostConnected \/ Disconnected \/ Clear \/ PostDisconnected
           \/ MessageArrives \/ MessageCallback \/ MessageOther \/ MessageDone
  <2>1. UNCHANGED <<delivered, pubs>>
    BY <1>3, Zenon DEF PostConnected, Disconnected, Clear, PostDisconnected,
       MessageArrives, MessageCallback, MessageOther, MessageDone, lists, session
  <2>2. mpc \notin {"flush", "free"} /\ mpc' \notin {"flush", "free"}
    BY <1>3 DEF PostConnected, Disconnected, Clear, PostDisconnected,
       MessageArrives, MessageCallback, MessageOther, MessageDone
  <2>3. isConnected' = isConnected \/ isConnected' = FALSE
    BY <1>3, Zenon DEF PostConnected, Disconnected, Clear, PostDisconnected,
       MessageArrives, MessageCallback, MessageOther, MessageDone
  <2> QED BY <1>2, <2>1, <2>2, <2>3
<1>4. CASE NetworkUp \/ NetworkDown \/ Others \/ SessionLost
  <2>1. UNCHANGED <<delivered, pubs, flushing, mpc, isConnected>>
    BY <1>4, Zenon DEF NetworkUp, NetworkDown, Others, SessionLost, lists,
       session, clientTask
  <2> QED BY <1>0, <1>1, <2>1 DEF AllInv, Kept
<1>5. CASE Connected
  <2>1. UNCHANGED delivered /\ Kept' = Kept /\ mpc' = "flush"
    BY <1>5 DEF Connected, Kept
  <2> QED BY <1>0, <1>1, <2>1 DEF AllInv
<1>6. CASE Flush
  <2> SUFFICES ASSUME ~torn', ~troubled'
               PROVE  \A n \in 1 .. last : n \in RangeOf(delivered')
                        \union RangeOf(todo) \union RangeOf(Kept')
    BY <1>1, <1>6 DEF AllInv, Flush
  <2> DEFINE p == Head(flushing)
  <2>1. /\ mpc = "flush" /\ mpc' = "flush" /\ flushing # <<>>
        /\ flushing' = Tail(flushing)
        /\ Kept = flushing /\ Kept' = flushing'
    BY <1>6 DEF Flush, Kept
  <2>2. /\ delivered \in Seq(Int) /\ p \in Int
        /\ RangeOf(flushing) = RangeOf(flushing') \union {p}
    BY <2>1, Publications, RangeTail
  <2>3. Deliver(p)
    BY <1>6, Zenon DEF Flush
  <2> HIDE DEF p
  <2>4. delivered' = IF p > 0 THEN Append(delivered, p) ELSE delivered
    BY <2>3 DEF Deliver
  <2>5. RangeOf(Append(delivered, p)) = RangeOf(delivered) \union {p}
    BY <2>2, RangeAppend
  <2>6. \A n \in Nat \ {0} : n \in RangeOf(delivered) \union {p}
                             => n \in RangeOf(delivered')
    BY <2>2, <2>4, <2>5
  <2>7. \A n \in 1 .. last :
          n \in RangeOf(delivered) \union RangeOf(todo) \union RangeOf(flushing)
    BY <1>0, <2>1 DEF AllInv
  <2>8. \A n \in 1 .. last : n \in Nat \ {0}
    BY Publications
  <2> QED BY <2>1, <2>2, <2>6, <2>7, <2>8
<1>7. CASE Flushed
  <2>1. UNCHANGED delivered /\ Kept' = Kept /\ mpc' = "free"
    BY <1>7 DEF Flushed, Kept, session
  <2> QED BY <1>0, <1>1, <2>1 DEF AllInv
<1>8. CASE Free
  <2>1. UNCHANGED delivered /\ Kept' = Kept /\ pubs' = <<>>
    BY <1>8 DEF Free, Kept, session
  <2> QED BY <1>0, <1>1, <2>1 DEF AllInv
<1> QED BY <1>3, <1>4, <1>5, <1>6, <1>7, <1>8, Zenon DEF ClientStep

LEMMA AllTask == TypeInv /\ SessionInv /\ AllInv /\ TaskStep => AllInv'
<1> SUFFICES ASSUME TypeInv, SessionInv, AllInv, TaskStep
             PROVE  AllInv'
  OBVIOUS
<1>0. (torn => torn') /\ (troubled => troubled')
  BY TornStays, Zenon DEF Next
<1>1. last \in Nat /\ todo \in Seq(Int) /\ delivered \in Seq(Int)
      /\ pubs \in Seq(Int)
  BY Publications
<1>2. CASE \/ NetworkOnConnected \/ Connect \/ NetworkOnDisconnected \/ Destroy
           \/ MqttOnDisconnected \/ OnMessage \/ Publish \/ Published
           \/ Subscribe \/ List \/ Unsubscribe \/ Unlisted \/ EndOfTopics
  <2>1. UNCHANGED <<delivered, pubs, flushing, mpc, todo, last>>
    BY <1>2, Zenon
       DEF NetworkOnConnected, Connect, NetworkOnDisconnected, Destroy,
           MqttOnDisconnected, OnMessage, Publish, Published, Subscribe, List,
           Unsubscribe, Unlisted, EndOfTopics, lists, session, clientTask, task,
           world
  <2>2. isConnected' => isConnected
    BY <1>2
       DEF NetworkOnConnected, Connect, NetworkOnDisconnected, Destroy,
           MqttOnDisconnected, OnMessage, Publish, Published, Subscribe, List,
           Unsubscribe, Unlisted, EndOfTopics
  <2>3. pc' \notin {"publish", "send", "add"} => todo = <<>>
    BY <1>2
       DEF NetworkOnConnected, Connect, NetworkOnDisconnected, Destroy,
           MqttOnDisconnected, OnMessage, Publish, Published, Subscribe, List,
           Unsubscribe, Unlisted, EndOfTopics, Take, task, AllInv
  <2> QED BY <1>0, <2>1, <2>2, <2>3 DEF AllInv, Kept
<1>3. CASE MqttOnConnected \/ AcChanged \/ HeartbeatPublish
  <2>1. /\ UNCHANGED <<delivered, pubs, flushing, mpc, isConnected>>
        /\ pc' = "publish" /\ pc = "idle"
        /\ \/ last' = last
           \/ last' = last + 1 /\ todo' = <<last + 1>>
    BY <1>3 DEF MqttOnConnected, AcChanged, HeartbeatPublish, StartPublishing,
                Take, lists, session, clientTask
  <2>2. UNCHANGED Kept /\ RangeOf(todo) = {}
    BY <2>1, EmptyOK DEF AllInv, Kept
  <2>3. last' = last + 1 => last + 1 \in RangeOf(todo')
    BY <1>1, <2>1 DEF RangeOf
  <2>4. \A n \in 1 .. last' : n \in 1 .. last \/ (n = last + 1 /\ last' = n)
    BY <1>1, <2>1
  <2> QED BY <1>0, <2>1, <2>2, <2>3, <2>4 DEF AllInv
<1>4. CASE CheckHeartbeat
  <2>1. /\ UNCHANGED <<delivered, pubs, flushing, mpc, isConnected, pc, last>>
        /\ pc = "publish" /\ todo # <<>> /\ Head(todo) = Heartbeat
        /\ todo' = Tail(todo) \/ todo' = <<Uptime>> \o Tail(todo)
    <3>1. <<>> \o Tail(todo) = Tail(todo)
      BY <1>1, HeadTailProperties DEF CheckHeartbeat
    <3>2. /\ UNCHANGED <<delivered, pubs, flushing, mpc, isConnected, pc, last>>
          /\ pc = "publish" /\ todo # <<>> /\ Head(todo) = Heartbeat
      BY <1>4, Zenon DEF CheckHeartbeat, lists, session, clientTask, world
    <3>3. todo' = <<>> \o Tail(todo) \/ todo' = <<Uptime>> \o Tail(todo)
      BY <1>4, Zenon DEF CheckHeartbeat
    <3> QED BY <3>1, <3>2, <3>3
  <2>2. RangeOf(todo) = RangeOf(Tail(todo)) \union {Heartbeat}
        /\ Tail(todo) \in Seq(Int)
    BY <1>1, <2>1, RangeTail
  <2>3. RangeOf(<<Uptime>> \o Tail(todo)) = RangeOf(Tail(todo)) \union {Uptime}
    <3> DEFINE u == Uptime
               r == Tail(todo)
    <3>1. u \in Int /\ r \in Seq(Int)
      BY <2>2 DEF Uptime
    <3> HIDE DEF u, r
    <3>2. RangeOf(<<u>> \o r) = RangeOf(r) \union {u}
      BY <3>1, RangeCons
    <3> QED BY <3>2 DEF u, r
  <2>4. \A n \in 1 .. last : n \in RangeOf(todo) => n \in RangeOf(todo')
    <3>1. Heartbeat \notin 1 .. last
      BY <1>1 DEF Heartbeat
    <3> QED BY <2>1, <2>2, <2>3, <3>1
  <2>5. UNCHANGED Kept
    BY <2>1 DEF Kept
  <2> QED BY <1>0, <2>1, <2>4, <2>5 DEF AllInv
<1>5. CASE Send \/ Add
  <2> DEFINE p == Head(todo)
  <2>1. todo # <<>> /\ todo' = Tail(todo) /\ pc' = "publish" /\ last' = last
        /\ UNCHANGED <<flushing, mpc, isConnected>>
    BY <1>5, Groups DEF Send, Add, TaskOK, clientTask, world
  <2>2. RangeOf(todo) = RangeOf(todo') \union {p} /\ p \in Int
    BY <1>1, <2>1, RangeTail
  <2> SUFFICES ASSUME ~torn', ~troubled'
               PROVE  /\ \A n \in 1 .. last : n \in RangeOf(delivered')
                           \union RangeOf(todo') \union RangeOf(Kept')
                      /\ isConnected /\ mpc \notin {"flush", "free"}
                           => pubs' = <<>>
    BY <2>1 DEF AllInv
  <2>3. /\ \A n \in 1 .. last :
             n \in RangeOf(delivered) \union RangeOf(todo) \union RangeOf(Kept)
        /\ isConnected /\ mpc \notin {"flush", "free"} => pubs = <<>>
    BY <1>0 DEF AllInv
  <2>4. CASE Send
    <3>1. Deliver(p) /\ UNCHANGED pubs /\ UNCHANGED Kept
      BY <2>1, <2>4 DEF Send, lists, Kept
    <3> HIDE DEF p
    <3>2. delivered' = IF p > 0 THEN Append(delivered, p) ELSE delivered
      BY <3>1 DEF Deliver
    <3>3. RangeOf(Append(delivered, p)) = RangeOf(delivered) \union {p}
      BY <1>1, <2>2, RangeAppend
    <3>4. \A n \in 1 .. last : n \in RangeOf(delivered) \union {p}
                               => n \in RangeOf(delivered')
      BY <1>1, <2>2, <3>2, <3>3
    <3> QED BY <2>2, <2>3, <3>1, <3>4
  <2>5. CASE Add
    <3>1. /\ UNCHANGED delivered /\ pubs' = <<p>> \o pubs /\ ~isConnected
          /\ pc # "destroy"
      BY <2>5 DEF Add, session
    <3>2. mpc \notin {"flush", "free"}
      BY <3>1 DEF SessionInv
    <3>3. Kept = pubs /\ Kept' = pubs'
      BY <2>1, <3>2 DEF Kept
    <3> HIDE DEF p
    <3>4. RangeOf(<<p>> \o pubs) = RangeOf(pubs) \union {p}
      BY <1>1, <2>2, RangeCons
    <3> QED BY <2>2, <2>3, <3>1, <3>3, <3>4
  <2> QED BY <1>5, <2>4, <2>5
<1> QED BY <1>2, <1>3, <1>4, <1>5, Zenon DEF TaskStep

LEMMA AllAlways == Spec => []AllInv
<1>1. Init => AllInv
  BY DEF Init, AllInv
<1>2. TypeInv /\ SessionInv /\ AllInv /\ [Next]_vars => AllInv'
  <2>1. UNCHANGED vars /\ AllInv => AllInv'
    BY DEF AllInv, Kept, vars, lists, session, clientTask, task, world, history
  <2> QED BY <2>1, AllClient, AllTask, Zenon DEF Next
<1> QED BY <1>1, <1>2, TypeAlways, SessionAlways, PTL DEF Spec

(* What the handlers publish, offline or online, reaches the broker.       *)
(* [mqtt_publish, mqtt_event_cb]                                           *)
THEOREM AllCorrect == Spec => []AllDelivered
<1>1. TypeInv /\ AllInv => AllDelivered
  <2> SUFFICES ASSUME TypeInv, AllInv, Quiet, isConnected, ~torn, ~troubled
               PROVE  RangeOf(delivered) = 1 .. last
    BY DEF AllDelivered
  <2>1. RangeOf(todo) = {} /\ RangeOf(Kept) = {}
    BY EmptyOK DEF AllInv, Kept, Quiet
  <2>2. RangeOf(delivered) \subseteq 1 .. last
    <3>1. delivered \in Seq(1 .. last)
      BY Groups DEF SessionOK
    <3>2. ASSUME NEW S, NEW s \in Seq(S)
          PROVE  \A j \in DOMAIN s : s[j] \in S
      OBVIOUS
    <3>3. \A j \in DOMAIN delivered : delivered[j] \in 1 .. last
      BY <3>1, <3>2, Zenon
    <3> QED BY <3>3, Zenon DEF RangeOf
  <2> QED BY <2>1, <2>2 DEF AllInv
<1> QED BY <1>1, TypeAlways, AllAlways, PTL

-----------------------------------------------------------------------------
(* Subscriptions *)

(* A session will be, or is being, or has been subscribed for: its start   *)
(* is in the queue, and no end after it; ...                               *)
StartComes ==
  \E k \in DOMAIN queue :
     /\ queue[k] = "MQTT_CONNECTED"
     /\ \A j \in DOMAIN queue : j > k => queue[j] # "MQTT_DISCONNECTED"

(* ... or it has been taken, the topics before the n-th are done, and      *)
(* nothing in the queue undoes them.                                       *)
NoEnd == \A j \in DOMAIN queue : queue[j] # "MQTT_DISCONNECTED"

Done(n) == \A k \in 1 .. n - 1 : /\ Commands[k] \in remote
                                 /\ Commands[k] \in RangeOf(subs)

Publishing == pc \in {"publish", "send", "add"}

Doing ==
  \/ Publishing /\ after = "subscribe"
  \/ pc = "subscribe" /\ Done(i)
  \/ pc = "list" /\ Done(i) /\ Commands[i] \in remote
  \/ (pc \in {"idle", "connect"} \/ Publishing) /\ Done(Len(Commands) + 1)

Served == \/ pc = "destroy" \/ mpc \in {"flush", "free", "post up"}
          \/ StartComes
          \/ NoEnd /\ Doing

SubscribedInv == client = "online" /\ ~torn => Served

(* An event is added, ...                                                  *)
LEMMA PostKeeps ==
  ASSUME TypeInv, NEW e \in Events \ {"MQTT_DISCONNECTED"}, Post(e)
  PROVE  /\ StartComes => StartComes'
         /\ NoEnd => NoEnd'
         /\ e = "MQTT_CONNECTED" => StartComes'
<1> DEFINE n == Len(queue)
           q == queue'
<1>1. /\ n \in Nat /\ DOMAIN queue = 1 .. n /\ DOMAIN q = 1 .. n + 1
      /\ q[n + 1] = e /\ \A j \in 1 .. n : q[j] = queue[j]
  <2>1. queue \in Seq(Events) /\ queue' = Append(queue, e)
    BY Groups, PostOK DEF QueueOK
  <2> QED BY <2>1
<1>2. \A j \in 1 .. n + 1 : j \in 1 .. n \/ j = n + 1
  BY <1>1
<1>3. n + 1 \in 1 .. n + 1 /\ \A j \in 1 .. n : j \in 1 .. n + 1
  BY <1>1
<1>4. NoEnd => NoEnd'
  BY <1>1, <1>2 DEF NoEnd
<1>5. e = "MQTT_CONNECTED" => StartComes'
  <2>1. \A j \in 1 .. n + 1 : ~(j > n + 1)
    BY <1>1
  <2> QED BY <1>1, <1>3, <2>1 DEF StartComes
<1>6. StartComes => StartComes'
  BY <1>1, <1>2, <1>3 DEF StartComes
<1> QED BY <1>4, <1>5, <1>6

(* ... or the first is taken.                                              *)
LEMMA TakeKeeps ==
  ASSUME TypeInv, queue # <<>>, queue' = Tail(queue)
  PROVE  /\ NoEnd => NoEnd'
         /\ StartComes => \/ StartComes'
                          \/ Head(queue) = "MQTT_CONNECTED" /\ NoEnd'
<1> DEFINE q == queue'
           n == Len(q)
<1>1. queue \in Seq(Events)
  BY Groups DEF QueueOK
<1>2. /\ Len(queue) = n + 1 /\ queue[1] = Head(queue) /\ q \in Seq(Events)
      /\ \A j \in 1 .. n : queue[j + 1] = q[j]
  BY <1>1, RangeTail
<1>3. n \in Nat /\ DOMAIN queue = 1 .. n + 1 /\ DOMAIN q = 1 .. n
  BY <1>1, <1>2
<1>4. \A j \in 1 .. n : j + 1 \in 1 .. n + 1 /\ j + 1 > 1
  BY <1>3
<1> HIDE DEF n
<1>5. NoEnd => NoEnd'
  BY <1>2, <1>3, <1>4 DEF NoEnd
<1>6. ASSUME NEW k \in 1 .. n + 1, queue[k] = "MQTT_CONNECTED",
             \A j \in 1 .. n + 1 : j > k => queue[j] # "MQTT_DISCONNECTED"
      PROVE  StartComes' \/ (Head(queue) = "MQTT_CONNECTED" /\ NoEnd')
  <2>1. CASE k = 1
    BY <1>2, <1>3, <1>4, <1>6, <2>1 DEF NoEnd
  <2>2. CASE k # 1
    <3>1. k - 1 \in 1 .. n /\ (k - 1) + 1 = k
      BY <1>3, <2>2
    <3>2. q[k - 1] = "MQTT_CONNECTED"
      BY <1>2, <1>6, <3>1
    <3>3. \A j \in 1 .. n : j > k - 1 => j + 1 > k
      BY <1>3
    <3>4. \A j \in 1 .. n : j > k - 1 => q[j] # "MQTT_DISCONNECTED"
      BY <1>2, <1>4, <1>6, <3>3
    <3> QED BY <1>3, <3>1, <3>2, <3>4 DEF StartComes
  <2> QED BY <2>1, <2>2
<1> QED BY <1>3, <1>5, <1>6 DEF StartComes

(* The client's task, and what is outside.                                 *)
LEMMA SubscribedClient ==
  TypeInv /\ SessionInv /\ SubscribedInv
    /\ (\/ ClientStep \/ MessageArrives \/ NetworkUp \/ NetworkDown \/ Others
        \/ SessionLost) => SubscribedInv'
<1> SUFFICES ASSUME TypeInv, SessionInv, SubscribedInv,
                    \/ ClientStep \/ MessageArrives \/ NetworkUp \/ NetworkDown
                    \/ Others \/ SessionLost
             PROVE  SubscribedInv'
  OBVIOUS
<1>0. torn => torn'
  BY TornStays, Zenon DEF Next
<1>1. CASE NetworkUp \/ NetworkDown \/ Others \/ MessageCallback
  <2>1. UNCHANGED <<client, remote, subs, pc, i, after, mpc>>
    BY <1>1, Zenon DEF NetworkUp, NetworkDown, Others, MessageCallback, lists,
       session, clientTask, task
  <2>2. \E e \in {"NETWORK_CONNECTED", "NETWORK_DISCONNECTED", "CHANGED",
                  "HEARTBEAT_TIMER", "MESSAGE"} : Post(e)
    BY <1>1, Zenon DEF NetworkUp, NetworkDown, Others, MessageCallback
  <2>3. (StartComes => StartComes') /\ (NoEnd => NoEnd')
    BY <2>2, PostKeeps DEF Events
  <2>4. Doing => Doing'
    BY <2>1 DEF Doing, Publishing, Done, RangeOf
  <2> QED BY <1>0, <2>1, <2>3, <2>4 DEF SubscribedInv, Served
<1>2. CASE Connected \/ Flush \/ Flushed \/ Free
  <2>1. mpc' \in {"flush", "free", "post up"}
    BY <1>2 DEF Connected, Flush, Flushed, Free
  <2> QED BY <2>1 DEF SubscribedInv, Served
<1>3. CASE PostConnected
  <2>1. Post("MQTT_CONNECTED")
    BY <1>3, Zenon DEF PostConnected
  <2>2. StartComes'
    BY <2>1, PostKeeps DEF Events
  <2> QED BY <2>2 DEF SubscribedInv, Served
<1>4. CASE Disconnected \/ Clear \/ PostDisconnected \/ SessionLost
  <2>1. client' # "online"
    BY <1>4 DEF Disconnected, Clear, PostDisconnected, SessionLost, SessionInv,
                session
  <2> QED BY <2>1 DEF SubscribedInv
<1>5. CASE MessageArrives \/ MessageOther \/ MessageDone
  <2>1. UNCHANGED <<client, remote, subs, pc, i, after, queue>>
    BY <1>5, Zenon DEF MessageArrives, MessageOther, MessageDone, lists, session,
       task
  <2>2. mpc \notin {"flush", "free", "post up"}
    BY <1>5 DEF MessageArrives, MessageOther, MessageDone
  <2>3. Doing => Doing'
    BY <2>1 DEF Doing, Publishing, Done, RangeOf
  <2>4. (StartComes => StartComes') /\ (NoEnd => NoEnd')
    BY <2>1 DEF StartComes, NoEnd
  <2> QED BY <1>0, <2>1, <2>2, <2>3, <2>4 DEF SubscribedInv, Served
<1> QED BY <1>1, <1>2, <1>3, <1>4, <1>5, Zenon DEF ClientStep

(* An event is taken.                                                      *)
LEMMA SubscribedTake ==
  TypeInv /\ SubscribedInv
    /\ (\/ NetworkOnConnected \/ MqttOnConnected \/ MqttOnDisconnected
        \/ AcChanged \/ HeartbeatPublish \/ OnMessage) => SubscribedInv'
<1> SUFFICES ASSUME TypeInv, SubscribedInv, client = "online", ~torn,
                    \/ NetworkOnConnected \/ MqttOnConnected
                    \/ MqttOnDisconnected \/ AcChanged \/ HeartbeatPublish
                    \/ OnMessage
             PROVE  Served'
  <2>1. ASSUME \/ NetworkOnConnected \/ MqttOnConnected \/ MqttOnDisconnected
               \/ AcChanged \/ HeartbeatPublish \/ OnMessage
        PROVE  UNCHANGED <<client, torn>>
    BY <2>1, Zenon DEF NetworkOnConnected, MqttOnConnected, MqttOnDisconnected,
       AcChanged, HeartbeatPublish, OnMessage, StartPublishing, session, history
  <2> QED BY <2>1 DEF SubscribedInv
<1>1. UNCHANGED <<remote, subs, mpc>>
  BY Zenon DEF NetworkOnConnected, MqttOnConnected, MqttOnDisconnected, AcChanged,
     HeartbeatPublish, OnMessage, StartPublishing, lists, session, clientTask
<1>2. pc = "idle" /\ queue # <<>> /\ queue' = Tail(queue)
  BY DEF NetworkOnConnected, MqttOnConnected, MqttOnDisconnected, AcChanged,
     HeartbeatPublish, OnMessage, Take
<1>3. /\ NoEnd => NoEnd'
      /\ StartComes => \/ StartComes'
                       \/ Head(queue) = "MQTT_CONNECTED" /\ NoEnd'
  BY <1>2, TakeKeeps
<1>4. Served
  BY DEF SubscribedInv
<1>5. \A n : Done(n) => Done(n)'
  BY <1>1 DEF Done, RangeOf
<1>6. CASE MqttOnConnected
  <2>1. pc' = "publish" /\ after' = "subscribe"
    BY <1>6 DEF MqttOnConnected, StartPublishing
  <2> QED BY <1>1, <1>2, <1>3, <1>4, <2>1 DEF Served, Doing, Publishing
<1>7. CASE MqttOnDisconnected
  <2>1. Head(queue) = "MQTT_DISCONNECTED"
    BY <1>7 DEF MqttOnDisconnected, Take
  <2>2. ~NoEnd
    <3>1. queue \in Seq(Events)
      BY Groups DEF QueueOK
    <3>2. 1 \in DOMAIN queue /\ queue[1] = Head(queue)
      BY <1>2, <3>1
    <3> QED BY <2>1, <3>2 DEF NoEnd
  <2> QED BY <1>1, <1>2, <1>3, <1>4, <2>1, <2>2 DEF Served
<1>8. CASE NetworkOnConnected \/ AcChanged \/ HeartbeatPublish \/ OnMessage
  <2>1. pc' \in {"idle", "connect", "publish"}
    BY <1>2, <1>8 DEF NetworkOnConnected, AcChanged, HeartbeatPublish, OnMessage,
                      StartPublishing, task
  <2>2. Head(queue) # "MQTT_CONNECTED"
    BY <1>8 DEF NetworkOnConnected, AcChanged, HeartbeatPublish, OnMessage, Take
  <2>3. Doing => Doing'
    BY <1>2, <1>5, <2>1 DEF Doing, Publishing
  <2> QED BY <1>1, <1>2, <1>3, <1>4, <2>2, <2>3 DEF Served
<1> QED BY <1>6, <1>7, <1>8

(* Between two events.                                                     *)
LEMMA SubscribedTask ==
  TypeInv /\ SessionInv /\ SubscribedInv
    /\ (\/ Connect \/ NetworkOnDisconnected \/ Destroy
        \/ CheckHeartbeat \/ Publish \/ Send \/ Add \/ Published
        \/ Subscribe \/ List \/ Unsubscribe \/ Unlisted \/ EndOfTopics)
    => SubscribedInv'
<1> SUFFICES ASSUME TypeInv, SessionInv, SubscribedInv,
                    \/ Connect \/ NetworkOnDisconnected \/ Destroy
                    \/ CheckHeartbeat \/ Publish \/ Send \/ Add \/ Published
                    \/ Subscribe \/ List \/ Unsubscribe \/ Unlisted
                    \/ EndOfTopics
             PROVE  SubscribedInv'
  OBVIOUS
<1>0. torn => torn'
  BY TornStays, Zenon DEF Next, TaskStep
<1>1. CASE Connect \/ Destroy
  BY <1>1 DEF Connect, Destroy, SubscribedInv
<1>2. CASE NetworkOnDisconnected
  BY <1>2 DEF NetworkOnDisconnected, SubscribedInv, Served
<1>3. CASE ~(Connect \/ Destroy \/ NetworkOnDisconnected)
  <2>1. /\ UNCHANGED <<client, mpc, queue>> /\ pc # "destroy"
    <3>1. UNCHANGED <<client, mpc, queue>>
      BY <1>3, Zenon DEF CheckHeartbeat, Publish, Send, Add, Published, Subscribe,
         List, Unsubscribe, Unlisted, EndOfTopics, Deliver, session, clientTask
    <3>2. pc # "destroy"
      BY <1>3 DEF CheckHeartbeat, Publish, Send, Add, Published, Subscribe,
         List, Unsubscribe, Unlisted, EndOfTopics
    <3> QED BY <3>1, <3>2
  <2>2. (StartComes => StartComes') /\ (NoEnd => NoEnd')
    BY <2>1 DEF StartComes, NoEnd
  <2> SUFFICES ASSUME client = "online", Doing
               PROVE  Doing'
    BY <1>0, <2>1, <2>2 DEF SubscribedInv, Served
  <2>3. isConnected
    BY <2>1 DEF SessionInv
  <2>4. UNCHANGED <<remote, subs>> => \A n : Done(n) => Done(n)'
    BY DEF Done, RangeOf
  <2>5. Len(Commands) \in Nat /\ i \in 1 .. Len(Commands) + 1
    BY CommandAssumption, Groups DEF TaskOK
  <2>6. CASE CheckHeartbeat \/ Publish \/ Send \/ Add
    <3>1. UNCHANGED <<remote, subs, after>>
      BY <2>6, Zenon DEF CheckHeartbeat, Publish, Send, Add, Deliver, lists,
         session
    <3>2. Publishing /\ Publishing'
      BY <2>6 DEF CheckHeartbeat, Publish, Send, Add, Publishing
    <3> QED BY <2>4, <3>1, <3>2 DEF Doing, Publishing
  <2>7. CASE Published
    <3>1. /\ UNCHANGED <<remote, subs>> /\ pc = "publish" /\ pc' = after /\ i' = 1
          /\ after \in {"idle", "subscribe"}
      BY <2>7, Groups DEF Published, lists, session, TaskOK
    <3>2. Done(1)'
      BY DEF Done
    <3> QED BY <2>4, <3>1, <3>2 DEF Doing, Publishing
  <2>8. CASE Subscribe
    <3>1. /\ pc = "subscribe" /\ pc' = "list" /\ i' = i /\ UNCHANGED subs
          /\ remote' = remote \union {Commands[i]}
      BY <2>3, <2>8 DEF Subscribe, lists
    <3>2. Done(i)
      BY <3>1 DEF Doing, Publishing
    <3>3. Done(i)'
      BY <3>1, <3>2 DEF Done, RangeOf
    <3> QED BY <3>1, <3>3 DEF Doing
  <2>9. CASE List
    <3>1. /\ pc = "list" /\ pc' = "subscribe" /\ i' = i + 1 /\ UNCHANGED remote
          /\ subs' = Append(subs, Commands[i])
      BY <2>9 DEF List, session
    <3>2. Done(i) /\ Commands[i] \in remote
      BY <3>1 DEF Doing, Publishing
    <3>3. RangeOf(subs') = RangeOf(subs) \union {Commands[i]}
      <4>1. /\ subs \in Seq(RangeOf(Commands))
            /\ Commands[i] \in RangeOf(Commands)
        BY <3>1, CommandAssumption, Groups DEF ListsOK, TaskOK, RangeOf
      <4> QED BY <3>1, <4>1, RangeAppend
    <3>4. \A k \in 1 .. i' - 1 : k \in 1 .. i - 1 \/ k = i
      BY <2>5, <3>1
    <3>5. Done(i)'
      BY <3>1, <3>2, <3>3, <3>4 DEF Done
    <3> QED BY <3>1, <3>5 DEF Doing
  <2>10. CASE Unsubscribe \/ Unlisted
    BY <2>10 DEF Unsubscribe, Unlisted, Doing, Publishing
  <2>11. CASE EndOfTopics
    <3>1. /\ UNCHANGED <<remote, subs>> /\ pc' = "idle" /\ i > Len(Commands)
          /\ pc \in {"subscribe", "unsubscribe"}
      BY <2>11 DEF EndOfTopics, lists, session
    <3>2. Done(i) /\ i = Len(Commands) + 1
      BY <2>5, <3>1 DEF Doing, Publishing
    <3> QED BY <2>4, <3>1, <3>2 DEF Doing
  <2> QED BY <1>3, <2>6, <2>7, <2>8, <2>9, <2>10, <2>11
<1> QED BY <1>1, <1>2, <1>3

LEMMA SubscribedAlways == Spec => []SubscribedInv
<1>1. Init => SubscribedInv
  BY DEF Init, SubscribedInv
<1>2. TypeInv /\ SessionInv /\ SubscribedInv /\ [Next]_vars => SubscribedInv'
  <2>1. UNCHANGED vars /\ SubscribedInv => SubscribedInv'
    <3> SUFFICES ASSUME UNCHANGED vars
                 PROVE  UNCHANGED SubscribedInv
      OBVIOUS
    <3>1. /\ UNCHANGED StartComes /\ UNCHANGED NoEnd
          /\ UNCHANGED <<client, torn, pc, mpc>>
      BY DEF StartComes, NoEnd, vars, session, clientTask, task, history
    <3>2. UNCHANGED Doing
      BY DEF Doing, Publishing, Done, RangeOf, vars, lists, session, task
    <3> QED BY <3>1, <3>2 DEF SubscribedInv, Served
  <2> QED BY <2>1, SubscribedClient, SubscribedTake, SubscribedTask, Zenon
          DEF Next, TaskStep
<1> QED BY <1>1, <1>2, TypeAlways, SessionAlways, PTL DEF Spec

(* Once everything is handled, a session has every subscription.           *)
(* [mqtt_event_cb, mqtt_on_connected, mqtt_on_disconnected, network_on_*]  *)
THEOREM SubscribedCorrect == Spec => []Subscribed
<1>1. TypeInv /\ SubscribedInv => Subscribed
  <2> SUFFICES ASSUME TypeInv, SubscribedInv, Quiet, client = "online", ~torn
               PROVE  /\ RangeOf(Commands) \subseteq remote
                      /\ RangeOf(Commands) \subseteq RangeOf(subs)
    BY DEF Subscribed
  <2>1. ~StartComes
    BY DEF Quiet, StartComes
  <2>2. Done(Len(Commands) + 1)
    BY <2>1 DEF SubscribedInv, Served, Doing, Publishing, Quiet
  <2>3. /\ Len(Commands) \in Nat /\ DOMAIN Commands = 1 .. Len(Commands)
        /\ (Len(Commands) + 1) - 1 = Len(Commands)
    BY CommandAssumption
  <2>4. \A k \in DOMAIN Commands : /\ Commands[k] \in remote
                                   /\ Commands[k] \in RangeOf(subs)
    BY <2>2, <2>3 DEF Done
  <2> QED BY <2>4, Zenon DEF RangeOf
<1> QED BY <1>1, TypeAlways, SubscribedAlways, PTL

=============================================================================
