---------------------------- MODULE NetworkProofs ----------------------------
(***************************************************************************)
(* Theorems about Network, for every queue length, every configuration and *)
(* any amount of trouble.                                                  *)
(***************************************************************************)
EXTENDS Network, SequenceTheorems, TLAPS

-----------------------------------------------------------------------------
(* Types *)

(* TypeOK is inductive with this: nothing is linked before app_main has    *)
(* initialized it, and an open socket has an output to give back.          *)
TypeInv == /\ TypeOK
           /\ app \in {"init", "start"} => link = "off"
           /\ sock => orig # "null"

EventNames == {"START", "CONNECTED", "DISCONNECTED", "GOT_IP"}
Posts == {"NETWORK_CONNECTED", "NETWORK_DISCONNECTED",
          "MQTT_CONNECTED", "MQTT_DISCONNECTED"}

LEMMA TypeInit == Init => TypeInv
<1> SUFFICES ASSUME Init PROVE TypeInv
  OBVIOUS
<1>1. /\ events \in Seq(EventNames)
      /\ queue \in Seq(Posts) /\ Len(queue) <= QueueLen
      /\ disconnections \in 0 .. Span - 1 /\ trouble \in 0 .. MaxTrouble
  BY QueueAssumption, SpanAssumption, BoundAssumption DEF Init
<1> QED BY <1>1, Zenon DEF Init, TypeInv, TypeOK, EventNames, Posts

(* A reset leaves a state as at the start. *)
LEMMA TypeReboot ==
  ASSUME TypeInv, Reboot, trouble' \in 0 .. MaxTrouble
  PROVE  TypeInv'
<1>1. /\ events' \in Seq(EventNames)
      /\ queue' \in Seq(Posts) /\ Len(queue') <= QueueLen
      /\ disconnections' \in 0 .. Span - 1
  BY QueueAssumption, SpanAssumption DEF Reboot
<1>2. config' \in Configs /\ air' \in BOOLEAN
  BY DEF Reboot, TypeInv, TypeOK
<1> QED BY <1>1, <1>2, Zenon DEF Reboot, TypeInv, TypeOK, EventNames, Posts

(* Trouble stays within its bound. *)
LEMMA TypeTrouble ==
  ASSUME TypeInv, Trouble \/ UNCHANGED trouble
  PROVE  trouble' \in 0 .. MaxTrouble
BY BoundAssumption DEF Trouble, TypeInv, TypeOK

(* An interface that leaves. *)
LEMMA TypeLeave ==
  ASSUME TypeInv, link \in {"joining", "joined"}, Leave
  PROVE  /\ link' \in {"idle", "joining"} /\ mute' = FALSE
         /\ driver' = driver /\ driver # "none"
         /\ events' \in Seq(EventNames)
         /\ UNCHANGED <<netif, address>>
<1>1. events \in Seq(EventNames) /\ driver # "none"
  BY DEF TypeInv, TypeOK, EventNames
<1>2. Append(events, "DISCONNECTED") \in Seq(EventNames)
  BY <1>1 DEF EventNames
<1> QED BY <1>1, <1>2 DEF Leave

LEMMA TypeApp == TypeInv /\ AppMain => TypeInv'
<1> SUFFICES ASSUME TypeInv, AppMain PROVE TypeInv'
  OBVIOUS
<1> USE DEF TypeInv, TypeOK, interface, handler, task, mqtt, log, world, history
<1>1. CASE Initialize
  <2>1. config.net \in {"wifi", "eth"}
    BY ConfigAssumption DEF Configurations
  <2>2. driver' \in {"none", "wifi", "eth"}
    BY <1>1, <2>1 DEF Initialize
  <2> QED BY <1>1, <2>2 DEF Initialize
<1>2. CASE NoEthernet
  BY <1>2, TypeReboot DEF NoEthernet
<1>3. CASE StartAp
  <2>1. CASE Reboot /\ UNCHANGED trouble
    BY <2>1, TypeReboot
  <2>2. CASE driver = "wifi" /\ app' = "done"
    BY <1>3, <2>2 DEF StartAp, Reboot
  <2> QED BY <1>3, <2>1, <2>2 DEF StartAp
<1>4. CASE WifiConnect
  BY <1>4 DEF WifiConnect
<1>5. CASE SetReconnect
  BY <1>5 DEF SetReconnect
<1>6. CASE EthConnect
  BY <1>6 DEF EthConnect
<1> QED BY <1>1, <1>2, <1>3, <1>4, <1>5, <1>6 DEF AppMain

LEMMA TypeWorld ==
  TypeInv /\ (Join \/ NotJoined \/ Left \/ GotIp \/ NewAddress \/ Mute
              \/ AirMoves) => TypeInv'
<1> SUFFICES ASSUME TypeInv, Join \/ NotJoined \/ Left \/ GotIp \/ NewAddress
                             \/ Mute \/ AirMoves
             PROVE  TypeInv'
  OBVIOUS
<1>0. trouble' \in 0 .. MaxTrouble
  BY TypeTrouble DEF Join, NotJoined, Left, GotIp, NewAddress, Mute, AirMoves
<1>1. CASE Join
  BY <1>0, <1>1 DEF Join, WorldOnly, TypeInv, TypeOK, handler, task, mqtt, log, history
<1>2. CASE NotJoined \/ Left
  <2>1. /\ link' \in {"idle", "joining"} /\ mute' = FALSE
        /\ driver' = driver /\ driver # "none"
        /\ events' \in Seq(EventNames)
        /\ UNCHANGED <<netif, address>>
    BY <1>2, TypeLeave DEF NotJoined, Left
  <2>2. app \notin {"init", "start"}
    BY <1>2 DEF NotJoined, Left, TypeInv
  <2>3. mute' \in BOOLEAN /\ ~mute'
    BY <2>1, Zenon
  <2>4. UNCHANGED <<netif, address, shouldReconnect, sock, air, unflagged,
                    twice, leaked, late>>
    BY <1>2, <2>1 DEF NotJoined, Left, WorldOnly, handler, log, history
  <2> QED BY <1>0, <1>2, <2>1, <2>2, <2>3, <2>4
          DEF NotJoined, Left, WorldOnly, TypeInv, TypeOK, EventNames, handler,
              task, mqtt, log, history
<1>3. CASE GotIp \/ NewAddress
  <2>1. late' \in BOOLEAN
    BY <1>3 DEF GotIp, NewAddress, AnnounceAddress, Disconnecting
  <2>2. address' \in BOOLEAN
    BY <1>3, Zenon DEF GotIp, NewAddress, TypeInv, TypeOK
  <2>3. events' \in Seq(EventNames)
    BY <1>3 DEF GotIp, NewAddress, AnnounceAddress, TypeInv, TypeOK, EventNames
  <2>4. UNCHANGED <<AddressOnly, mute>>
    BY <1>3 DEF GotIp, NewAddress
  <2> QED BY <1>0, <2>1, <2>2, <2>3, <2>4
          DEF AddressOnly, TypeInv, TypeOK, EventNames, handler, task, mqtt, log
<1>4. CASE Mute
  <2>1. mute' \in BOOLEAN
    BY <1>4, Zenon DEF Mute
  <2> QED BY <1>0, <1>4, <2>1
          DEF Mute, WorldOnly, TypeInv, TypeOK, handler, task, mqtt, log, history
<1>5. CASE AirMoves
  <2>1. air' \in BOOLEAN
    BY <1>5, Zenon DEF AirMoves
  <2> QED BY <1>0, <1>5, <2>1
          DEF AirMoves, WorldOnly, TypeInv, TypeOK, interface, handler, task,
              mqtt, log, history
<1> QED BY <1>1, <1>2, <1>3, <1>4, <1>5

(* The first of what waits in a queue is taken. *)
LEMMA TakeOK ==
  ASSUME TypeInv, NEW e, Take(e)
  PROVE  queue' \in Seq(Posts) /\ Len(queue') <= QueueLen
<1>1. queue \in Seq(Posts) /\ Len(queue) \in Nat /\ Len(queue) <= QueueLen
      /\ queue # <<>>
  BY DEF TypeInv, TypeOK, Posts, Take
<1>2. Tail(queue) \in Seq(Posts) /\ Len(Tail(queue)) = Len(queue) - 1
  BY <1>1, HeadTailProperties
<1> QED BY <1>1, <1>2, QueueAssumption DEF Take

LEMMA TakeEventOK ==
  ASSUME TypeInv, NEW e, TakeEvent(e)
  PROVE  events' \in Seq(EventNames)
<1>1. events \in Seq(EventNames) /\ events # <<>>
  BY DEF TypeInv, TypeOK, EventNames, TakeEvent
<1>2. Tail(events) \in Seq(EventNames)
  BY <1>1, HeadTailProperties
<1> QED BY <1>2 DEF TakeEvent

LEMMA PostOK ==
  ASSUME TypeInv, NEW e \in Posts, Post(e)
  PROVE  queue' \in Seq(Posts) /\ Len(queue') <= QueueLen
BY QueueAssumption DEF TypeInv, TypeOK, Posts, Post, HasRoom

LEMMA TypeEventLoop == TypeInv /\ EventLoop => TypeInv'
<1> SUFFICES ASSUME TypeInv, EventLoop PROVE TypeInv'
  OBVIOUS
<1> USE DEF TypeInv, TypeOK, EventNames, Posts, task, mqtt, log, world, history
<1>1. CASE StaStart
  BY <1>1, TakeEventOK DEF StaStart, Connect, handler
<1>2. CASE Connected
  BY <1>2, TakeEventOK DEF Connected, handler
<1>3. CASE Disconnected
  <2>1. netif' \in BOOLEAN /\ address' \in BOOLEAN
    BY <1>3, Zenon DEF Disconnected
  <2>2. events' \in Seq(EventNames)
    BY <1>3, TakeEventOK DEF Disconnected
  <2> QED BY <1>3, <2>1, <2>2 DEF Disconnected
<1>4. CASE PostDisconnected
  <2>1. queue' \in Seq(Posts) /\ Len(queue') <= QueueLen
    BY <1>4, PostOK DEF PostDisconnected
  <2> QED BY <1>4, <2>1 DEF PostDisconnected, interface
<1>5. CASE Reconnect
  BY <1>5 DEF Reconnect, Connect
<1>6. CASE GotIpEvent
  BY <1>6, TakeEventOK DEF GotIpEvent
<1>7. CASE PostConnected
  <2>1. queue' \in Seq(Posts) /\ Len(queue') <= QueueLen
    BY <1>7, PostOK DEF PostConnected
  <2> QED BY <1>7, <2>1 DEF PostConnected, interface
<1> QED BY <1>1, <1>2, <1>3, <1>4, <1>5, <1>6, <1>7 DEF EventLoop

LEMMA TypeClient == TypeInv /\ Client => TypeInv'
<1> SUFFICES ASSUME TypeInv, Client PROVE TypeInv'
  OBVIOUS
<1> USE DEF TypeInv, TypeOK, interface, handler, task, log, world, history
<1>1. CASE ClientConnects
  BY <1>1 DEF ClientConnects
<1>2. CASE ClientDisconnected
  <2>1. trouble' \in 0 .. MaxTrouble
    BY <1>2, TypeTrouble DEF ClientDisconnected
  <2> QED BY <1>2, <2>1 DEF ClientDisconnected
<1>3. CASE ClientPosts
  <2>1. queue' \in Seq(Posts) /\ Len(queue') <= QueueLen
    BY <1>3, PostOK DEF ClientPosts, Posts
  <2> QED BY <1>3, <2>1 DEF ClientPosts, Posts
<1> QED BY <1>1, <1>2, <1>3 DEF Client

(* The log's three variables keep their types. *)
LEMMA TypeLog ==
  ASSUME TypeInv, LogStart \/ LogStop
  PROVE  /\ sock' \in BOOLEAN /\ leaked' \in BOOLEAN
         /\ hook' \in {"console", "remote"}
         /\ orig' \in {"null", "console", "remote"}
         /\ hook' = "remote" => orig' # "null"
         /\ sock' => orig' # "null"
<1>1. CASE LogStarts
  BY <1>1 DEF LogStarts, TypeInv, TypeOK
<1>2. CASE LogFails
  BY <1>2 DEF LogFails, TypeInv, TypeOK
<1>3. CASE UNCHANGED log
  BY <1>3 DEF log, TypeInv, TypeOK
<1>4. CASE LogStop
  BY <1>4 DEF LogStop, TypeInv, TypeOK
<1> QED BY <1>1, <1>2, <1>3, <1>4 DEF LogStart

LEMMA TypeTask == TypeInv /\ Task => TypeInv'
<1> SUFFICES ASSUME TypeInv, Task PROVE TypeInv'
  OBVIOUS
<1> USE DEF TypeInv, TypeOK, Posts, handler, mqtt, world, history
<1>1. CASE NetworkOnConnected \/ NetworkOnDisconnected
  <2>1. queue' \in Seq(Posts) /\ Len(queue') <= QueueLen
    BY <1>1, TakeOK DEF NetworkOnConnected, NetworkOnDisconnected
  <2>2. /\ sock' \in BOOLEAN /\ leaked' \in BOOLEAN
        /\ hook' \in {"console", "remote"}
        /\ orig' \in {"null", "console", "remote"}
        /\ hook' = "remote" => orig' # "null"
        /\ sock' => orig' # "null"
    BY <1>1, TypeLog DEF NetworkOnConnected, NetworkOnDisconnected
  <2>3. twice' \in BOOLEAN
    BY <1>1, Zenon DEF NetworkOnConnected, NetworkOnDisconnected
  <2> QED BY <1>1, <2>1, <2>2, <2>3
          DEF NetworkOnConnected, NetworkOnDisconnected, interface
<1>2. CASE MqttOnConnected \/ MqttOnDisconnected
  <2>1. queue' \in Seq(Posts) /\ Len(queue') <= QueueLen
    BY <1>2, TakeOK DEF MqttOnConnected, MqttOnDisconnected
  <2> QED BY <1>2, <2>1 DEF MqttOnConnected, MqttOnDisconnected, interface, log
<1>3. CASE MqttConnect \/ MqttDisconnect \/ Publish
  BY <1>3 DEF MqttConnect, MqttDisconnect, Publish, interface, log
<1>4. CASE CleanUp
  <2>1. disconnections' \in 0 .. Span - 1
    <3>1. disconnections + 1 \in Int /\ Span \in Nat \ {0}
      BY SpanAssumption
    <3>2. (disconnections + 1) % Span \in 0 .. Span - 1
      BY <3>1
    <3> QED BY <1>4, <3>2 DEF CleanUp
  <2>2. CASE UNCHANGED interface
    BY <1>4, <2>1, <2>2 DEF CleanUp, interface, log
  <2>3. CASE link \in {"joining", "joined"} /\ Leave
    <3>1. /\ link' \in {"idle", "joining"} /\ mute' = FALSE
          /\ driver' = driver /\ driver # "none"
          /\ events' \in Seq(EventNames)
          /\ UNCHANGED <<netif, address>>
      BY <2>3, TypeLeave
    <3>2. app' \notin {"init", "start"}
      BY <1>4, <2>3 DEF CleanUp
    <3>3. mute' \in BOOLEAN /\ ~mute'
      BY <3>1, Zenon
    <3> QED BY <1>4, <2>1, <3>1, <3>2, <3>3 DEF CleanUp, EventNames, log
  <2> QED BY <1>4, <2>2, <2>3 DEF CleanUp
<1> QED BY <1>1, <1>2, <1>3, <1>4 DEF Task

(* Every step keeps the types. *)
LEMMA TypeNext == TypeInv /\ [Next]_vars => TypeInv'
<1> SUFFICES ASSUME TypeInv, [Next]_vars PROVE TypeInv'
  OBVIOUS
<1>1. CASE UNCHANGED vars
  BY <1>1 DEF vars, interface, handler, task, mqtt, log, world, history,
              TypeInv, TypeOK
<1>2. CASE Overflow \/ Restart
  <2>1. trouble' \in 0 .. MaxTrouble
    BY <1>2, TypeTrouble DEF Overflow, Restart
  <2> QED BY <1>2, <2>1, TypeReboot DEF Overflow, Restart
<1> QED BY <1>1, <1>2, TypeApp, TypeWorld, TypeEventLoop, TypeClient, TypeTask
        DEF Next

LEMMA TypeAlways == Spec => []TypeInv
BY TypeInit, TypeNext, PTL DEF Spec

(* The types hold always. *)
THEOREM TypeCorrect == Spec => []TypeOK
<1>1. TypeInv => TypeOK
  BY DEF TypeInv
<1> QED BY <1>1, TypeAlways, PTL

-----------------------------------------------------------------------------
(* The remote log *)

(* The log has a socket while the output is hooked, with the console saved *)
(* to be given back; and none once its stop was handled, or without a      *)
(* client, unless one is about to connect.                                 *)
LogInv ==
  ~twice => /\ ~leaked
            /\ sock <=> hook = "remote"
            /\ sock => orig = "console"
            /\ client = "none" /\ pc # "mqtt_connect" => ~sock
            /\ pc = "mqtt_disconnect" => ~sock

(* A reset forgets the log. *)
LEMMA LogReboot == ASSUME Reboot PROVE LogInv'
BY Zenon DEF Reboot, LogInv

(* What does not touch the log, and loses no client. *)
LEMMA LogStill ==
  ASSUME LogInv, UNCHANGED <<sock, hook, orig, leaked, twice>>,
         client' = "none" => client = "none",
         pc = "mqtt_connect" => pc' = pc \/ client' # "none",
         pc' = "mqtt_disconnect" => pc = pc'
  PROVE  LogInv'
BY Zenon DEF LogInv

(* Every step keeps LogInv. *)
LEMMA LogStep == TypeInv /\ LogInv /\ [Next]_vars => LogInv'
<1> SUFFICES ASSUME TypeInv, LogInv, [Next]_vars PROVE LogInv'
  OBVIOUS
<1>1. CASE NoEthernet \/ (StartAp /\ Reboot) \/ Overflow \/ Restart
  BY <1>1, LogReboot DEF NoEthernet, Overflow, Restart
<1>2. CASE NetworkOnConnected
  <2>1. /\ pc = "idle" /\ pc' = "mqtt_connect" /\ client' = client
        /\ twice' = (twice \/ client # "none")
        /\ LogStarts \/ LogFails \/ UNCHANGED log
    BY <1>2 DEF NetworkOnConnected, LogStart, Take, mqtt
  <2> SUFFICES ASSUME ~twice' PROVE LogInv'
    BY Zenon DEF LogInv
  <2>2. ~twice /\ client = "none"
    BY <2>1, Zenon
  <2>3. ~leaked /\ ~sock /\ hook # "remote"
    BY <2>1, <2>2, Zenon DEF LogInv
  <2>4. hook = "console"
    BY <2>3 DEF TypeInv, TypeOK
  <2>5. CASE LogStarts
    <3>1. ~leaked'
      BY <2>3, <2>5, Zenon DEF LogStarts
    <3>2. sock' /\ hook' = "remote" /\ orig' = "console"
      BY <2>4, <2>5, Zenon DEF LogStarts
    <3> QED BY <2>1, <2>2, <3>1, <3>2, Zenon DEF LogInv
  <2>6. CASE LogFails
    <3>1. ~leaked'
      <4>1. leaked' = leaked \/ leaked' = (leaked \/ sock)
        BY <2>6, Zenon DEF LogFails
      <4> QED BY <2>3, <4>1, Zenon
    <3>2. ~sock' /\ hook' = "console"
      BY <2>4, <2>6, Zenon DEF LogFails
    <3> QED BY <2>1, <3>1, <3>2 DEF LogInv
  <2>7. CASE UNCHANGED log
    BY <2>1, <2>3, <2>7 DEF LogInv, log
  <2> QED BY <2>1, <2>5, <2>6, <2>7
<1>3. CASE NetworkOnDisconnected
  <2>1. /\ UNCHANGED <<twice, leaked, orig, client>> /\ ~sock'
        /\ hook' = IF sock THEN orig ELSE hook
    BY <1>3, Zenon DEF NetworkOnDisconnected, LogStop, history, mqtt
  <2>2. ~twice => hook' # "remote"
    BY <2>1, Zenon DEF LogInv
  <2> QED BY <2>1, <2>2, Zenon DEF LogInv
<1>4. CASE MqttDisconnect
  <2>1. UNCHANGED <<sock, hook, orig, leaked, twice>>
        /\ pc = "mqtt_disconnect" /\ pc' = "idle"
    BY <1>4 DEF MqttDisconnect, log, history
  <2> QED BY <2>1 DEF LogInv
<1>5. CASE MqttConnect \/ MqttOnConnected \/ Publish \/ MqttOnDisconnected
           \/ CleanUp
  BY <1>5, LogStill
     DEF MqttConnect, MqttOnConnected, Publish, MqttOnDisconnected, CleanUp,
         Take, mqtt, log, history
<1>6. CASE Client
  BY <1>6, LogStill
     DEF Client, ClientConnects, ClientDisconnected, ClientPosts, task, log, history
<1>7. CASE EventLoop
  BY <1>7, LogStill
     DEF EventLoop, StaStart, Connected, Disconnected, PostDisconnected,
         Reconnect, GotIpEvent, PostConnected, task, mqtt, log, history
<1>8. CASE Join \/ NotJoined \/ Left \/ GotIp \/ NewAddress \/ Mute \/ AirMoves
  BY <1>8, LogStill
     DEF Join, NotJoined, Left, GotIp, NewAddress, AnnounceAddress, Mute,
         AirMoves, WorldOnly, AddressOnly, task, mqtt, log, history
<1>9. CASE Initialize \/ (StartAp /\ ~Reboot) \/ WifiConnect \/ SetReconnect
           \/ EthConnect
  BY <1>9, LogStill
     DEF Initialize, StartAp, WifiConnect, SetReconnect, EthConnect, task,
         mqtt, log, history
<1>10. CASE UNCHANGED vars
  BY <1>10, LogStill DEF vars, task, mqtt, log, history
<1> QED BY <1>1, <1>2, <1>3, <1>4, <1>5, <1>6, <1>7, <1>8, <1>9, <1>10
        DEF Next, AppMain, Task

(* The log follows the network: no socket is forgotten, the output is      *)
(* hooked only while there is a socket, and a socket is there only while   *)
(* there is a client, unless the log was started twice.                    *)
THEOREM LogCorrect == Spec => []LogFollowsNetwork
<1>1. Init => LogInv
  BY Zenon DEF Init, LogInv
<1>2. LogInv => LogFollowsNetwork
  <2> SUFFICES ASSUME LogInv, ~twice PROVE LogFollowsNetwork
    BY Zenon DEF LogFollowsNetwork
  <2>1. ~LogsItself
    BY DEF LogInv, LogsItself
  <2> QED BY <2>1, Zenon DEF LogInv, LogFollowsNetwork
<1> QED BY <1>1, <1>2, LogStep, TypeAlways, PTL DEF Spec

-----------------------------------------------------------------------------
(* Sequences of announcements and reports *)

NoneIn(q, V) == \A i \in 1 .. Len(q) : q[i] \notin V

(* The last element of q that is in V, if there is one, is v. *)
LastIs(q, V, v) ==
  \A i \in 1 .. Len(q) :
    q[i] \in V /\ (\A j \in 1 .. Len(q) : j > i => q[j] \notin V) => q[i] = v

(* No address is announced behind a disconnection. *)
Ordered(q) ==
  \A i, j \in 1 .. Len(q) :
    i < j => ~(q[i] = "DISCONNECTED" /\ q[j] = "GOT_IP")

LEMMA AppendNone ==
  ASSUME NEW S, NEW q \in Seq(S), NEW e \in S, NEW V
  PROVE  NoneIn(Append(q, e), V) <=> NoneIn(q, V) /\ e \notin V
<1> DEFINE r == Append(q, e)
<1>1. /\ Len(q) \in Nat /\ Len(r) = Len(q) + 1 /\ r[Len(q) + 1] = e
      /\ \A i \in 1 .. Len(q) : r[i] = q[i]
  OBVIOUS
<1> HIDE DEF r
<1>2. NoneIn(r, V) => NoneIn(q, V) /\ e \notin V
  BY <1>1 DEF NoneIn
<1>3. NoneIn(q, V) /\ e \notin V => NoneIn(r, V)
  BY <1>1 DEF NoneIn
<1> QED BY <1>2, <1>3 DEF r

LEMMA TailNone ==
  ASSUME NEW S, NEW q \in Seq(S), q # <<>>, NEW V
  PROVE  NoneIn(q, V) <=> Head(q) \notin V /\ NoneIn(Tail(q), V)
<1> DEFINE r == Tail(q)
<1>1. /\ Len(q) \in Nat \ {0} /\ Len(r) = Len(q) - 1 /\ Head(q) = q[1]
      /\ \A i \in 1 .. Len(q) - 1 : r[i] = q[i + 1]
  OBVIOUS
<1> HIDE DEF r
<1>2. ASSUME NoneIn(q, V) PROVE q[1] \notin V /\ NoneIn(r, V)
  BY <1>1, <1>2 DEF NoneIn
<1>3. ASSUME q[1] \notin V, NoneIn(r, V), NEW i \in 1 .. Len(q)
      PROVE  q[i] \notin V
  <2>1. i # 1 => i - 1 \in 1 .. Len(r) /\ r[i - 1] = q[i]
    BY <1>1
  <2> QED BY <1>3, <2>1 DEF NoneIn
<1> QED BY <1>1, <1>2, <1>3 DEF r, NoneIn

LEMMA AppendLast ==
  ASSUME NEW S, NEW q \in Seq(S), NEW e \in S, NEW V, NEW v,
         (e \in V /\ e = v) \/ (e \notin V /\ LastIs(q, V, v))
  PROVE  LastIs(Append(q, e), V, v)
<1> DEFINE r == Append(q, e)
           n == Len(q)
<1>1. /\ n \in Nat /\ Len(r) = n + 1 /\ r[n + 1] = e
      /\ \A i \in 1 .. n : r[i] = q[i]
  OBVIOUS
<1> HIDE DEF r
<1> SUFFICES ASSUME NEW i \in 1 .. Len(r), r[i] \in V,
                    \A j \in 1 .. Len(r) : j > i => r[j] \notin V
             PROVE  r[i] = v
  BY DEF LastIs, r
<1>2. CASE i = n + 1
  BY <1>1, <1>2
<1>3. CASE i # n + 1
  <2>1. i \in 1 .. n /\ n + 1 \in 1 .. Len(r) /\ n + 1 > i
    BY <1>1, <1>3
  <2>2. e \notin V
    BY <1>1, <2>1
  <2>3. q[i] \in V
    BY <1>1, <2>1
  <2>4. \A j \in 1 .. n : j > i => q[j] \notin V
    BY <1>1
  <2> QED BY <1>1, <2>1, <2>2, <2>3, <2>4 DEF LastIs
<1> QED BY <1>2, <1>3

LEMMA TailLast ==
  ASSUME NEW S, NEW q \in Seq(S), q # <<>>, NEW V, NEW v, LastIs(q, V, v)
  PROVE  /\ LastIs(Tail(q), V, v)
         /\ Head(q) \in V /\ NoneIn(Tail(q), V) => Head(q) = v
<1> DEFINE r == Tail(q)
           n == Len(q)
<1>1. /\ n \in Nat \ {0} /\ Len(r) = n - 1 /\ Head(q) = q[1]
      /\ \A i \in 1 .. n - 1 : r[i] = q[i + 1]
  OBVIOUS
<1> HIDE DEF r
<1>2. ASSUME NEW i \in 0 .. n - 1,
             \A j \in 1 .. Len(r) : j > i => r[j] \notin V,
             NEW j \in 1 .. n, j > i + 1
      PROVE  q[j] \notin V
  <2>1. j - 1 \in 1 .. n - 1 /\ j - 1 > i
    BY <1>1, <1>2
  <2>2. r[j - 1] \notin V
    BY <1>1, <1>2, <2>1
  <2> QED BY <1>1, <2>1, <2>2
<1>3. ASSUME NEW i \in 1 .. Len(r), r[i] \in V,
             \A j \in 1 .. Len(r) : j > i => r[j] \notin V
      PROVE  r[i] = v
  <2>1. i + 1 \in 1 .. n /\ i \in 0 .. n - 1 /\ r[i] = q[i + 1]
    BY <1>1
  <2>2. \A j \in 1 .. n : j > i + 1 => q[j] \notin V
    BY <1>2, <1>3, <2>1
  <2> QED BY <1>3, <2>1, <2>2 DEF LastIs
<1>4. ASSUME q[1] \in V, NoneIn(r, V) PROVE q[1] = v
  <2>1. 1 \in 1 .. n /\ 0 \in 0 .. n - 1
    BY <1>1
  <2>2. \A j \in 1 .. Len(r) : j > 0 => r[j] \notin V
    BY <1>4 DEF NoneIn
  <2>3. \A j \in 1 .. n : j > 1 => q[j] \notin V
    BY <1>2, <2>1, <2>2
  <2> QED BY <1>4, <2>1, <2>3 DEF LastIs
<1>5. LastIs(r, V, v)
  BY <1>3 DEF LastIs
<1> QED BY <1>1, <1>4, <1>5 DEF r

LEMMA AppendOrdered ==
  ASSUME NEW S, NEW q \in Seq(S), NEW e \in S, Ordered(q),
         e # "GOT_IP" \/ NoneIn(q, {"DISCONNECTED"})
  PROVE  Ordered(Append(q, e))
<1> DEFINE r == Append(q, e)
           n == Len(q)
<1>1. /\ n \in Nat /\ Len(r) = n + 1 /\ r[n + 1] = e
      /\ \A i \in 1 .. n : r[i] = q[i]
  OBVIOUS
<1> HIDE DEF r
<1> SUFFICES ASSUME NEW i \in 1 .. Len(r), NEW j \in 1 .. Len(r), i < j,
                    r[i] = "DISCONNECTED", r[j] = "GOT_IP"
             PROVE  FALSE
  BY DEF Ordered, r
<1>2. i \in 1 .. n /\ q[i] = "DISCONNECTED"
  BY <1>1
<1>3. e # "GOT_IP"
  BY <1>2 DEF NoneIn
<1>4. j \in 1 .. n /\ q[j] = "GOT_IP"
  BY <1>1, <1>3
<1> QED BY <1>2, <1>4 DEF Ordered

LEMMA TailOrdered ==
  ASSUME NEW S, NEW q \in Seq(S), q # <<>>, Ordered(q)
  PROVE  /\ Ordered(Tail(q))
         /\ Head(q) = "DISCONNECTED" => NoneIn(Tail(q), {"GOT_IP"})
<1> DEFINE r == Tail(q)
           n == Len(q)
<1>1. /\ n \in Nat \ {0} /\ Len(r) = n - 1 /\ Head(q) = q[1]
      /\ \A i \in 1 .. n - 1 : r[i] = q[i + 1]
  OBVIOUS
<1> HIDE DEF r
<1>2. \A i \in 1 .. Len(r) : i + 1 \in 1 .. n /\ r[i] = q[i + 1]
  BY <1>1
<1>3. Ordered(r)
  <2> SUFFICES ASSUME NEW i \in 1 .. Len(r), NEW j \in 1 .. Len(r), i < j,
                      r[i] = "DISCONNECTED", r[j] = "GOT_IP"
               PROVE  FALSE
    BY DEF Ordered
  <2>1. i + 1 < j + 1
    BY <1>1
  <2> QED BY <1>2, <2>1 DEF Ordered
<1>4. ASSUME q[1] = "DISCONNECTED", NEW i \in 1 .. Len(r), r[i] = "GOT_IP"
      PROVE  FALSE
  <2>1. 1 \in 1 .. n /\ i + 1 \in 1 .. n /\ 1 < i + 1 /\ q[i + 1] = "GOT_IP"
    BY <1>1, <1>4
  <2> QED BY <1>4, <2>1 DEF Ordered
<1> QED BY <1>1, <1>3, <1>4 DEF r, NoneIn

-----------------------------------------------------------------------------
(* The client and the network *)

Down    == {"DISCONNECTED"}
Up      == {"GOT_IP"}
Reports == {"NETWORK_CONNECTED", "NETWORK_DISCONNECTED"}
ReportOf(a) == IF a THEN "NETWORK_CONNECTED" ELSE "NETWORK_DISCONNECTED"

(* ac_mitm_task has done, or is about to do, what it was told last.        *)
Handled == /\ pc = "mqtt_connect" => address
           /\ pc = "mqtt_disconnect" => ~address
           /\ pc \notin {"mqtt_connect", "mqtt_disconnect"} =>
                (client # "none" <=> address)

(* With nothing left in the event loop's queue, the newest report is that  *)
(* of the address: the one being posted, the last in event_queue, or the   *)
(* one handled last.                                                       *)
Newest == /\ loop = "post_up" => address
          /\ loop = "post_down" => ~address
          /\ loop \in {"wait", "reconnect"} =>
               /\ LastIs(queue, Reports, ReportOf(address))
               /\ NoneIn(queue, Reports) => Handled

FollowInv ==
  ~late => /\ Ordered(events)
           /\ NoneIn(events, Down) /\ ~NoneIn(events, Up) => address
           /\ NoneIn(events, Down) /\ NoneIn(events, Up) => Newest

(* A reset: nothing on its way, no address and no client. *)
LEMMA FollowReset ==
  ASSUME events = <<>>, queue = <<>>, loop = "wait", pc = "idle",
         client = "none", address = FALSE
  PROVE  FollowInv
<1>1. Ordered(events) /\ NoneIn(events, Up)
  BY DEF Ordered, NoneIn
<1>2. LastIs(queue, Reports, ReportOf(address))
  BY DEF LastIs
<1>3. Handled
  BY DEF Handled
<1> QED BY <1>1, <1>2, <1>3 DEF FollowInv, Newest

LEMMA FollowReboot == ASSUME Reboot PROVE FollowInv'
<1>1. /\ events' = <<>> /\ queue' = <<>> /\ loop' = "wait" /\ pc' = "idle"
      /\ client' = "none" /\ address' = FALSE
  BY DEF Reboot
<1>2. Ordered(events') /\ NoneIn(events', Up)
  BY <1>1 DEF Ordered, NoneIn
<1>3. LastIs(queue', Reports, ReportOf(address'))
  BY <1>1 DEF LastIs
<1>4. Handled'
  BY <1>1 DEF Handled
<1> QED BY <1>1, <1>2, <1>3, <1>4 DEF FollowInv, Newest

(* What leaves the interface and the announcements alone. *)
LEMMA FollowStill ==
  ASSUME FollowInv, UNCHANGED <<events, address, late>>, Newest => Newest'
  PROVE  FollowInv'
<1>1. NoneIn(events', Down) = NoneIn(events, Down)
      /\ NoneIn(events', Up) = NoneIn(events, Up)
      /\ Ordered(events') = Ordered(events)
  BY DEF NoneIn, Ordered
<1> QED BY <1>1, Zenon DEF FollowInv

(* What leaves the reports alone too. *)
LEMMA FollowTask ==
  ASSUME FollowInv, UNCHANGED <<events, address, late, loop, queue>>,
         Handled => Handled'
  PROVE  FollowInv'
<1>1. NoneIn(queue', Reports) = NoneIn(queue, Reports)
      /\ LastIs(queue', Reports, ReportOf(address'))
           = LastIs(queue, Reports, ReportOf(address))
  BY DEF NoneIn, LastIs, ReportOf
<1>2. Newest => Newest'
  BY <1>1, Zenon DEF Newest
<1> QED BY <1>2, FollowStill

(* The interface announces that it has left. *)
LEMMA FollowLeave ==
  ASSUME TypeInv, FollowInv, UNCHANGED late,
         events' = Append(events, "DISCONNECTED")
  PROVE  FollowInv'
<1>1. events \in Seq(EventNames) /\ "DISCONNECTED" \in EventNames
  BY DEF TypeInv, TypeOK, EventNames
<1>2. ~NoneIn(events', Down)
  BY <1>1, AppendNone DEF Down
<1>3. Ordered(events) => Ordered(events')
  BY <1>1, AppendOrdered
<1> QED BY <1>2, <1>3, Zenon DEF FollowInv

(* An announcement that says nothing about the address. *)
LEMMA FollowJoin ==
  ASSUME TypeInv, FollowInv, NEW e \in {"START", "CONNECTED"},
         UNCHANGED <<late, address, loop, queue, pc, client>>,
         events' = Append(events, e)
  PROVE  FollowInv'
<1>1. events \in Seq(EventNames) /\ e \in EventNames
  BY DEF TypeInv, TypeOK, EventNames
<1>2. /\ NoneIn(events', Down) <=> NoneIn(events, Down)
      /\ NoneIn(events', Up) <=> NoneIn(events, Up)
  BY <1>1, AppendNone DEF Down, Up
<1>3. Ordered(events) => Ordered(events')
  BY <1>1, AppendOrdered
<1>4. Newest => Newest'
  BY DEF Newest, Handled, NoneIn, LastIs
<1> QED BY <1>2, <1>3, <1>4, Zenon DEF FollowInv

(* An address is announced. *)
LEMMA FollowAddress ==
  ASSUME TypeInv, FollowInv, AnnounceAddress, address'
  PROVE  FollowInv'
<1> SUFFICES ASSUME ~late' PROVE FollowInv'
  BY Zenon DEF FollowInv
<1>1. events \in Seq(EventNames) /\ "GOT_IP" \in EventNames
      /\ events' = Append(events, "GOT_IP")
  BY DEF TypeInv, TypeOK, EventNames, AnnounceAddress
<1>2. ~Disconnecting
  BY Zenon DEF AnnounceAddress
<1>3. NoneIn(events, Down)
  BY <1>2 DEF Disconnecting, NoneIn, Down
<1>4. ~NoneIn(events', Up)
  BY <1>1, AppendNone DEF Up
<1>5. Ordered(events)
  BY <1>3 DEF Ordered, NoneIn, Down
<1>6. Ordered(events')
  BY <1>1, <1>3, <1>5, AppendOrdered DEF Down
<1> QED BY <1>4, <1>6, Zenon DEF FollowInv

(* The event loop takes an announcement. *)
LEMMA FollowTaken ==
  ASSUME TypeInv, FollowInv, NEW e, TakeEvent(e), UNCHANGED late,
         /\ e = "GOT_IP" => loop' = "post_up" /\ address' = address
         /\ e = "DISCONNECTED" => loop' = "post_down" /\ ~address'
         /\ e \notin {"GOT_IP", "DISCONNECTED"} =>
              UNCHANGED <<address, loop, queue, pc, client>>
  PROVE  FollowInv'
<1> SUFFICES ASSUME ~late' PROVE FollowInv'
  BY Zenon DEF FollowInv
<1>1. /\ events \in Seq(EventNames) /\ events # <<>> /\ Head(events) = e
      /\ events' = Tail(events)
  BY DEF TypeInv, TypeOK, EventNames, TakeEvent
<1>2. ~late /\ Ordered(events)
  BY Zenon DEF FollowInv
<1>3. Ordered(events') /\ (e = "DISCONNECTED" => NoneIn(events', Up))
  BY <1>1, <1>2, TailOrdered DEF Up
<1>4. /\ NoneIn(events, Down) <=> e # "DISCONNECTED" /\ NoneIn(events', Down)
      /\ NoneIn(events, Up) <=> e # "GOT_IP" /\ NoneIn(events', Up)
  BY <1>1, TailNone DEF Down, Up
<1>5. CASE e = "GOT_IP"
  <2>1. loop' = "post_up" /\ address' = address
    BY <1>5
  <2>2. NoneIn(events', Down) => address'
    BY <1>2, <1>4, <1>5, <2>1, Zenon DEF FollowInv
  <2>3. address' => Newest'
    BY <2>1 DEF Newest
  <2> QED BY <1>3, <2>2, <2>3, Zenon DEF FollowInv
<1>6. CASE e = "DISCONNECTED"
  <2>1. Newest'
    BY <1>6 DEF Newest
  <2> QED BY <1>3, <1>6, <2>1, Zenon DEF FollowInv
<1>7. CASE e \notin {"GOT_IP", "DISCONNECTED"}
  <2>1. UNCHANGED <<address, loop, queue, pc, client>>
    BY <1>7
  <2>2. Newest => Newest'
    BY <2>1 DEF Newest, Handled, NoneIn, LastIs
  <2>3. /\ NoneIn(events, Down) <=> NoneIn(events', Down)
        /\ NoneIn(events, Up) <=> NoneIn(events', Up)
    BY <1>4, <1>7
  <2> QED BY <1>2, <1>3, <2>1, <2>2, <2>3, Zenon DEF FollowInv
<1> QED BY <1>5, <1>6, <1>7

(* The event loop posts its report. *)
LEMMA FollowPost ==
  ASSUME TypeInv, FollowInv, NEW up \in BOOLEAN, Post(ReportOf(up)),
         loop = IF up THEN "post_up" ELSE "post_down",
         loop' \in {"wait", "reconnect"},
         UNCHANGED <<events, address, late>>
  PROVE  FollowInv'
<1> SUFFICES ASSUME Newest PROVE Newest'
  BY FollowStill
<1>1. ReportOf(address') = ReportOf(up)
  BY DEF Newest, ReportOf
<1>2. ReportOf(up) \in Reports /\ ReportOf(up) \in Posts
  BY DEF ReportOf, Reports, Posts
<1>3. queue \in Seq(Posts) /\ queue' = Append(queue, ReportOf(up))
  BY DEF TypeInv, TypeOK, Posts, Post
<1>4. LastIs(queue', Reports, ReportOf(up))
  BY <1>2, <1>3, AppendLast
<1>5. ~NoneIn(queue', Reports)
  BY <1>2, <1>3, AppendNone
<1> QED BY <1>1, <1>4, <1>5 DEF Newest

(* The client's task posts one that is none about the network. *)
LEMMA FollowClient ==
  ASSUME TypeInv, FollowInv, NEW e \in Posts \ Reports, Post(e),
         UNCHANGED <<events, address, late, loop, pc, client>>
  PROVE  FollowInv'
<1> SUFFICES ASSUME Newest PROVE Newest'
  BY FollowStill
<1>1. queue \in Seq(Posts) /\ queue' = Append(queue, e)
  BY DEF TypeInv, TypeOK, Posts, Post
<1>2. LastIs(queue, Reports, ReportOf(address))
        => LastIs(queue', Reports, ReportOf(address))
  BY <1>1, AppendLast
<1>3. NoneIn(queue', Reports) <=> NoneIn(queue, Reports)
  BY <1>1, AppendNone
<1>4. Handled' <=> Handled
  BY DEF Handled
<1>5. ReportOf(address') = ReportOf(address)
  OBVIOUS
<1> QED BY <1>2, <1>3, <1>4, <1>5, Zenon DEF Newest

(* ac_mitm_task takes an event. *)
LEMMA FollowTake ==
  ASSUME TypeInv, FollowInv, NEW e, Take(e),
         UNCHANGED <<events, address, late, loop, client>>,
         /\ e = "NETWORK_CONNECTED" => pc' = "mqtt_connect"
         /\ e = "NETWORK_DISCONNECTED" => pc' = "mqtt_disconnect"
         /\ e \notin Reports => pc' \in {"publish", "cleanup"}
  PROVE  FollowInv'
<1> SUFFICES ASSUME Newest PROVE Newest'
  BY FollowStill
<1>1. /\ queue \in Seq(Posts) /\ queue # <<>> /\ Head(queue) = e
      /\ queue' = Tail(queue) /\ pc = "idle"
  BY DEF TypeInv, TypeOK, Posts, Take
<1>2. NoneIn(queue, Reports) <=> e \notin Reports /\ NoneIn(queue', Reports)
  BY <1>1, TailNone
<1>3. ASSUME LastIs(queue, Reports, ReportOf(address))
      PROVE  /\ LastIs(queue', Reports, ReportOf(address'))
             /\ e \in Reports /\ NoneIn(queue', Reports) => e = ReportOf(address)
  BY <1>1, <1>3, TailLast
<1>4. e = ReportOf(address) => Handled'
  BY DEF Handled, ReportOf
<1>5. e \notin Reports /\ Handled => Handled'
  BY <1>1 DEF Handled
<1> QED BY <1>2, <1>3, <1>4, <1>5, Zenon DEF Newest

(* Every step keeps FollowInv. *)
LEMMA FollowStep == TypeInv /\ FollowInv /\ [Next]_vars => FollowInv'
<1> SUFFICES ASSUME TypeInv, FollowInv, [Next]_vars PROVE FollowInv'
  OBVIOUS
<1>1. CASE NoEthernet \/ (StartAp /\ Reboot) \/ Overflow \/ Restart
  BY <1>1, FollowReboot DEF NoEthernet, Overflow, Restart
<1>2. CASE Initialize \/ (StartAp /\ ~Reboot) \/ SetReconnect \/ EthConnect
  BY <1>2, FollowTask
     DEF Initialize, StartAp, SetReconnect, EthConnect, interface, handler,
         task, mqtt, history, Handled
<1>3. CASE WifiConnect
  BY <1>3, FollowJoin DEF WifiConnect, handler, task, mqtt, history
<1>4. CASE Join
  BY <1>4, FollowJoin DEF Join, WorldOnly, handler, task, mqtt, history
<1>5. CASE NotJoined \/ Left
  BY <1>5, FollowLeave DEF NotJoined, Left, Leave, WorldOnly, history
<1>6. CASE GotIp \/ NewAddress
  <2>1. AnnounceAddress
    BY <1>6 DEF GotIp, NewAddress
  <2>2. address'
    <3>1. CASE GotIp
      BY <3>1, Zenon DEF GotIp
    <3>2. CASE NewAddress
      BY <3>2 DEF NewAddress
    <3> QED BY <1>6, <3>1, <3>2
  <2> QED BY <2>1, <2>2, FollowAddress
<1>7. CASE Mute \/ AirMoves
  BY <1>7, FollowTask
     DEF Mute, AirMoves, WorldOnly, interface, handler, task, mqtt, history,
         Handled
<1>8. CASE StaStart \/ Connected
  BY <1>8, FollowTaken DEF StaStart, Connected, handler, task, mqtt, history
<1>9. CASE Disconnected
  <2>1. TakeEvent("DISCONNECTED") /\ UNCHANGED late
    BY <1>9 DEF Disconnected, history
  <2>2. loop' = "post_down" /\ ~address'
    BY <1>9, Zenon DEF Disconnected
  <2> QED BY <2>1, <2>2, FollowTaken
<1>10. CASE GotIpEvent
  BY <1>10, FollowTaken DEF GotIpEvent, history
<1>11. CASE PostDisconnected
  <2>1. Post(ReportOf(FALSE)) /\ loop = "post_down"
        /\ loop' \in {"wait", "reconnect"} /\ UNCHANGED <<events, address, late>>
    BY <1>11 DEF PostDisconnected, ReportOf, interface, history
  <2> QED BY <2>1, FollowPost
<1>12. CASE PostConnected
  <2>1. Post(ReportOf(TRUE)) /\ loop = "post_up" /\ loop' = "wait"
        /\ UNCHANGED <<events, address, late>>
    BY <1>12 DEF PostConnected, ReportOf, interface, history
  <2> QED BY <2>1, FollowPost
<1>13. CASE Reconnect
  <2>1. /\ loop = "reconnect" /\ loop' = "wait"
        /\ UNCHANGED <<events, address, late, queue, pc, client>>
    BY <1>13 DEF Reconnect, task, mqtt
  <2>2. Newest => Newest'
    BY <2>1 DEF Newest, Handled, NoneIn, LastIs, ReportOf
  <2> QED BY <2>1, <2>2, FollowStill
<1>14. CASE ClientConnects \/ ClientDisconnected
  BY <1>14, FollowTask
     DEF ClientConnects, ClientDisconnected, interface, handler, task, history,
         Handled
<1>15. CASE ClientPosts
  <2>1. PICK e \in Posts \ Reports : Post(e)
    BY <1>15 DEF ClientPosts, Posts, Reports
  <2>2. UNCHANGED <<events, address, late, loop, pc, client>>
    BY <1>15 DEF ClientPosts, interface, handler, task, history
  <2> QED BY <2>1, <2>2, FollowClient
<1>16. CASE NetworkOnConnected
  BY <1>16, FollowTake
     DEF NetworkOnConnected, interface, handler, mqtt, Reports
<1>17. CASE NetworkOnDisconnected
  BY <1>17, FollowTake
     DEF NetworkOnDisconnected, interface, handler, mqtt, history, Reports
<1>18. CASE MqttOnConnected \/ MqttOnDisconnected
  BY <1>18, FollowTake
     DEF MqttOnConnected, MqttOnDisconnected, interface, handler, mqtt,
         history, Reports
<1>19. CASE MqttConnect \/ MqttDisconnect \/ Publish
  BY <1>19, FollowTask
     DEF MqttConnect, MqttDisconnect, Publish, interface, handler, mqtt,
         history, Handled
<1>20. CASE CleanUp
  <2>1. CASE UNCHANGED interface
    BY <1>20, <2>1, FollowTask
       DEF CleanUp, interface, handler, mqtt, history, Handled
  <2>2. CASE Leave
    BY <1>20, <2>2, FollowLeave DEF CleanUp, Leave, history
  <2> QED BY <1>20, <2>1, <2>2 DEF CleanUp
<1>21. CASE UNCHANGED vars
  BY <1>21, FollowTask DEF vars, interface, handler, task, mqtt, history, Handled
<1> QED BY <1>1, <1>2, <1>3, <1>4, <1>5, <1>6, <1>7, <1>8, <1>9, <1>10, <1>11,
           <1>12, <1>13, <1>14, <1>15, <1>16, <1>17, <1>18, <1>19, <1>20, <1>21
        DEF Next, AppMain, EventLoop, Client, Task

(* Once all reports are handled there is a client exactly if there is an   *)
(* address, unless an address was announced late.                          *)
THEOREM ClientCorrect == Spec => []ClientFollowsNetwork
<1>1. Init => FollowInv
  BY FollowReset DEF Init
<1>2. FollowInv => ClientFollowsNetwork
  <2> SUFFICES ASSUME FollowInv, Quiet, ~late
               PROVE  client # "none" <=> address
    BY DEF ClientFollowsNetwork
  <2>1. events = <<>> /\ queue = <<>> /\ loop = "wait" /\ pc = "idle"
    BY DEF Quiet
  <2>2. NoneIn(events, Down) /\ NoneIn(events, Up) /\ NoneIn(queue, Reports)
    BY <2>1 DEF NoneIn
  <2>3. Newest
    BY <2>2, Zenon DEF FollowInv
  <2>4. Handled
    BY <2>1, <2>2, <2>3 DEF Newest
  <2> QED BY <2>1, <2>4 DEF Handled
<1> QED BY <1>1, <1>2, FollowStep, TypeAlways, PTL DEF Spec
==============================================================================
