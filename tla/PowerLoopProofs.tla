-------------------------- MODULE PowerLoopProofs ---------------------------
(***************************************************************************)
(* Theorems about PowerLoop, for every length of the two queues and any    *)
(* number of settings that change with a frame.                            *)
(***************************************************************************)
EXTENDS PowerLoop, SequenceTheorems, TLAPS

-----------------------------------------------------------------------------
(* Types *)

(* What is posted is an event that the queue has room for. *)
LEMMA PostOK ==
  ASSUME TypeOK, NEW e \in Events, Post(e)
  PROVE  /\ queue' \in Seq(Events)
         /\ Len(queue') <= QueueLen
BY QueueAssumption DEF TypeOK, Post

(* A taken event leaves a shorter queue. *)
LEMMA TakeOK ==
  ASSUME TypeOK, queue # <<>>, queue' = Tail(queue)
  PROVE  /\ queue' \in Seq(Events)
         /\ Len(queue') <= QueueLen
<1>1. queue \in Seq(Events) /\ Len(queue) <= QueueLen
  BY DEF TypeOK
<1>2. Tail(queue) \in Seq(Events)
      /\ Len(Tail(queue)) = Len(queue) - 1
  BY <1>1, HeadTailProperties
<1> QED BY <1>1, <1>2, QueueAssumption

(* Transmitting adds a frame where there is room, or nothing. *)
LEMMA TransmitOK ==
  ASSUME TypeOK, NEW p \in Bit, NEW d \in Bit, Transmit(p, d)
  PROVE  /\ txq' \in Seq(Frames) /\ Len(txq') <= TxLen
         /\ garbled' \in BOOLEAN
<1> DEFINE new == IF p # d THEN "toggle" ELSE "plain"
<1>1. CASE p = 0 /\ d = 0 /\ UNCHANGED <<txq, garbled>>
  BY <1>1 DEF TypeOK
<1>2. CASE /\ Len(txq) < TxLen
           /\ \E over \in SUBSET (2 .. Len(txq)) :
                txq' = [i \in 1 .. Len(txq) + 1 |->
                          IF i > Len(txq) \/ i \in over THEN new ELSE txq[i]]
           /\ garbled' = \/ \E i \in 2 .. Len(txq) : txq'[i] # txq[i]
                         \/ garbled /\ txq # <<>>
  <2>1. PICK over \in SUBSET (2 .. Len(txq)) :
          txq' = [i \in 1 .. Len(txq) + 1 |->
                    IF i > Len(txq) \/ i \in over THEN new ELSE txq[i]]
    BY <1>2
  <2>2. txq \in Seq(Frames) /\ Len(txq) \in Nat /\ new \in Frames
    BY DEF TypeOK, Frames
  <2>3. \A i \in 1 .. Len(txq) + 1 :
          (IF i > Len(txq) \/ i \in over THEN new ELSE txq[i]) \in Frames
    BY <2>2
  <2>4. txq' \in Seq(Frames) /\ Len(txq') = Len(txq) + 1
    BY <2>1, <2>2, <2>3
  <2> QED BY <1>2, <2>2, <2>4, TxAssumption
<1> QED BY <1>1, <1>2 DEF Transmit

LEMMA TypeInit == Init => TypeOK
<1> SUFFICES ASSUME Init PROVE TypeOK
  OBVIOUS
<1>1. /\ queue \in Seq(Events) /\ Len(queue) <= QueueLen
      /\ txq \in Seq(Frames) /\ Len(txq) <= TxLen
  BY QueueAssumption, TxAssumption DEF Init, OutputReset, Frames
<1>2. /\ power \in Bit /\ detected \in Bit /\ level \in Bit /\ acOn \in Bit
      /\ changes \in 0 .. MaxSettings + 1
  BY SettingAssumption DEF Init, Bit
<1> QED BY <1>1, <1>2, Zenon DEF Init, TypeOK

(* The unit, the receiver and the transmitter. *)
LEMMA TypeWorld ==
  TypeOK /\ (PressButton \/ FrameSent \/ Receive \/ Arrive \/ Bounce \/ Restart)
    => TypeOK'
<1> SUFFICES ASSUME TypeOK, \/ PressButton \/ FrameSent \/ Receive \/ Arrive
                            \/ Bounce \/ Restart
             PROVE  TypeOK'
  OBVIOUS
<1>1. CASE PressButton
  <2>1. acOn' \in Bit
    BY <1>1 DEF TypeOK, PressButton, Switch, Bit
  <2>2. edge' \in BOOLEAN
    BY <1>1, Zenon DEF TypeOK, PressButton, Switch
  <2>3. reading' \in {"none", "good", "missed"}
    BY <1>1 DEF TypeOK, PressButton, Switch
  <2> QED BY <1>1, <2>1, <2>2, <2>3 DEF TypeOK, PressButton, Switch, state, task
<1>2. CASE FrameSent
  <2>1. txq \in Seq(Frames) /\ Len(txq) \in Nat /\ Len(txq) <= TxLen /\ txq # <<>>
    BY <1>2 DEF FrameSent, TypeOK
  <2>2. Tail(txq) \in Seq(Frames) /\ Len(Tail(txq)) = Len(txq) - 1
    BY <2>1, HeadTailProperties
  <2>3. ASSUME Len(txq) > 1
        PROVE  /\ <<"plain">> \o Tail(Tail(txq)) \in Seq(Frames)
               /\ Len(<<"plain">> \o Tail(Tail(txq))) = Len(txq) - 1
    <3>1. Tail(txq) # <<>>
      <4>1. Len(Tail(txq)) # 0
        BY <2>1, <2>2, <2>3
      <4>2. Len(<<>>) = 0
        OBVIOUS
      <4> QED BY <4>1, <4>2, Zenon
    <3>2. /\ Tail(Tail(txq)) \in Seq(Frames)
          /\ Len(Tail(Tail(txq))) = Len(txq) - 2
      BY <2>1, <2>2, <3>1, HeadTailProperties
    <3>3. <<"plain">> \in Seq(Frames) /\ Len(<<"plain">>) = 1
      BY DEF Frames
    <3> QED BY <2>1, <3>2, <3>3, ConcatProperties
  <2>4. txq' \in Seq(Frames) /\ Len(txq') <= TxLen /\ garbled' \in BOOLEAN
    <3>1. CASE txq' = Tail(txq) /\ UNCHANGED garbled
      BY <2>1, <2>2, <3>1, TxAssumption DEF TypeOK
    <3>2. CASE /\ Len(txq) > 1
               /\ txq' = <<"plain">> \o Tail(Tail(txq))
               /\ garbled' = TRUE
      BY <2>1, <2>3, <3>2, TxAssumption
    <3> QED BY <1>2, <3>1, <3>2, Zenon DEF FrameSent
  <2>5. acOn' \in Bit /\ UNCHANGED <<intr, pc, level>>
    BY <1>2 DEF FrameSent, Switch, TypeOK, Bit, detector
  <2>6. edge' \in BOOLEAN
    BY <1>2, Zenon DEF FrameSent, Switch, TypeOK, detector
  <2>8. reading' \in {"none", "good", "missed"}
    BY <1>2 DEF FrameSent, Switch, TypeOK, detector
  <2>7. UNCHANGED <<state, task, queue, unsent>>
    BY <1>2 DEF FrameSent
  <2> QED BY <2>4, <2>5, <2>6, <2>7, <2>8 DEF TypeOK, state, task
<1>3. CASE Receive \/ Arrive
  <2>1. queue' \in Seq(Events) /\ Len(queue') <= QueueLen
    BY <1>3, PostOK DEF Receive, Arrive, Commands, Events
  <2> QED BY <1>3, <2>1 DEF Receive, Arrive, TypeOK, state, task, detector
<1>4. CASE Bounce
  BY <1>4 DEF TypeOK, Bounce, state, task
<1>5. CASE Restart
  <2>1. /\ queue' \in Seq(Events) /\ Len(queue') <= QueueLen
        /\ txq' \in Seq(Frames) /\ Len(txq') <= TxLen
    BY <1>5, QueueAssumption, TxAssumption DEF Restart, OutputReset, Frames
  <2>2. /\ power' \in Bit /\ detected' \in Bit /\ level' \in Bit
        /\ acOn' \in Bit /\ changes' \in 0 .. MaxSettings + 1
    BY <1>5, SettingAssumption DEF Restart, TypeOK, Bit
  <2> QED BY <1>5, <2>1, <2>2, Zenon DEF Restart, TypeOK
<1> QED BY <1>1, <1>2, <1>3, <1>4, <1>5

(* The handlers of ac_mitm_task. *)
LEMMA TypeHandlers == TypeOK /\ Handler => TypeOK'
<1> SUFFICES ASSUME TypeOK, Handler PROVE TypeOK'
  OBVIOUS
<1>1. queue # <<>> /\ queue' = Tail(queue)
  BY DEF Handler, HandleCommand, TurnDown, HandleChange, HandleReport, Handles
<1>2. queue' \in Seq(Events) /\ Len(queue') <= QueueLen
  BY <1>1, TakeOK
<1>3. CASE HandleCommand
  <2>1. power' \in Bit
    BY <1>3 DEF HandleCommand, Wanted, TypeOK, Bit
  <2>2. PICK n \in OtherChanges(Head(queue)) :
          changes' = n + (IF power' # power THEN 1 ELSE 0)
    BY <1>3 DEF HandleCommand
  <2>3. n \in 0 .. MaxSettings
    BY <2>2, SettingAssumption DEF OtherChanges
  <2>4. changes' \in 0 .. MaxSettings + 1
    BY <2>2, <2>3, SettingAssumption
  <2>5. at' \in {"idle", "mode", "send", "publish"}
    BY <1>3 DEF HandleCommand
  <2> QED BY <1>2, <1>3, <2>1, <2>4, <2>5 DEF HandleCommand, TypeOK, detector
<1>4. CASE TurnDown
  BY <1>2, <1>4 DEF TurnDown, TypeOK, state, task, detector
<1>5. CASE HandleChange
  BY <1>2, <1>5 DEF HandleChange, TypeOK, state, detector
<1>6. CASE HandleReport
  <2>1. detected' \in Bit
    <3>1. detected' = 0 \/ detected' = 1
      BY <1>6, Zenon DEF HandleReport, Reported
    <3> QED BY <3>1 DEF Bit
  <2>2. at' \in {"idle", "mode", "send", "publish"}
    BY <1>6 DEF HandleReport, Answer
  <2>3. unsent' \in BOOLEAN
    BY <1>6, Zenon DEF HandleReport
  <2>4. UNCHANGED <<acOn, power, changes, txq, detector, reading, garbled>>
    BY <1>6 DEF HandleReport
  <2> QED BY <1>2, <2>1, <2>2, <2>3, <2>4 DEF TypeOK, detector
<1> QED BY <1>3, <1>4, <1>5, <1>6 DEF Handler

(* The other steps of the tasks. *)
LEMMA TypeTasks == TypeOK /\ (Task \/ Detector) => TypeOK'
<1> SUFFICES ASSUME TypeOK, Task \/ Detector PROVE TypeOK'
  OBVIOUS
<1>1. CASE PostChange
  <2>1. queue' \in Seq(Events) /\ Len(queue') <= QueueLen
    BY <1>1, PostOK DEF PostChange, Events
  <2>2. changes' \in 0 .. MaxSettings + 1
    BY <1>1, SettingAssumption DEF PostChange, TypeOK
  <2> QED BY <1>1, <2>1, <2>2 DEF PostChange, TypeOK, state, detector
<1>2. CASE SetMode
  <2>1. changes' \in 0 .. MaxSettings + 1
    BY <1>2, SettingAssumption DEF SetMode, TypeOK
  <2>2. unsent' \in BOOLEAN
    BY <1>2, Zenon DEF SetMode, TypeOK
  <2>3. at' \in {"idle", "mode", "send", "publish"}
    BY <1>2 DEF SetMode
  <2>4. UNCHANGED <<acOn, state, queue, txq, detector, reading, garbled>>
    BY <1>2 DEF SetMode
  <2> QED BY <2>1, <2>2, <2>3, <2>4 DEF TypeOK, state, detector
<1>3. CASE Send
  <2>1. txq' \in Seq(Frames) /\ Len(txq') <= TxLen /\ garbled' \in BOOLEAN
    BY <1>3, TransmitOK DEF Send, TypeOK
  <2> QED BY <1>3, <2>1 DEF Send, TypeOK, state, detector
<1>4. CASE Publish
  BY <1>4 DEF Publish, TypeOK, state, detector
<1>5. CASE PostReport
  <2>1. queue' \in Seq(Events) /\ Len(queue') <= QueueLen
    BY <1>5, PostOK DEF PostReport, Report, Reports, Events
  <2> QED BY <1>5, <2>1 DEF PostReport, DetectorStep, TypeOK, state, task, Bit
<1>6. CASE Wake \/ Disable \/ Read \/ Enable
  BY <1>6 DEF Wake, Disable, Read, Enable, DetectorStep, TypeOK, state, task
<1> QED BY <1>1, <1>2, <1>3, <1>4, <1>5, <1>6, TypeHandlers DEF Task, Detector

(* The types hold in every reachable state. *)
THEOREM TypeCorrect == Spec => []TypeOK
<1>1. TypeOK /\ [Next]_vars => TypeOK'
  <2> SUFFICES ASSUME TypeOK, [Next]_vars PROVE TypeOK'
    OBVIOUS
  <2>1. CASE UNCHANGED vars
    BY <2>1 DEF TypeOK, vars, state, task, detector
  <2>2. CASE Next
    BY <2>2, TypeWorld, TypeTasks DEF Next, Loop, Disturbance
  <2> QED BY <2>1, <2>2
<1> QED BY <1>1, TypeInit, PTL DEF Spec

-----------------------------------------------------------------------------
(* What the task knows of the unit *)

NoneAfter(q, i) == \A j \in 1 .. Len(q) : j > i => q[j] \notin Reports

(* The last report in a queue, if there is one, is of level l. *)
LastIs(q, l) ==
  \A i \in 1 .. Len(q) : q[i] \in Reports /\ NoneAfter(q, i) => q[i] = Report(l)

(* The newest report is of level l: the last one in the queue, or, when    *)
(* none is there, the one that was handled last.                           *)
NewestIs(l) == /\ LastIs(queue, l)
               /\ NoneAfter(queue, 0) => detected = l

(* Follows the level that was read from the pin to the state.              *)
DetectedInv ==
  /\ intr <=> pc \in {"wait", "woken"}
  /\ pc \in {"report", "enable"} => reading # "none"
  /\ reading = "good" /\ pc = "report" => level = acOn
  /\ reading = "good" /\ (pc = "enable" \/ (pc = "wait" /\ ~edge)) => NewestIs(acOn)

(* Behind another event the last report stays the last. *)
LEMMA AppendOther ==
  ASSUME NEW q \in Seq(Events), NEW e, e \notin Reports, NEW l
  PROVE  /\ LastIs(q, l) => LastIs(Append(q, e), l)
         /\ NoneAfter(Append(q, e), 0) => NoneAfter(q, 0)
<1> DEFINE r == Append(q, e)
           n == Len(q)
<1>1. /\ n \in Nat /\ Len(r) = n + 1 /\ r[n + 1] = e
      /\ \A i \in 1 .. n : r[i] = q[i]
  OBVIOUS
<1>2. e \notin Reports
  OBVIOUS
<1> HIDE DEF r
<1>3. \A i \in 0 .. n : NoneAfter(r, i) => NoneAfter(q, i)
  BY <1>1 DEF NoneAfter
<1>4. ASSUME LastIs(q, l), NEW i \in 1 .. Len(r), r[i] \in Reports,
             NoneAfter(r, i)
      PROVE  r[i] = Report(l)
  <2>1. i \in 1 .. n /\ q[i] \in Reports /\ NoneAfter(q, i)
    BY <1>1, <1>2, <1>3, <1>4
  <2> QED BY <1>1, <1>4, <2>1 DEF LastIs
<1>5. LastIs(q, l) => LastIs(r, l)
  BY <1>4 DEF LastIs
<1> QED BY <1>1, <1>3, <1>5 DEF r

(* A report that is appended is the last. *)
LEMMA AppendReport ==
  ASSUME NEW q \in Seq(Events), NEW l
  PROVE  /\ LastIs(Append(q, Report(l)), l)
         /\ ~NoneAfter(Append(q, Report(l)), 0)
<1> DEFINE r == Append(q, Report(l))
           n == Len(q)
<1>1. n \in Nat /\ Len(r) = n + 1 /\ r[n + 1] = Report(l)
  OBVIOUS
<1>2. Report(l) \in Reports
  BY DEF Report, Reports
<1> HIDE DEF r
<1>3. \A i \in 0 .. n : ~NoneAfter(r, i)
  BY <1>1, <1>2 DEF NoneAfter
<1>4. LastIs(r, l)
  BY <1>1, <1>3 DEF LastIs
<1> QED BY <1>1, <1>3, <1>4 DEF r

(* Taking the first event leaves the last report, unless it was that one. *)
LEMMA TailLast ==
  ASSUME NEW q \in Seq(Events), q # <<>>, NEW l
  PROVE  /\ LastIs(q, l) => LastIs(Tail(q), l)
         /\ Head(q) \notin Reports /\ NoneAfter(Tail(q), 0) => NoneAfter(q, 0)
         /\ LastIs(q, l) /\ Head(q) \in Reports /\ NoneAfter(Tail(q), 0)
              => Head(q) = Report(l)
<1> DEFINE r == Tail(q)
           n == Len(q)
<1>1. /\ n \in Nat \ {0} /\ Len(r) = n - 1 /\ Head(q) = q[1]
      /\ \A i \in 1 .. n - 1 : r[i] = q[i + 1]
  OBVIOUS
<1> HIDE DEF r, n
<1>2. ASSUME NEW i \in 0 .. n - 1, NoneAfter(r, i) PROVE NoneAfter(q, i + 1)
  <2> SUFFICES ASSUME NEW j \in 1 .. n, j > i + 1 PROVE q[j] \notin Reports
    BY DEF NoneAfter, n
  <2>1. j - 1 \in 1 .. n - 1 /\ j - 1 > i
    BY <1>1
  <2>2. r[j - 1] \notin Reports
    BY <1>1, <1>2, <2>1 DEF NoneAfter
  <2> QED BY <1>1, <2>1, <2>2
<1>3. ASSUME LastIs(q, l), NEW i \in 1 .. n - 1, r[i] \in Reports,
             NoneAfter(r, i)
      PROVE  r[i] = Report(l)
  <2>1. i + 1 \in 1 .. n /\ q[i + 1] \in Reports /\ NoneAfter(q, i + 1)
    BY <1>1, <1>2, <1>3
  <2>2. q[i + 1] = Report(l)
    BY <1>3, <2>1 DEF LastIs, n
  <2> QED BY <1>1, <2>2
<1>4. LastIs(q, l) => LastIs(r, l)
  BY <1>1, <1>3 DEF LastIs
<1>5. NoneAfter(r, 0) => NoneAfter(q, 1)
  BY <1>1, <1>2
<1>6. NoneAfter(r, 0) /\ q[1] \notin Reports => NoneAfter(q, 0)
  BY <1>1, <1>5 DEF NoneAfter, n
<1>7. LastIs(q, l) /\ q[1] \in Reports /\ NoneAfter(r, 0) => q[1] = Report(l)
  BY <1>1, <1>5 DEF LastIs, n
<1> QED BY <1>1, <1>4, <1>6, <1>7 DEF r

(* Posting a report or something else; handling the one and the other. *)
LEMMA NewestPost ==
  ASSUME TypeOK, NEW l, NewestIs(l), NEW e, e \notin Reports, Post(e),
         UNCHANGED detected
  PROVE  NewestIs(l)'
<1>1. queue \in Seq(Events) /\ queue' = Append(queue, e)
  BY DEF TypeOK, Post
<1>2. /\ LastIs(queue, l) => LastIs(queue', l)
      /\ NoneAfter(queue', 0) => NoneAfter(queue, 0)
  BY <1>1, AppendOther
<1> QED BY <1>2, Zenon DEF NewestIs

LEMMA NewestReport ==
  ASSUME TypeOK, NEW l, Post(Report(l))
  PROVE  LastIs(queue', l) /\ ~NoneAfter(queue', 0)
<1>1. queue \in Seq(Events) /\ queue' = Append(queue, Report(l))
  BY DEF TypeOK, Post
<1> QED BY <1>1, AppendReport

LEMMA NewestOther ==
  ASSUME TypeOK, NEW l, NewestIs(l), HandleCommand \/ TurnDown \/ HandleChange
  PROVE  NewestIs(l)'
<1>1. /\ queue \in Seq(Events) /\ queue # <<>> /\ queue' = Tail(queue)
      /\ Head(queue) \notin Reports
  BY DEF TypeOK, HandleCommand, TurnDown, HandleChange, Handles, Commands, Mqtt,
         Remote, Reports
<1>2. /\ LastIs(queue, l) => LastIs(queue', l)
      /\ NoneAfter(queue', 0) => NoneAfter(queue, 0)
  BY <1>1, TailLast
<1>3. detected' = detected
  BY DEF HandleCommand, TurnDown, HandleChange, state
<1> QED BY <1>2, <1>3, Zenon DEF NewestIs

LEMMA NewestHandled ==
  ASSUME TypeOK, NEW l \in Bit, NewestIs(l), HandleReport
  PROVE  NewestIs(l)'
<1>1. /\ queue \in Seq(Events) /\ queue # <<>> /\ queue' = Tail(queue)
      /\ Head(queue) \in Reports
  BY DEF TypeOK, HandleReport, Handles
<1>2. LastIs(queue, l)
  BY DEF NewestIs
<1>3. /\ LastIs(queue', l)
      /\ NoneAfter(queue', 0) => Head(queue) = Report(l)
  BY <1>1, <1>2, TailLast
<1>4. detected' = IF Head(queue) = "detected 1" THEN 1 ELSE 0
  BY Zenon DEF HandleReport, Reported
<1>5. ASSUME Head(queue) = Report(l) PROVE detected' = l
  <2>1. detected' = IF Report(l) = "detected 1" THEN 1 ELSE 0
    BY <1>4, <1>5, Zenon
  <2> QED BY <2>1 DEF Report, Bit
<1> QED BY <1>3, <1>5, Zenon DEF NewestIs

(* The unit and its pin: a switch is seen, will be, or is missed. *)
LEMMA DetectedSwitch ==
  ASSUME TypeOK, DetectedInv, Switch, UNCHANGED <<queue, detected>>
  PROVE  DetectedInv'
<1>1. intr' = intr /\ pc' = pc /\ edge' = (edge \/ intr)
  BY DEF Switch
<1>2. pc = "wait" => edge'
  BY <1>1, Zenon DEF DetectedInv
<1>3. pc \in {"report", "enable"} => reading' = "missed"
  BY DEF Switch
<1>4. (intr <=> pc \in {"wait", "woken"})'
  BY <1>1, Zenon DEF DetectedInv
<1>5. (pc \in {"report", "enable"} => reading # "none")'
  BY <1>1, <1>3
<1>6. pc' \in {"report", "enable"} => reading' # "good"
  BY <1>1, <1>3
<1> QED BY <1>1, <1>2, <1>4, <1>5, <1>6 DEF DetectedInv

(* What does not move the pin, the detector's task or the queue's reports. *)
LEMMA DetectedStill ==
  ASSUME TypeOK, DetectedInv, UNCHANGED <<acOn, intr, pc, level, reading, edge>>,
         \A l \in Bit : NewestIs(l) => NewestIs(l)'
  PROVE  DetectedInv'
<1>1. acOn \in Bit
  BY DEF TypeOK
<1>2. NewestIs(acOn) => NewestIs(acOn)'
  BY <1>1, Zenon DEF NewestIs
<1> QED BY <1>2, Zenon DEF DetectedInv

(* The steps of ac_mitm_task and of those who post to it. *)
LEMMA DetectedTask ==
  ASSUME TypeOK, DetectedInv, Receive \/ Arrive \/ Task
  PROVE  DetectedInv'
<1>1. UNCHANGED <<acOn, intr, pc, level, reading, edge>>
  BY DEF Receive, Arrive, Task, Handler, HandleCommand, TurnDown, HandleChange,
         HandleReport, PostChange, SetMode, Send, Publish, detector
<1>2. CASE Receive \/ Arrive \/ PostChange
  <2>1. PICK e : Post(e) /\ e \notin Reports
    <3>1. CASE Receive
      BY <3>1 DEF Receive, Remote, Reports
    <3>2. CASE Arrive
      BY <3>2 DEF Arrive, Mqtt, Reports
    <3>3. CASE PostChange
      <4>1. Post("changed") /\ "changed" \notin Reports
        BY <3>3 DEF PostChange, Reports
      <4> QED BY <4>1, Zenon
    <3> QED BY <1>2, <3>1, <3>2, <3>3
  <2>2. UNCHANGED detected
    BY <1>2 DEF Receive, Arrive, PostChange, state
  <2>3. \A l \in Bit : NewestIs(l) => NewestIs(l)'
    BY <2>1, <2>2, NewestPost
  <2> QED BY <1>1, <2>3, DetectedStill
<1>3. CASE HandleCommand \/ TurnDown \/ HandleChange
  <2>1. \A l \in Bit : NewestIs(l) => NewestIs(l)'
    BY <1>3, NewestOther
  <2> QED BY <1>1, <2>1, DetectedStill
<1>4. CASE HandleReport
  <2>1. \A l \in Bit : NewestIs(l) => NewestIs(l)'
    BY <1>4, NewestHandled
  <2> QED BY <1>1, <2>1, DetectedStill
<1>5. CASE SetMode \/ Send \/ Publish
  <2>1. UNCHANGED <<queue, detected>>
    BY <1>5 DEF SetMode, Send, Publish, state
  <2>2. \A l \in Bit : NewestIs(l) => NewestIs(l)'
    BY <2>1 DEF NewestIs
  <2> QED BY <1>1, <2>2, DetectedStill
<1> QED BY <1>2, <1>3, <1>4, <1>5 DEF Task, Handler

(* Every step keeps DetectedInv. *)
LEMMA DetectedNext == TypeOK /\ DetectedInv /\ Next => DetectedInv'
<1> SUFFICES ASSUME TypeOK, DetectedInv, Next PROVE DetectedInv'
  OBVIOUS
<1>0. acOn \in Bit /\ level \in Bit
  BY DEF TypeOK
<1>1. CASE PressButton
  BY <1>1, DetectedSwitch DEF PressButton, state
<1>2. CASE FrameSent
  <2>1. UNCHANGED <<queue, detected>>
    BY <1>2 DEF FrameSent, state
  <2>2. CASE Switch
    BY <2>1, <2>2, DetectedSwitch
  <2>3. CASE UNCHANGED <<acOn, detector, reading>>
    BY <2>1, <2>3, DetectedStill DEF detector, NewestIs
  <2> QED BY <1>2, <2>2, <2>3, Zenon DEF FrameSent
<1>3. CASE Receive \/ Arrive \/ Task
  BY <1>3, DetectedTask
<1>4. CASE Wake \/ Disable
  BY <1>4, Zenon DEF Wake, Disable, DetectorStep, DetectedInv
<1>5. CASE Read
  <2>1. level' = acOn' /\ pc' = "report" /\ ~intr' /\ reading' = "good"
    BY <1>5 DEF Read, DetectorStep, DetectedInv
  <2> QED BY <2>1 DEF DetectedInv
<1>6. CASE PostReport
  <2>1. /\ pc = "report" /\ pc' = "enable" /\ acOn' = acOn
        /\ UNCHANGED <<intr, reading>> /\ Post(Report(level))
    BY <1>6 DEF PostReport, DetectorStep
  <2>2. LastIs(queue', level) /\ ~NoneAfter(queue', 0)
    BY <2>1, NewestReport
  <2>3. reading # "none" /\ (reading = "good" => level = acOn)
    BY <2>1 DEF DetectedInv
  <2>4. reading' = "good" => NewestIs(acOn)'
    BY <2>1, <2>2, <2>3 DEF NewestIs
  <2>5. ~intr'
    BY <2>1 DEF DetectedInv
  <2> QED BY <2>1, <2>3, <2>4, <2>5 DEF DetectedInv
<1>7. CASE Enable
  <2>1. /\ pc = "enable" /\ pc' = "wait" /\ intr' = TRUE
        /\ UNCHANGED <<acOn, queue, detected, reading>>
    BY <1>7 DEF Enable, DetectorStep, state
  <2>2. reading = "good" => NewestIs(acOn)
    BY <2>1 DEF DetectedInv
  <2>3. reading' = "good" => NewestIs(acOn)'
    BY <2>1, <2>2 DEF NewestIs
  <2> QED BY <2>1, <2>3 DEF DetectedInv
<1>8. CASE Bounce
  <2>1. /\ intr /\ edge' = TRUE
        /\ UNCHANGED <<acOn, pc, intr, queue, detected, reading, level>>
    BY <1>8 DEF Bounce, state
  <2> QED BY <2>1, Zenon DEF DetectedInv
<1>9. CASE Restart
  <2>1. reading' = "none" /\ pc' = "wait" /\ intr' = TRUE
    BY <1>9 DEF Restart
  <2> QED BY <2>1 DEF DetectedInv
<1> QED BY <1>1, <1>2, <1>3, <1>4, <1>5, <1>6, <1>7, <1>8, <1>9
        DEF Next, Loop, Disturbance, Detector

(* It holds always. *)
LEMMA DetectedAlways == Spec => []DetectedInv
<1>1. Init => DetectedInv
  BY DEF Init, DetectedInv
<1>2. TypeOK /\ DetectedInv /\ [Next]_vars => DetectedInv'
  <2> SUFFICES ASSUME TypeOK, DetectedInv, UNCHANGED vars PROVE DetectedInv'
    BY DetectedNext
  <2> QED BY DetectedStill DEF vars, state, detector, NewestIs
<1> QED BY <1>1, <1>2, TypeCorrect, PTL DEF Spec

(* Once nothing is on its way the task knows the power of the unit, unless *)
(* an edge was missed.                                                     *)
THEOREM DetectedCorrect == Spec => []DetectedIsActual
<1>1. DetectedInv => DetectedIsActual
  <2> SUFFICES ASSUME DetectedInv, Quiet, reading = "good" PROVE detected = acOn
    BY DEF DetectedIsActual
  <2>1. NewestIs(acOn)
    BY Zenon DEF DetectedInv, Quiet
  <2>2. NoneAfter(queue, 0)
    BY DEF Quiet, NoneAfter
  <2> QED BY <2>1, <2>2 DEF NewestIs
<1> QED BY <1>1, DetectedAlways, PTL
-----------------------------------------------------------------------------
(* What the task wants of the unit *)

HasToggle == \E i \in 1 .. Len(txq) : txq[i] = "toggle"

HasReport == \E i \in 1 .. Len(queue) : queue[i] \in Reports

(* The detector is about to report, or has.                                *)
Pending == edge \/ pc \in {"woken", "debounce", "report"} \/ HasReport

(* What differs is about to be toggled, or was and is about to be reported. *)
WantedInv ==
  reading = "good" /\ ~garbled /\ ~unsent /\ power # detected =>
    HasToggle \/ Pending \/ at \in {"mode", "send"}

(* A frame for what differs has the toggle, and is the last. *)
LEMMA TransmitToggle ==
  ASSUME TypeOK, NEW p \in Bit, NEW d \in Bit, p # d, Transmit(p, d)
  PROVE  HasToggle'
<1>1. PICK over \in SUBSET (2 .. Len(txq)) :
        txq' = [i \in 1 .. Len(txq) + 1 |->
                  IF i > Len(txq) \/ i \in over THEN "toggle" ELSE txq[i]]
  BY DEF Transmit, Bit
<1>2. Len(txq) \in Nat
  BY DEF TypeOK
<1>3. Len(txq') = Len(txq) + 1 /\ txq'[Len(txq) + 1] = "toggle"
  BY <1>1, <1>2
<1> QED BY <1>2, <1>3 DEF HasToggle

(* A switch of the unit is noticed, or missed. *)
LEMMA SwitchPending ==
  ASSUME TypeOK, DetectedInv, Switch
  PROVE  reading' = "missed" \/ (edge \/ pc \in {"woken", "debounce", "report"})'
<1>1. CASE intr
  BY <1>1, Zenon DEF Switch
<1>2. CASE ~intr
  <2>1. pc \in {"debounce", "report", "enable"} /\ pc' = pc
    BY <1>2 DEF Switch, DetectedInv, TypeOK
  <2>2. pc = "enable" => reading' = "missed"
    BY <2>1 DEF Switch
  <2> QED BY <2>1, <2>2
<1> QED BY <1>1, <1>2

(* A posted event leaves the reports where they are. *)
LEMMA ReportStays ==
  ASSUME TypeOK, HasReport, NEW e, Post(e)
  PROVE  HasReport'
<1>1. queue \in Seq(Events) /\ queue' = Append(queue, e)
  BY DEF TypeOK, Post
<1>2. PICK i \in 1 .. Len(queue) : queue[i] \in Reports
  BY DEF HasReport
<1>3. Len(queue') = Len(queue) + 1 /\ queue'[i] = queue[i]
  BY <1>1
<1>4. i \in 1 .. Len(queue')
  BY <1>1, <1>3
<1> QED BY <1>2, <1>3, <1>4 DEF HasReport

(* A report stays behind an event that is none. *)
LEMMA ReportBehind ==
  ASSUME queue \in Seq(Events), queue # <<>>, Head(queue) \notin Reports,
         HasReport, queue' = Tail(queue)
  PROVE  HasReport'
<1>1. PICK i \in 1 .. Len(queue) : queue[i] \in Reports
  BY DEF HasReport
<1>2. i # 1
  BY <1>1
<1>3. i - 1 \in 1 .. Len(queue') /\ queue'[i - 1] = queue[i]
  BY <1>1, <1>2
<1> QED BY <1>1, <1>3 DEF HasReport

(* The toggle stays behind a frame that has none. *)
LEMMA ToggleStays ==
  ASSUME TypeOK, txq # <<>>, Head(txq) # "toggle", HasToggle, txq' = Tail(txq)
  PROVE  HasToggle'
<1>1. txq \in Seq(Frames) /\ Len(txq) \in Nat /\ Head(txq) = txq[1]
  BY DEF TypeOK
<1>2. PICK i \in 1 .. Len(txq) : txq[i] = "toggle"
  BY DEF HasToggle
<1>3. i # 1
  BY <1>1, <1>2
<1>4. i - 1 \in 1 .. Len(txq') /\ txq'[i - 1] = txq[i]
  BY <1>1, <1>2, <1>3
<1> QED BY <1>2, <1>4 DEF HasToggle

(* What leaves the wishes alone and brings on the air or keeps what it did. *)
LEMMA WantedStill ==
  ASSUME WantedInv, UNCHANGED <<power, detected, reading>>,
         garbled => garbled', unsent => unsent',
         HasToggle \/ Pending => HasToggle' \/ Pending',
         at \in {"mode", "send"} => at' = at
  PROVE  WantedInv'
BY Zenon DEF WantedInv

(* The steps of ac_mitm_task and of those who post to it. *)
LEMMA WantedTask ==
  ASSUME TypeOK, WantedInv, Receive \/ Arrive \/ Task
  PROVE  WantedInv'
<1>1. CASE Receive \/ Arrive \/ PostChange
  <2>1. UNCHANGED <<power, detected, reading, garbled, unsent, txq, edge, pc, at>>
    BY <1>1 DEF Receive, Arrive, PostChange, state, task, detector
  <2>2. PICK e : Post(e)
    BY <1>1 DEF Receive, Arrive, PostChange
  <2>3. HasReport => HasReport'
    BY <2>2, ReportStays
  <2>4. HasToggle \/ Pending => HasToggle' \/ Pending'
    BY <2>1, <2>3 DEF HasToggle, Pending
  <2> QED BY <2>1, <2>4, WantedStill
<1>2. CASE HandleCommand
  <2>1. at' \in {"mode", "send"}
    BY <1>2 DEF HandleCommand
  <2> QED BY <2>1, Zenon DEF WantedInv
<1>3. CASE TurnDown \/ HandleChange
  <2>1. queue \in Seq(Events) /\ queue # <<>> /\ queue' = Tail(queue)
        /\ Head(queue) \notin Reports
    BY <1>3 DEF TypeOK, TurnDown, HandleChange, Handles, Reports
  <2>2. UNCHANGED <<power, detected, reading, garbled, unsent, txq, edge, pc>>
        /\ at = "idle"
    BY <1>3 DEF TurnDown, HandleChange, Handles, state, detector
  <2>3. HasReport => HasReport'
    BY <2>1, ReportBehind
  <2>4. HasToggle \/ Pending => HasToggle' \/ Pending'
    BY <2>2, <2>3 DEF HasToggle, Pending
  <2> QED BY <2>2, <2>4, WantedStill
<1>4. CASE HandleReport
  <2>1. power' # detected' => at' = "send"
    BY <1>4 DEF HandleReport, Answer
  <2> QED BY <2>1 DEF WantedInv
<1>5. CASE SetMode
  <2>1. UNCHANGED <<power, detected>>
    BY <1>5 DEF SetMode, state
  <2>2. at' = "send" \/ unsent' = (power # detected)
    BY <1>5, Zenon DEF SetMode
  <2> QED BY <2>1, <2>2, Zenon DEF WantedInv
<1>6. CASE Send
  <2>1. /\ power \in Bit /\ detected \in Bit /\ Transmit(power, detected)
        /\ UNCHANGED <<power, detected>>
    BY <1>6 DEF Send, TypeOK, state
  <2>2. power' # detected' => HasToggle'
    BY <2>1, TransmitToggle
  <2> QED BY <2>2, Zenon DEF WantedInv
<1>7. CASE Publish
  <2>1. UNCHANGED <<power, detected, reading, garbled, unsent, txq, edge, pc, queue>>
        /\ at = "publish"
    BY <1>7 DEF Publish, state, detector
  <2>2. HasToggle \/ Pending => HasToggle' \/ Pending'
    BY <2>1 DEF HasToggle, HasReport, Pending
  <2> QED BY <2>1, <2>2, WantedStill
<1> QED BY <1>1, <1>2, <1>3, <1>4, <1>5, <1>6, <1>7 DEF Task, Handler

(* Every step keeps WantedInv. *)
LEMMA WantedStep == TypeOK /\ DetectedInv /\ WantedInv /\ Next => WantedInv'
<1> SUFFICES ASSUME TypeOK, DetectedInv, WantedInv, Next PROVE WantedInv'
  OBVIOUS
<1>1. CASE PressButton
  <2>1. Switch
    BY <1>1 DEF PressButton
  <2>2. reading' = "good" => Pending'
    BY <2>1, SwitchPending DEF Pending
  <2> QED BY <2>2, Zenon DEF WantedInv
<1>2. CASE FrameSent
  <2>1. CASE Head(txq) = "toggle"
    <3>1. Switch
      BY <1>2, <2>1 DEF FrameSent
    <3>2. reading' = "good" => Pending'
      BY <3>1, SwitchPending DEF Pending
    <3> QED BY <3>2, Zenon DEF WantedInv
  <2>2. CASE Head(txq) # "toggle" /\ garbled' = TRUE
    BY <2>2, Zenon DEF WantedInv
  <2>3. CASE Head(txq) # "toggle" /\ txq' = Tail(txq) /\ UNCHANGED garbled
    <3>1. /\ txq # <<>> /\ UNCHANGED <<power, detected, reading, unsent, at>>
          /\ UNCHANGED <<edge, pc, queue>>
      BY <1>2, <2>3 DEF FrameSent, state, task, detector
    <3>2. Pending => Pending'
      BY <3>1 DEF Pending, HasReport
    <3>3. HasToggle => HasToggle'
      BY <2>3, <3>1, ToggleStays
    <3> QED BY <2>3, <3>1, <3>2, <3>3, WantedStill
  <2> QED BY <1>2, <2>1, <2>2, <2>3, Zenon DEF FrameSent
<1>3. CASE Receive \/ Arrive \/ Task
  BY <1>3, WantedTask
<1>4. CASE Bounce
  <2>1. UNCHANGED <<power, detected, reading, garbled, unsent, txq, queue, pc, at>>
    BY <1>4 DEF Bounce, state, task
  <2>2. edge'
    BY <1>4 DEF Bounce
  <2>3. HasToggle \/ Pending => HasToggle' \/ Pending'
    BY <2>2 DEF Pending
  <2> QED BY <2>1, <2>3, WantedStill
<1>5. CASE Wake \/ Disable \/ Read
  <2>1. Pending'
    BY <1>5 DEF Wake, Disable, Read, DetectorStep, Pending
  <2> QED BY <2>1, Zenon DEF WantedInv
<1>6. CASE PostReport
  <2>1. Post(Report(level)) /\ Report(level) \in Reports
    BY <1>6 DEF PostReport, Report, Reports
  <2>2. queue \in Seq(Events) /\ queue' = Append(queue, Report(level))
    BY <2>1 DEF TypeOK, Post
  <2>3. Len(queue) + 1 \in 1 .. Len(queue')
        /\ queue'[Len(queue) + 1] \in Reports
    BY <2>1, <2>2
  <2>4. HasReport'
    BY <2>3 DEF HasReport
  <2> QED BY <2>4, Zenon DEF WantedInv, Pending
<1>7. CASE Enable
  <2>1. UNCHANGED <<power, detected, reading, garbled, unsent, txq, queue, edge, at>>
        /\ pc = "enable"
    BY <1>7 DEF Enable, DetectorStep, state, task
  <2>2. HasToggle \/ Pending => HasToggle' \/ Pending'
    BY <2>1 DEF HasToggle, HasReport, Pending
  <2> QED BY <2>1, <2>2, WantedStill
<1>8. CASE Restart
  <2>1. reading' = "none"
    BY <1>8 DEF Restart
  <2> QED BY <2>1 DEF WantedInv
<1> QED BY <1>1, <1>2, <1>3, <1>4, <1>5, <1>6, <1>7, <1>8
        DEF Next, Loop, Disturbance, Detector

(* Once nothing is on its way the unit has the power that is wanted, unless *)
(* an edge was missed or a frame was garbled.                               *)
THEOREM WantedCorrect == Spec => []WantedIsActual
<1>1. Init => WantedInv
  BY DEF Init, WantedInv
<1>2. TypeOK /\ DetectedInv /\ WantedInv /\ [Next]_vars => WantedInv'
  <2> SUFFICES ASSUME TypeOK, DetectedInv, WantedInv, UNCHANGED vars
               PROVE  WantedInv'
    BY WantedStep
  <2>1. UNCHANGED <<power, detected, reading, garbled, unsent, txq, queue, pc, edge,
                    at>>
    BY DEF vars, state, task, detector
  <2>2. HasToggle \/ Pending => HasToggle' \/ Pending'
    BY <2>1 DEF HasToggle, HasReport, Pending
  <2> QED BY <2>1, <2>2, WantedStill
<1>3. DetectedIsActual /\ WantedInv => WantedIsActual
  <2> SUFFICES ASSUME DetectedIsActual, WantedInv,
                      Quiet, reading = "good", ~garbled, ~unsent
               PROVE  power = acOn
    BY DEF WantedIsActual
  <2>1. detected = acOn
    BY Zenon DEF DetectedIsActual
  <2>2. ~HasToggle /\ ~HasReport
    BY DEF Quiet, HasToggle, HasReport
  <2>3. ~Pending /\ at \notin {"mode", "send"}
    BY <2>2 DEF Quiet, Pending
  <2> QED BY <2>1, <2>2, <2>3, Zenon DEF WantedInv
<1> QED BY <1>1, <1>2, <1>3, DetectedCorrect, TypeCorrect, DetectedAlways,
           PTL DEF Spec
=============================================================================
