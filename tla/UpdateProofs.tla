---------------------------- MODULE UpdateProofs ----------------------------
(***************************************************************************)
(* Ota implements TwoSlots: initial states map to initial states, and each *)
(* step to a step or to none, for images of any number of chunks and any   *)
(* number of updates.                                                      *)
(***************************************************************************)
EXTENDS OtaProofs

(* The type of an update is that of ota_ctx and of the handle it uses; a   *)
(* handle that was freed stays behind the chunks for good.                 *)
Kind(u) ==
  /\ ops = job[u].type
  /\ Writing(u) => handles[handle].type = job[u].type
  /\ At(u, "set") => handles[job[u].handle].type = job[u].type

Behind(u) ==
  LET h == handles[handle]
  IN  Writing(u) /\ h.type = "config" /\ ~h.live => h.n < job[u].next - 1

HasImage(u) == job[u].pc \notin {"idle", "edit"} => job[u].image \in Images

KindInv == /\ \A u \in Updaters : HasImage(u)
           /\ ~overlapped => \A u \in Updaters : Updating(u) => Kind(u) /\ Behind(u)

-----------------------------------------------------------------------------
(* What a slot holds *)

(* A slot filled with an image holds it, ...                               *)
LEMMA ImageFull ==
  ASSUME NEW image \in Images
  PROVE  ImageIn(Full(image)) = image
<1>1. ASSUME NEW other \in Images, Full(other) = Full(image) PROVE other = image
  <2>1. 1 \in 1 .. Chunks
    BY ChunkAssumption
  <2>2. Full(other)[1].image = other /\ Full(image)[1].image = image
    BY <2>1 DEF Full, Chunk
  <2> QED BY <1>1, <2>2
<1>2. \E other \in Images : Full(image) = Full(other)
  OBVIOUS
<1>3. (CHOOSE other \in Images : Full(image) = Full(other)) = image
  BY <1>1, <1>2
<1> QED BY <1>2, <1>3 DEF ImageIn

(* ... one with a piece of no image holds none, ...                        *)
LEMMA ImageNone ==
  ASSUME NEW f, NEW i \in 1 .. Chunks, f[i].image = NoImage
  PROVE  ImageIn(f) = NoImage
<1>1. \A image \in Images : Full(image)[i].image = image
  BY DEF Full, Chunk
<1>2. ~ \E image \in Images : f = Full(image)
  BY <1>1, ImageAssumption
<1> QED BY <1>2 DEF ImageIn

LEMMA ImageLost ==
  ImageIn(Erased) = NoImage /\ ImageIn(NoConfigJson) = NoImage
<1>1. 1 \in 1 .. Chunks
  BY ChunkAssumption
<1>2. Erased[1].image = NoImage /\ NoConfigJson[1].image = NoImage
  BY <1>1 DEF Erased, NoConfigJson, Blank, Mixed, Chunk
<1> QED BY <1>1, <1>2, ImageNone

(* ... and what a slot is said to hold is there.                           *)
LEMMA ImageIs ==
  ASSUME NEW f
  PROVE  /\ ImageIn(f) \in Images \union {NoImage}
         /\ ImageIn(f) \in Images => f = Full(ImageIn(f))
<1>1. CASE \E image \in Images : f = Full(image)
  <2>1. LET c == CHOOSE image \in Images : f = Full(image)
        IN  c \in Images /\ f = Full(c)
    BY <1>1
  <2> QED BY <1>1, <2>1 DEF ImageIn
<1>2. CASE ~ \E image \in Images : f = Full(image)
  BY <1>2, ImageAssumption DEF ImageIn
<1> QED BY <1>1, <1>2

(* Usable slots are those of TwoSlots. *)
LEMMA UsableSame ==
  ASSUME NEW s \in Slots
  PROVE  Usable("config", s) <=> s \in Update!Usable
<1> DEFINE f == flash["config"][s]
<1>1. s \in Update!Usable <=> ImageIn(f) \in Images \ Unusable
  BY DEF Update!Usable, Update!Slots, Slots, Held
<1>2. Usable("config", s) => ImageIn(f) \in Images \ Unusable
  BY ImageFull DEF Usable
<1>3. ImageIn(f) \in Images \ Unusable => Usable("config", s)
  BY ImageIs DEF Usable
<1> QED BY <1>1, <1>2, <1>3

(* Steps that leave the configurations, or change one of them. *)
LEMMA HeldSame ==
  ASSUME \A s \in Slots : flash'["config"][s] = flash["config"][s]
  PROVE  Held' = Held
BY DEF Held

LEMMA HeldOne ==
  ASSUME NEW s \in Slots,
         \A r \in Slots \ {s} : flash'["config"][r] = flash["config"][r]
  PROVE  Held' = [Held EXCEPT ![s] = ImageIn(flash'["config"][s])]
BY DEF Held

-----------------------------------------------------------------------------
(* The image that is sent *)

LEMMA SendsUpdates ==
  ASSUME NEW u \in Updaters, Sends(u)
  PROVE  Updating(u) /\ job[u].type = "config"
BY DEF Sends, Updating, Busy, At

LEMMA SentBy ==
  ASSUME ~overlapped, Alone, NEW u \in Updaters, Sends(u)
  PROVE  Sent = job[u].image
<1>1. \A v \in Updaters : Sends(v) => v = u
  BY SendsUpdates DEF Alone
<1>2. (CHOOSE v \in Updaters : Sends(v)) = u
  BY <1>1
<1> QED BY <1>2 DEF Sent

LEMMA SentNone ==
  ASSUME overlapped \/ \A u \in Updaters : ~Sends(u)
  PROVE  Sent = NoImage
BY DEF Sent

LEMMA SentByNext ==
  ASSUME ~overlapped', Alone', NEW u \in Updaters, Sends(u)'
  PROVE  Sent' = job'[u].image
<1>1. \A v \in Updaters : Sends(v)' => v = u
  BY DEF Alone, Sends, Updating, Busy, At
<1>2. (CHOOSE v \in Updaters : Sends(v)') = u
  BY <1>1
<1> QED BY <1>2 DEF Sent

LEMMA SentNoneNext ==
  ASSUME overlapped' \/ \A u \in Updaters : ~Sends(u)'
  PROVE  Sent' = NoImage
BY DEF Sent
-----------------------------------------------------------------------------
(* The type and the image of an update *)

(* A step of one updater keeps what it sends, and the jobs of the other. *)
LEMMA StepKeeps ==
  ASSUME TypeInv, NEW u \in Updaters, ClientStep(u) \/ DeviceStep(u)
  PROVE  /\ job'[u].image = job[u].image /\ job'[u].type = job[u].type
         /\ job[u].pc \notin {"idle", "edit"}
         /\ job'[u].pc \notin {"open", "edit"}
         /\ \A v \in Updaters \ {u} : job'[v] = job[v]
<1>1. job \in Jobs(Len(handles))
  BY TypeInvParts DEF JobsOK
<1>2. CASE Refused(u) /\ job[u].pc \in {"body", "begin", "write"}
  BY <1>1, <1>2 DEF Refused, Jobs
<1>3. CASE \E p \in {"body", "idle", "begin", "write", "close", "end"} : Go(u, p)
  <2>1. PICK p \in {"body", "idle", "begin", "write", "close", "end"} : Go(u, p)
    BY <1>3
  <2>2. job[u].pc \notin {"idle", "edit"}
    <3>1. \/ At(u, "open") \/ At(u, "body") \/ At(u, "begin") \/ At(u, "write")
          \/ At(u, "close") \/ At(u, "end") \/ At(u, "set")
      BY Zenon
         DEF ClientStep, DeviceStep, Open, Received, ReceivedLate, EndOfBody,
             Begin, BeginFails, Write, WriteFails, Close, NothingWritten, End,
             MakeActive, MakeActiveFails
    <3> QED BY <3>1 DEF At
  <2> QED BY <1>1, <2>1, <2>2 DEF Go, Jobs
<1>4. CASE Write(u)
  BY <1>1, <1>4 DEF Write, At, Jobs
<1>5. CASE End(u)
  <2>1. job' = [job EXCEPT ![u].pc = IF Accepts(handles[handle]) THEN "set" ELSE "idle",
                           ![u].handle = handle] /\ At(u, "end")
    BY <1>5, Zenon DEF End
  <2> QED BY <1>1, <2>1 DEF At, Jobs
<1>6. CASE ReceivedLate(u) \/ BeginFails(u) \/ WriteFails(u)
  BY <1>2, <1>6, Zenon DEF ReceivedLate, BeginFails, WriteFails, At
<1>7. CASE Open(u) \/ Received(u) \/ EndOfBody(u) \/ Begin(u) \/ Close(u)
           \/ NothingWritten(u) \/ MakeActive(u) \/ MakeActiveFails(u)
  <2>1. \/ Go(u, "body") \/ Go(u, "idle") \/ Go(u, "begin") \/ Go(u, "write")
        \/ Go(u, "close") \/ Go(u, "end")
    BY <1>7
       DEF Open, Received, EndOfBody, Begin, Close, NothingWritten, MakeActive,
           MakeActiveFails
  <2> QED BY <1>3, <2>1
<1> QED BY <1>4, <1>5, <1>6, <1>7 DEF ClientStep, DeviceStep

(* What the other steps do to the jobs. *)
LEMMA CheckKeeps ==
  ASSUME TypeInv, NEW u \in Updaters, NEW t \in Types, NEW image \in Images,
         Check(u, t, image)
  PROVE  /\ job[u].pc = "idle" /\ job'[u].pc = "open" /\ job'[u].image = image
         /\ \A v \in Updaters \ {u} : job'[v] = job[v]
BY TypeInvParts DEF Check, At, Idle, JobsOK, Jobs

LEMMA FilesKeep ==
  ASSUME TypeInv, Files
  PROVE  /\ job["httpd"].pc \in {"idle", "edit"}
         /\ job'["httpd"].pc \in {"idle", "edit"}
         /\ job'["ota_task"] = job["ota_task"]
BY TypeInvParts
   DEF Files, PostFile, FilePosted, DeleteFile, Go, At, Updaters, JobsOK, Jobs

LEMMA ImageNext ==
  ASSUME TypeInv, KindInv, [Next]_vars
  PROVE  \A u \in Updaters : HasImage(u)'
<1>1. \A u \in Updaters : HasImage(u)
  BY DEF KindInv
<1>2. CASE Restart
  BY <1>2 DEF Restart, Idle, HasImage
<1>3. CASE Files
  BY <1>1, <1>3, FilesKeep DEF HasImage, Updaters
<1>4. CASE \E u \in Updaters, t \in Types, image \in Images : Check(u, t, image)
  BY <1>1, <1>4, CheckKeeps DEF HasImage
<1>5. CASE \E u \in Updaters : ClientStep(u) \/ DeviceStep(u)
  BY <1>1, <1>5, StepKeeps DEF HasImage
<1>6. CASE UNCHANGED vars
  BY <1>1, <1>6 DEF HasImage, vars
<1> QED BY <1>2, <1>3, <1>4, <1>5, <1>6 DEF Next

(* Who is not updating still is not. *)
LEMMA KindOthers ==
  ASSUME NEW v \in Updaters, ~Updating(v), job'[v] = job[v]
  PROVE  ~Updating(v)'
BY DEF Updating, Busy, At

(* Steps of an update that is alone *)
LEMMA KindStep ==
  ASSUME TypeInv, OwnInv, KindInv, ~overlapped, NEW u \in Updaters,
         Updating(u), ClientStep(u) \/ DeviceStep(u), ~Open(u), Updating(u)'
  PROVE  Kind(u)'
<1>1. Kind(u)
  BY DEF KindInv
<1>2. job \in Jobs(Len(handles)) /\ Len(handles) \in Nat
  BY TypeInvParts DEF JobsOK, CtxOK
<1>3. job'[u].type = job[u].type
  BY StepKeeps
<1>4. CASE ClientStep(u) \/ Close(u) \/ NothingWritten(u) \/ MakeActiveFails(u)
           \/ BeginFails(u)
  <2>1. UNCHANGED <<ops, written, handle, handles>>
    BY <1>4 DEF ClientStep, Received, ReceivedLate, EndOfBody, Close,
       NothingWritten, MakeActiveFails, BeginFails, ctx
  <2>2. job'[u].pc # "set"
    BY <1>2, <1>4 DEF ClientStep, Received, ReceivedLate, EndOfBody, Close,
       NothingWritten, MakeActiveFails, BeginFails, Go, Refused, Jobs
  <2>3. Writing(u)' => Writing(u)
    <3>1. CASE BeginFails(u)
      <4>1. written = 0
        BY <3>1 DEF BeginFails, OwnInv, Owns
      <4>2. job'[u].pc \in {"close", "body"}
        BY <1>2, <3>1 DEF BeginFails, Refused, Jobs
      <4> QED BY <2>1, <4>1, <4>2 DEF Writing, At
    <3>2. CASE Received(u)
      <4>1. At(u, "body") /\ Go(u, IF written = 0 THEN "begin" ELSE "write")
        BY <3>2 DEF Received
      <4> QED BY <1>2, <2>1, <4>1, Facts DEF Go, At, Writing, Jobs
    <3>3. CASE ReceivedLate(u) \/ EndOfBody(u)
      <4>1. At(u, "body") /\ job'[u].pc \in {"body", "close"}
        BY <1>2, <3>3 DEF ReceivedLate, EndOfBody, Refused, Go, Jobs
      <4> QED BY <2>1, <4>1 DEF At, Writing
    <3>4. CASE Close(u) \/ NothingWritten(u) \/ MakeActiveFails(u)
      <4>1. \/ job'[u].pc = "idle"
            \/ At(u, "close") /\ job'[u].pc = "end"
        BY <1>2, <3>4 DEF Close, NothingWritten, MakeActiveFails, Go, Jobs
      <4> QED BY <2>1, <4>1 DEF At, Writing
    <3> QED BY <1>4, <3>1, <3>2, <3>3, <3>4 DEF ClientStep
  <2> QED BY <1>1, <1>3, <2>1, <2>2, <2>3 DEF Kind, At
<1>5. CASE Begin(u)
  <2>1. /\ job'[u].pc = "write" /\ ops' = ops
        /\ handles' = Append(handles, [type |-> ops, slot |-> Target(ops),
                                       n |-> 0, live |-> TRUE])
        /\ handle' = Len(handles')
    BY <1>2, <1>5 DEF Begin, Go, Jobs
  <2>2. handles'[handle'].type = ops
    BY <2>1, Facts
  <2> QED BY <1>1, <1>3, <2>1, <2>2 DEF Kind, At
<1>6. CASE Write(u) \/ WriteFails(u)
  <2>1. /\ At(u, "write") /\ job'[u].pc \in {"body", "close"}
        /\ ops' = ops /\ handle' = handle
    BY <1>2, <1>6 DEF Write, WriteFails, Refused, Jobs, ctx
  <2>2. handle \in 1 .. Len(handles) /\ handles[handle] \in Handles
    BY <2>1, Writer
  <2>3. handles'[handle].type = handles[handle].type
    <3>1. \/ UNCHANGED handles
          \/ handles' = [handles EXCEPT ![handle].n = @ + 1]
          \/ handles' = [handles EXCEPT ![handle].live = FALSE]
      BY <1>6, Zenon DEF Write, WriteFails
    <3> QED BY <2>2, <3>1, Facts DEF Handles
  <2> QED BY <1>1, <1>3, <2>1, <2>3 DEF Kind, Writing, At
<1>7. CASE End(u)
  <2>1. /\ At(u, "end") /\ written > 0
        /\ handles' = [handles EXCEPT ![handle].live = FALSE]
        /\ ops' = ops /\ job'[u].handle = handle
        /\ job'[u].pc \in {"set", "idle"}
    BY <1>2, <1>7 DEF End, Jobs, ctx
  <2>2. handle \in 1 .. Len(handles) /\ handles[handle] \in Handles
    BY <2>1, Facts
  <2>3. handles'[handle].type = handles[handle].type
    BY <2>1, <2>2, Facts DEF Handles
  <2> QED BY <1>1, <1>3, <2>1, <2>3 DEF Kind, Writing, At
<1>8. CASE MakeActive(u)
  <2>1. job'[u].pc = "idle"
    BY <1>2, <1>8 DEF MakeActive, Go, Jobs
  <2> QED BY <2>1 DEF Updating, Busy
<1> QED BY <1>4, <1>5, <1>6, <1>7, <1>8 DEF DeviceStep
(* ... and what comes of a handle that was freed. *)
LEMMA BehindStep ==
  ASSUME TypeInv, OwnInv, KindInv, ~overlapped, NEW u \in Updaters,
         Updating(u), ClientStep(u) \/ DeviceStep(u), ~Open(u), Updating(u)'
  PROVE  Behind(u)'
<1> SUFFICES ASSUME Writing(u)', handles'[handle'].type = "config",
                    ~handles'[handle'].live
             PROVE  handles'[handle'].n < job'[u].next - 1
  BY DEF Behind
<1>1. Behind(u)
  BY DEF KindInv
<1>2. job \in Jobs(Len(handles)) /\ Len(handles) \in Nat
  BY TypeInvParts DEF JobsOK, CtxOK
<1>3. job[u].next \in Nat
  BY <1>2, ChunkAssumption DEF Jobs
<1>4. CASE Begin(u)
  <2>1. /\ handles' = Append(handles, [type |-> ops, slot |-> Target(ops),
                                       n |-> 0, live |-> TRUE])
        /\ handle' = Len(handles')
    BY <1>4 DEF Begin
  <2>2. handles'[handle'].live
    BY <2>1, Facts
  <2> QED BY <2>2
<1>5. CASE Write(u) \/ WriteFails(u)
  <2> DEFINE h == handles[handle]
  <2>1. At(u, "write") /\ handle' = handle
    BY <1>5 DEF Write, WriteFails, ctx
  <2>2. handle \in 1 .. Len(handles) /\ h \in Handles /\ Writing(u)
    BY <2>1, Writer DEF Writing
  <2>3. h.n \in Nat
    BY <2>2, ChunkAssumption DEF Handles
  <2>4. job'[u].next = job[u].next + 1
    BY <1>2, <1>5 DEF Write, WriteFails, Refused, Jobs
  <2>5. CASE Write(u)
    <3>1. handles' = [handles EXCEPT ![handle].n = @ + 1]
      BY <2>5, Zenon DEF Write
    <3>2. /\ handles'[handle].n = h.n + 1
          /\ handles'[handle].type = h.type /\ handles'[handle].live = h.live
      BY <2>2, <3>1, Facts DEF Handles
    <3>3. h.n < job[u].next - 1
      BY <1>1, <2>1, <2>2, <3>2 DEF Behind
    <3> HIDE DEF h
    <3> QED BY <1>3, <2>1, <2>3, <2>4, <3>2, <3>3
  <2>6. CASE WriteFails(u)
    <3>1. \/ h.live /\ handles' = [handles EXCEPT ![handle].live = FALSE]
          \/ h.type = "firmware" /\ UNCHANGED handles
      BY <2>6, Zenon DEF WriteFails
    <3>2. h.live /\ h.type = "config" /\ handles'[handle].n = h.n
      BY <2>1, <2>2, <3>1, Facts DEF Handles
    <3>3. h.n <= job[u].next - 1
      BY <2>2, <3>2 DEF OwnInv, Owns, Content
    <3> HIDE DEF h
    <3> QED BY <1>3, <2>1, <2>3, <2>4, <3>2, <3>3
  <2> QED BY <1>5, <2>5, <2>6
<1>6. CASE ClientStep(u) \/ Close(u)
  <2>1. UNCHANGED <<written, handle, handles>>
    BY <1>6 DEF ClientStep, Received, ReceivedLate, EndOfBody, Close, ctx
  <2>2. /\ At(u, "body") \/ At(u, "close")
        /\ job'[u].next \in {job[u].next, job[u].next + 1}
        /\ job'[u].pc = "begin" \/ (job'[u].pc = "write" => written # 0)
        /\ job'[u].pc \notin {"begin", "set"} \/ ~Writing(u)'
    BY <1>2, <1>6 DEF ClientStep, Received, ReceivedLate, EndOfBody, Close, Go,
       Refused, Jobs, Writing, At
  <2>3. Writing(u)
    BY <2>1, <2>2, Facts DEF Writing, At
  <2>4. handle \in 1 .. Len(handles)
    BY <2>2, <2>3, Facts DEF Writing, At
  <2>5. handles[handle].n \in Nat
    <3>1. handles[handle] \in Handles
      BY <2>4, Facts
    <3> QED BY <3>1, ChunkAssumption DEF Handles
  <2>6. handles[handle].n < job[u].next - 1
    BY <1>1, <2>1, <2>3 DEF Behind
  <2> QED BY <1>3, <2>1, <2>2, <2>5, <2>6
<1>7. CASE NothingWritten(u) \/ MakeActive(u) \/ MakeActiveFails(u) \/ End(u)
  <2>1. job'[u].pc \in {"idle", "set"}
    BY <1>2, <1>7 DEF NothingWritten, MakeActive, MakeActiveFails, End, Go, Jobs
  <2> QED BY <2>1 DEF Writing, At
<1>8. CASE BeginFails(u)
  <2>1. written = 0 /\ written' = written
    BY <1>8 DEF BeginFails, OwnInv, Owns, ctx
  <2>2. job'[u].pc \in {"close", "body"}
    BY <1>2, <1>8 DEF BeginFails, Refused, Jobs
  <2> QED BY <2>1, <2>2 DEF Writing, At
<1> QED BY <1>4, <1>5, <1>6, <1>7, <1>8 DEF DeviceStep

LEMMA KindNext == TypeInv /\ OwnInv /\ KindInv /\ [Next]_vars => KindInv'
<1> SUFFICES ASSUME TypeInv, OwnInv, KindInv, [Next]_vars, ~overlapped',
                    NEW v \in Updaters, Updating(v)'
             PROVE  Kind(v)' /\ Behind(v)'
  BY ImageNext DEF KindInv
<1>1. CASE Restart
  BY <1>1 DEF Restart, Idle, Updating, Busy
<1>2. ASSUME UNCHANGED <<ops, written, handle, handles>>, job'[v] = job[v],
             ~overlapped
      PROVE  Kind(v)' /\ Behind(v)'
  <2>1. Updating(v)
    BY <1>2, KindOthers
  <2> QED BY <1>2, <2>1 DEF KindInv, Kind, Behind, Writing, At
<1>3. CASE Files
  <2>1. UNCHANGED <<ops, written, handle, handles>> /\ ~overlapped
    <3>1. CASE FilePosted
      BY <3>1 DEF FilePosted, ctx, history
    <3>2. CASE PostFile \/ DeleteFile
      <4>1. PICK s \in mounted : LoseConfigJson(s)
        BY <3>2 DEF PostFile, DeleteFile
      <4>2. UNCHANGED <<ctx, handles>> /\ ~overlapped
        BY <4>1, Zenon DEF LoseConfigJson
      <4> QED BY <4>2 DEF ctx
    <3> QED BY <1>3, <3>1, <3>2 DEF Files
  <2>2. v = "ota_task"
    BY <1>3, FilesKeep DEF Updating, Busy, At, Updaters
  <2> QED BY <1>2, <1>3, <2>1, <2>2, FilesKeep
<1>4. CASE \E u \in Updaters, t \in Types, image \in Images : Check(u, t, image)
  <2>1. PICK u \in Updaters, t \in Types, image \in Images : Check(u, t, image)
    BY <1>4
  <2>2. UNCHANGED <<ops, written, handle, handles>> /\ ~overlapped
    BY <2>1 DEF Check, ctx, history
  <2>3. v # u
    BY <2>1, CheckKeeps DEF Updating, Busy
  <2> QED BY <1>2, <2>1, <2>2, <2>3, CheckKeeps
<1>5. ASSUME NEW u \in Updaters, ClientStep(u) \/ DeviceStep(u)
      PROVE  Kind(v)' /\ Behind(v)'
  <2>1. CASE Open(u)
    <3>1. /\ ~overlapped /\ \A w \in Updaters \ {u} : ~Busy(w)
          /\ ops' = job[u].type /\ written' = 0
      BY <2>1 DEF Open
    <3>2. job'[u].pc \in {"body", "idle"}
      BY <2>1, TypeInvParts DEF Open, Go, JobsOK, Jobs
    <3>3. v = u
      BY <1>5, <3>1, StepKeeps DEF Updating, Busy
    <3>4. ~Writing(v)' /\ ~At(v, "set")'
      BY <3>1, <3>2, <3>3 DEF Writing, At
    <3> QED BY <1>5, <3>1, <3>3, <3>4, StepKeeps DEF Kind, Behind
  <2>2. CASE ~Open(u)
    <3>1. ~overlapped
      BY <1>5, <2>2, Zenon
         DEF ClientStep, DeviceStep, Received, ReceivedLate, EndOfBody, Begin,
             BeginFails, Write, WriteFails, Close, NothingWritten, End,
             MakeActive, MakeActiveFails, history
    <3>2. Updating(u)
      <4>1. ~At(u, "open")
        BY <1>5, <2>2 DEF ClientStep, DeviceStep, Received, ReceivedLate,
           EndOfBody, Begin, BeginFails, Write, WriteFails, Close,
           NothingWritten, End, MakeActive, MakeActiveFails, At
      <4> QED BY <1>5, <4>1, StepKeeps DEF Updating, Busy, At
    <3>3. v = u
      <4>1. ASSUME v # u PROVE FALSE
        <5>1. ~Updating(v)
          BY <3>1, <3>2, <4>1 DEF OwnInv, Alone
        <5> QED BY <1>5, <4>1, <5>1, StepKeeps, KindOthers
      <4> QED BY <4>1
    <3> QED BY <1>5, <2>2, <3>1, <3>2, <3>3, KindStep, BehindStep
  <2> QED BY <2>1, <2>2
<1>6. CASE UNCHANGED vars
  BY <1>2, <1>6 DEF vars, ctx, history
<1> QED BY <1>1, <1>3, <1>4, <1>5, <1>6 DEF Next

LEMMA KindInit == Init => KindInv
BY DEF Init, Idle, KindInv, HasImage, Updating, Busy
-----------------------------------------------------------------------------
(* Steps of Ota are steps of TwoSlots *)

UpdateStep ==
  [Update!Next]_<<Held, active["config"], mounted, Sent, overlapped>>

Inv == TypeInv /\ OwnInv /\ KindInv

LEMMA NextTypes ==
  ASSUME TypeInv'
  PROVE  active'["config"] \in Slots /\ overlapped' \in BOOLEAN
<1>1. active' \in [Types -> Slots] /\ overlapped' \in BOOLEAN
  BY Zenon DEF TypeInv, TypeOK
<1> QED BY <1>1 DEF Types

LEMMA NoClash ==
  ASSUME Inv, TypeInv', ~overlapped, ~overlapped'
  PROVE  overlapped' = overlapped
<1>1. overlapped \in BOOLEAN /\ overlapped' \in BOOLEAN
  BY NextTypes, TypeInvParts, Zenon DEF Inv, BoolsOK
<1> QED BY <1>1

(* Two updates that have clashed: nothing is promised but a boot.          *)
LEMMA MapDisturbed ==
  ASSUME Inv, TypeInv', overlapped, overlapped', mounted' = mounted
  PROVE  UpdateStep
<1>1. Held' \in [Slots -> Images \union {NoImage}]
  BY ImageIs DEF Held
<1>2. active'["config"] \in Slots
  BY NextTypes
<1>3. Sent = NoImage /\ Sent' = NoImage
  BY SentNone, SentNoneNext
<1>4. Update!Disturbed
  BY <1>1, <1>2, <1>3
     DEF Update!Disturbed, Update!Slots, Update!Contents, Slots
<1> QED BY <1>4 DEF UpdateStep, Update!Next

(* A step of an update that is open, all but its last.  It leaves the      *)
(* configurations, or the spare one of them holds nothing or the image.    *)
LEMMA MapUpdating ==
  ASSUME Inv, Inv', ~overlapped, ~overlapped', NEW u \in Updaters,
         ClientStep(u) \/ DeviceStep(u), Updating(u),
         active'["config"] = active["config"], mounted' = mounted,
         \/ Held' = Held
         \/ /\ Sends(u) /\ Sends(u)'
            /\ \E image \in {NoImage, job[u].image} :
                 Held' = [Held EXCEPT ![1 - active["config"]] = image]
  PROVE  UpdateStep
<1>0. overlapped' = overlapped
  BY NoClash DEF Inv
<1>1. Alone /\ Alone'
  BY DEF Inv, OwnInv
<1>2. /\ job'[u].image = job[u].image /\ job'[u].type = job[u].type
      /\ \A v \in Updaters \ {u} : job'[v] = job[v]
  BY StepKeeps DEF Inv
<1>3. \A v \in Updaters \ {u} : ~Sends(v) /\ ~Sends(v)'
  <2>1. \A v \in Updaters \ {u} : ~Sends(v)
    BY <1>1, SendsUpdates DEF Alone
  <2> QED BY <1>2, <2>1 DEF Sends
<1>4. job[u].image \in Images
  BY DEF Inv, KindInv, HasImage, Updating, Busy, At
<1>5. CASE Sends(u) /\ Sends(u)'
  <2>1. Sent = job[u].image /\ Sent' = job[u].image
    BY <1>1, <1>2, <1>5, SentBy, SentByNext
  <2>2. CASE Held' = Held
    BY <1>0, <2>1, <2>2 DEF UpdateStep
  <2>3. CASE \E image \in {NoImage, job[u].image} :
               Held' = [Held EXCEPT ![1 - active["config"]] = image]
    <3>1. Update!Fill
      BY <1>0, <1>4, <2>1, <2>3, ImageAssumption DEF Update!Fill, Update!Spare
    <3> QED BY <3>1 DEF UpdateStep, Update!Next
  <2> QED BY <2>2, <2>3
<1>6. CASE ~Sends(u)'
  <2>1. Sent' = NoImage /\ Held' = Held
    BY <1>3, <1>6, SentNoneNext
  <2>2. CASE Sends(u)
    <3>1. Sent = job[u].image
      BY <1>1, <2>2, SentBy
    <3>2. Update!Withdraw
      BY <1>0, <1>4, <2>1, <3>1, ImageAssumption DEF Update!Withdraw
    <3> QED BY <3>2 DEF UpdateStep, Update!Next
  <2>3. CASE ~Sends(u)
    <3>1. Sent = NoImage
      BY <1>3, <2>3, SentNone
    <3> QED BY <1>0, <2>1, <3>1 DEF UpdateStep
  <2> QED BY <2>2, <2>3
<1>7. CASE ~Sends(u) /\ Sends(u)'
  <2>1. job[u].type = "config"
    BY <1>2, <1>7 DEF Sends
  <2>2. job[u].pc \in Places \ {"idle", "open", "edit"}
    BY TypeInvParts DEF Inv, Updating, Busy, At, JobsOK, Jobs
  <2> QED BY <1>7, <2>1, <2>2 DEF Sends, Places
<1> QED BY <1>5, <1>6, <1>7

(* An update opens: it is offered, unless it is a firmware, its task was   *)
(* not created, or another is at work.                                     *)
LEMMA MapOpen ==
  ASSUME Inv, Inv', NEW u \in Updaters, Open(u)
  PROVE  UpdateStep
<1>1. /\ At(u, "open")
      /\ overlapped' = (overlapped \/ \E v \in Updaters \ {u} : Busy(v))
      /\ UNCHANGED store
  BY DEF Open
<1>2. /\ job'[u].image = job[u].image /\ job'[u].type = job[u].type
      /\ \A v \in Updaters \ {u} : job'[v] = job[v]
  BY StepKeeps DEF Inv, DeviceStep
<1>3. Held' = Held /\ UNCHANGED <<active, mounted>>
  BY <1>1, HeldSame DEF store
<1>4. ~Sends(u)
  BY <1>1 DEF Sends, At
<1>5. CASE ~overlapped'
  <2>1. /\ ~overlapped /\ overlapped' = overlapped
        /\ \A v \in Updaters \ {u} : ~Busy(v)
    BY <1>1, <1>5, NoClash DEF Inv
  <2>2. \A v \in Updaters \ {u} : ~Sends(v) /\ ~Sends(v)'
    BY <1>2, <2>1 DEF Sends, Busy
  <2>3. Sent = NoImage
    BY <1>4, <2>2, SentNone
  <2>4. CASE Sends(u)'
    <3>1. Sent' = job[u].image
      BY <1>2, <1>5, <2>4, SentByNext DEF Inv, OwnInv
    <3>2. job[u].image \in Images
      BY <1>1 DEF Inv, KindInv, HasImage, At
    <3>3. Update!Offer
      BY <1>3, <1>5, <2>1, <2>3, <3>1, <3>2 DEF Update!Offer
    <3> QED BY <3>3 DEF UpdateStep, Update!Next
  <2>5. CASE ~Sends(u)'
    <3>1. Sent' = NoImage
      BY <2>2, <2>5, SentNoneNext
    <3> QED BY <1>3, <1>5, <2>1, <2>3, <3>1 DEF UpdateStep
  <2> QED BY <2>4, <2>5
<1>6. CASE overlapped' /\ overlapped
  BY <1>3, <1>6, MapDisturbed DEF Inv
<1>7. CASE overlapped' /\ ~overlapped
  <2>1. Sent' = NoImage
    BY <1>7, SentNoneNext
  <2>2. Update!Clash
    BY <1>3, <1>7, <2>1 DEF Update!Clash
  <2> QED BY <2>2 DEF UpdateStep, Update!Next
<1> QED BY <1>5, <1>6, <1>7

(* Nothing is written. *)
LEMMA MapMoves ==
  ASSUME Inv, Inv', ~overlapped, NEW u \in Updaters, Updating(u),
         \/ ClientStep(u) \/ Close(u) \/ NothingWritten(u)
         \/ MakeActiveFails(u) \/ End(u)
  PROVE  UpdateStep
<1>1. UNCHANGED <<store, overlapped>>
  BY DEF ClientStep, Received, ReceivedLate, EndOfBody, Close, NothingWritten,
         MakeActiveFails, End, history
<1>2. Held' = Held /\ UNCHANGED <<active, mounted>>
  BY <1>1, HeldSame DEF store
<1> QED BY <1>1, <1>2, MapUpdating DEF DeviceStep

(* The target is erased. *)
LEMMA MapBegin ==
  ASSUME Inv, Inv', ~overlapped, NEW u \in Updaters, Updating(u),
         Begin(u) \/ BeginFails(u)
  PROVE  UpdateStep
<1>1. /\ At(u, "begin") /\ UNCHANGED <<active, mounted, overlapped>>
      /\ flash' \in {flash, [flash EXCEPT ![ops][Target(ops)] = Erased]}
  BY DEF Begin, BeginFails
<1>2. ops \in Types /\ Target(ops) \in Slots /\ ops = job[u].type
  BY Facts, TargetOK DEF Inv, TypeInv, KindInv, Kind
<1>3. ClientStep(u) \/ DeviceStep(u)
  BY DEF DeviceStep
<1>4. CASE flash' = flash
  BY <1>1, <1>3, <1>4, HeldSame, MapUpdating
<1>5. CASE flash' = [flash EXCEPT ![ops][Target(ops)] = Erased]
  <2>1. ASSUME NEW r \in Slots, ops # "config" \/ r # Target(ops)
        PROVE  flash'["config"][r] = flash["config"][r]
    BY <1>2, <1>5, <2>1, Facts, OtherSlot DEF Inv
  <2>2. CASE ops # "config"
    BY <1>1, <1>3, <2>1, <2>2, HeldSame, MapUpdating
  <2>3. CASE ops = "config"
    <3>1. Target(ops) = 1 - active["config"]
      BY <2>3 DEF Target
    <3>2. flash'["config"][Target(ops)] = Erased
      BY <1>2, <1>5, <2>3, Facts DEF Inv, Flashes
    <3>3. Held' = [Held EXCEPT ![1 - active["config"]] = NoImage]
      BY <1>2, <2>1, <3>1, <3>2, HeldOne, ImageLost
    <3>4. Sends(u) /\ Sends(u)'
      <4>1. job'[u].pc \in {"write", "close", "body"}
        BY TypeInvParts DEF Inv, Begin, BeginFails, Go, Refused, JobsOK, Jobs
      <4>2. job'[u].type = job[u].type
        BY <1>3, StepKeeps DEF Inv
      <4> QED BY <1>1, <1>2, <2>3, <4>1, <4>2 DEF Sends, At
    <3> QED BY <1>1, <1>3, <3>3, <3>4, MapUpdating
  <2> QED BY <2>2, <2>3
<1> QED BY <1>1, <1>4, <1>5
(* What a slot holds once a chunk was written behind the place of the      *)
(* handle: nothing, or the image.                                          *)
LEMMA HoldsNext ==
  ASSUME Inv, Inv', ~overlapped', NEW u \in Updaters, Writing(u)',
         handles'[handle'].type = "config", handle' \in 1 .. Len(handles'),
         active'["config"] = active["config"], job'[u].image \in Images
  PROVE  ImageIn(flash'["config"][1 - active["config"]])
           \in {NoImage, job'[u].image}
<1> DEFINE h == handles'[handle']
           f == flash'["config"][1 - active["config"]]
           n == h.n
           next == job'[u].next
           image == job'[u].image
<1>1. Content(u)'
  BY DEF Inv, OwnInv, Owns
<1>2. ~h.live => n < next - 1
  <2>1. Updating(u)'
    BY DEF Writing, Updating, Busy, At
  <2>2. Behind(u)'
    BY <2>1 DEF Inv, KindInv
  <2> QED BY <2>2 DEF Behind
<1>3. /\ h.slot = 1 - active["config"]
      /\ \A i \in 1 .. Chunks : i > n => f[i] \in {Blank, Mixed}
      /\ h.live =>
           /\ n <= next - 1
           /\ n = next - 1 => \A i \in 1 .. Chunks : i <= n => f[i] = Chunk(image, i)
  BY <1>1 DEF Content
<1>4. n \in 0 .. Chunks /\ next \in 1 .. Chunks + 1
      /\ f \in [1 .. Chunks -> Pieces]
  <2>1. /\ handles' \in Seq(Handles) /\ flash' \in Flashes
        /\ job' \in Jobs(Len(handles')) /\ active' \in [Types -> Slots]
    BY Zenon DEF Inv, TypeInv, TypeOK, Flashes, Pieces, Jobs, Places
  <2>2. h \in Handles
    BY <2>1
  <2>3. 1 - active["config"] \in Slots /\ "config" \in Types
    BY Facts DEF Inv
  <2> QED BY <2>1, <2>2, <2>3 DEF Handles, Jobs, Flashes
<1> HIDE DEF h, f, n, next, image
<1>5. CASE n < Chunks
  <2>1. Chunks \in 1 .. Chunks /\ f[Chunks] \in {Blank, Mixed}
    BY <1>3, <1>4, <1>5, ChunkAssumption
  <2>2. f[Chunks].image = NoImage
    BY <2>1 DEF Blank, Mixed, Chunk
  <2>3. ImageIn(f) = NoImage
    BY <2>1, <2>2, ImageNone
  <2> QED BY <2>3 DEF f
<1>6. CASE n = Chunks
  <2>1. h.live /\ n = next - 1
    BY <1>2, <1>3, <1>4, <1>6, ChunkAssumption
  <2>2. \A i \in 1 .. Chunks : f[i] = Chunk(image, i)
    BY <1>3, <1>6, <2>1, ChunkAssumption
  <2>3. f = Full(image)
    BY <1>4, <2>2 DEF Full
  <2>4. ImageIn(f) = image
    BY <2>3, ImageFull DEF image
  <2> QED BY <2>4 DEF f, image
<1> QED BY <1>4, <1>5, <1>6, ChunkAssumption

(* A chunk is written, or refused. *)
LEMMA MapWrite ==
  ASSUME Inv, Inv', ~overlapped, NEW u \in Updaters, Updating(u),
         Write(u) \/ WriteFails(u)
  PROVE  UpdateStep
<1> DEFINE h == handles[handle]
<1>1. /\ At(u, "write") /\ UNCHANGED <<active, mounted, overlapped>>
      /\ handle' = handle
  BY DEF Write, WriteFails, history, ctx
<1>2. handle \in 1 .. Len(handles) /\ h \in Handles
  BY <1>1, Writer DEF Inv
<1>3. Content(u) /\ h.type = job[u].type /\ Writing(u)
  BY <1>1 DEF Inv, OwnInv, Owns, KindInv, Kind, Writing
<1>4. /\ ClientStep(u) \/ DeviceStep(u)
      /\ job'[u].image = job[u].image /\ job'[u].type = job[u].type
  BY StepKeeps DEF DeviceStep, Inv
<1>5. CASE UNCHANGED flash
  BY <1>1, <1>4, <1>5, HeldSame, MapUpdating
<1>6. ASSUME h.n < Chunks, NEW c, flash' = Written(h, c),
             h.type = "config" =>
               ImageIn(flash'["config"][h.slot]) \in {NoImage, job[u].image}
      PROVE  UpdateStep
  <2>1. ASSUME NEW r \in Slots, h.type # "config" \/ r # h.slot
        PROVE  flash'["config"][r] = flash["config"][r]
    <3> HIDE DEF h
    <3> QED BY <1>2, <1>6, <2>1, Facts, OtherPlace DEF Inv
  <2>2. CASE h.type # "config"
    <3>1. Held' = Held
      BY <2>1, <2>2, HeldSame
    <3> QED BY <1>1, <1>4, <3>1, MapUpdating
  <2>3. CASE h.type = "config"
    <3>1. h.slot = 1 - active["config"] /\ h.slot \in Slots
      BY <1>2, <1>3, <2>3 DEF Content, Handles
    <3>2. Held' = [Held EXCEPT ![h.slot] = ImageIn(flash'["config"][h.slot])]
      BY <2>1, <3>1, HeldOne
    <3>3. Sends(u) /\ Sends(u)'
      <4>1. job'[u].pc \in {"close", "body"}
        BY TypeInvParts DEF Inv, Write, WriteFails, Refused, JobsOK, Jobs
      <4> QED BY <1>1, <1>3, <1>4, <2>3, <4>1 DEF Sends, At
    <3>4. \E image \in {NoImage, job[u].image} :
            Held' = [Held EXCEPT ![1 - active["config"]] = image]
      <4> HIDE DEF h
      <4> QED BY <1>6, <2>3, <3>1, <3>2
    <3> QED BY <1>1, <1>4, <3>3, <3>4, MapUpdating
  <2> QED BY <2>2, <2>3
<1>7. CASE Write(u)
  <2>1. /\ h.n < Chunks
        /\ flash' = Written(h, Chunk(job[u].image, job[u].next))
        /\ handles' = [handles EXCEPT ![handle].n = @ + 1]
        /\ written' = written + 1
    BY <1>7 DEF Write
  <2>2. /\ handles'[handle].type = h.type /\ handle \in 1 .. Len(handles')
        /\ handles'[handle].slot = h.slot
    BY <1>2, <2>1, Facts DEF Inv, Handles
  <2>3. ASSUME h.type = "config"
        PROVE  ImageIn(flash'["config"][h.slot]) \in {NoImage, job[u].image}
    <3>1. job'[u].pc = "body" /\ written' > 0
      BY <1>7, <2>1, TypeInvParts, Facts DEF Inv, Write, JobsOK, Jobs
    <3>2. Writing(u)'
      BY <3>1 DEF Writing
    <3>3. job'[u].image \in Images
      BY <1>1, <1>4 DEF Inv, KindInv, HasImage, At
    <3>4. ~overlapped' /\ h.slot = 1 - active["config"]
      BY <1>1, <1>3, <2>3 DEF Content
    <3> HIDE DEF h
    <3> QED BY <1>1, <1>4, <2>2, <2>3, <3>2, <3>3, <3>4, HoldsNext
  <2> HIDE DEF h
  <2> QED BY <1>6, <2>1, <2>3
<1>8. CASE WriteFails(u)
  <2>1. UNCHANGED flash \/ (h.live /\ h.n < Chunks /\ flash' = Written(h, Mixed))
    BY <1>8, Zenon DEF WriteFails
  <2>2. ASSUME h.n < Chunks, flash' = Written(h, Mixed), h.type = "config"
        PROVE  ImageIn(flash'["config"][h.slot]) = NoImage
    <3>1. h.n + 1 \in 1 .. Chunks
      BY <1>2, <2>2, ChunkAssumption DEF Handles
    <3>2. flash'["config"][h.slot][h.n + 1] = Mixed
      <4> HIDE DEF h
      <4> QED BY <1>2, <2>2, <3>1, WrittenPlace DEF Inv
    <3>3. flash'["config"][h.slot][h.n + 1].image = NoImage
      BY <3>2 DEF Mixed, Chunk
    <3> HIDE DEF h
    <3> QED BY <3>1, <3>3, ImageNone
  <2> HIDE DEF h
  <2> QED BY <1>5, <1>6, <2>1, <2>2
<1> QED BY <1>7, <1>8

(* The image becomes the active one. *)
LEMMA MapMakeActive ==
  ASSUME Inv, Inv', ~overlapped, NEW u \in Updaters, Updating(u), MakeActive(u)
  PROVE  UpdateStep
<1> DEFINE h == handles[job[u].handle]
<1>1. At(u, "set") /\ Go(u, "idle") /\ UNCHANGED <<flash, mounted, overlapped>>
  BY DEF MakeActive
<1>2. job'[u].pc = "idle"
  BY <1>1, TypeInvParts DEF Inv, Go, JobsOK, Jobs
<1>3. Held' = Held
  BY <1>1, HeldSame
<1>4. active \in [Types -> Slots]
  BY TypeInvParts DEF Inv, StoreOK
<1>5. h.type = job[u].type /\ Ready(u)
  BY <1>1 DEF Inv, KindInv, Kind, OwnInv, Owns
<1>6. CASE h.type = "config" /\ active' = [active EXCEPT !["config"] = h.slot]
  <2>1. Sends(u) /\ job[u].image \in Images
    BY <1>1, <1>5, <1>6 DEF Sends, At, Inv, KindInv, HasImage
  <2>2. Sent = job[u].image
    BY <2>1, SentBy DEF Inv, OwnInv
  <2>3. \A v \in Updaters : ~Sends(v)'
    <3>1. \A v \in Updaters \ {u} : ~Sends(v)
      BY SendsUpdates DEF Inv, OwnInv, Alone
    <3>2. \A v \in Updaters \ {u} : job'[v] = job[v]
      BY StepKeeps DEF Inv, DeviceStep
    <3> QED BY <1>2, <3>1, <3>2 DEF Sends
  <2>4. Sent' = NoImage
    BY <2>3, SentNoneNext
  <2>5. h.slot = 1 - active["config"]
        /\ flash["config"][h.slot] = Full(job[u].image)
    BY <1>5, <1>6 DEF Ready
  <2>6. Held[1 - active["config"]] = job[u].image
    <3>1. 1 - active["config"] \in Slots
      BY Facts DEF Inv
    <3>2. ImageIn(Full(job[u].image)) = job[u].image
      BY <2>1, ImageFull
    <3> HIDE DEF h
    <3> QED BY <2>5, <3>1, <3>2 DEF Held
  <2>7. active'["config"] = 1 - active["config"]
    <3>1. "config" \in Types
      BY DEF Types
    <3> QED BY <1>4, <1>6, <2>5, <3>1
  <2>8. Update!Activate
    BY <1>1, <1>3, <2>1, <2>2, <2>4, <2>6, <2>7, ImageAssumption
       DEF Update!Activate, Update!Spare
  <2> QED BY <2>8 DEF UpdateStep, Update!Next
<1>7. CASE h.type = "firmware"
           /\ active' = [active EXCEPT !["firmware"] = Target("firmware")]
  <2>1. active'["config"] = active["config"]
    BY <1>4, <1>7 DEF Types
  <2>2. ~overlapped'
    BY <1>1
  <2> QED BY <1>1, <1>3, <2>1, <2>2, MapUpdating DEF DeviceStep
<1> QED BY <1>6, <1>7 DEF MakeActive
(* A file of the configuration in use is changed. *)
LEMMA SentKept ==
  ASSUME Inv, Inv', ~overlapped, ~overlapped',
         \A v \in Updaters : \/ job'[v] = job[v]
                             \/ ~Sends(v) /\ ~Sends(v)'
  PROVE  Sent' = Sent
<1>1. CASE \E v \in Updaters : Sends(v)
  <2>1. PICK v \in Updaters : Sends(v)
    BY <1>1
  <2>2. Sends(v)' /\ job'[v] = job[v]
    BY <2>1 DEF Sends
  <2> QED BY <2>1, <2>2, SentBy, SentByNext DEF Inv, OwnInv
<1>2. CASE \A v \in Updaters : ~Sends(v)
  <2>1. \A v \in Updaters : ~Sends(v)'
    BY <1>2 DEF Sends
  <2> QED BY <1>2, <2>1, SentNone, SentNoneNext
<1> QED BY <1>1, <1>2

LEMMA MapChange ==
  ASSUME Inv, Inv', ~overlapped, ~overlapped', NEW s \in mounted,
         NEW image \in Images \union {NoImage},
         Held' = [Held EXCEPT ![s] = image], UNCHANGED <<active, mounted>>,
         Sent' = Sent, Sends("ota_task") => s = active["config"],
         ~Sends("httpd")
  PROVE  UpdateStep
<1>1. Sent # NoImage => s = active["config"]
  BY SentNone DEF Updaters
<1>2. overlapped' = overlapped
  BY NoClash DEF Inv
<1>3. Update!ChangeFile
  BY <1>1, <1>2 DEF Update!ChangeFile, Update!Contents
<1> QED BY <1>3 DEF UpdateStep, Update!Next

LEMMA MapLose ==
  ASSUME Inv, Inv', NEW s \in mounted, LoseConfigJson(s), Files,
         At("httpd", "idle")
  PROVE  UpdateStep
<1>1. /\ flash' = [flash EXCEPT !["config"][s] = NoConfigJson]
      /\ UNCHANGED <<active, mounted>>
      /\ overlapped' = (overlapped \/ (s = Target("config") /\ Busy("ota_task")))
  BY DEF LoseConfigJson
<1>2. mounted = {s} /\ s \in Slots
  BY MountedOne, Facts DEF Inv
<1>3. Held' = [Held EXCEPT ![s] = NoImage]
  <2>1. \A r \in Slots \ {s} : flash'["config"][r] = flash["config"][r]
    BY <1>1, <1>2, Facts, OtherSlot DEF Inv
  <2>2. flash'["config"][s] = NoConfigJson
    BY <1>1, <1>2, Facts DEF Inv, Flashes
  <2> QED BY <1>2, <2>1, <2>2, HeldOne, ImageLost
<1>4. CASE overlapped
  BY <1>1, <1>4, MapDisturbed DEF Inv
<1>5. CASE ~overlapped /\ overlapped'
  <2>1. Sent' = NoImage
    BY <1>5, SentNoneNext
  <2>2. Update!Clash
    BY <1>1, <1>3, <1>5, <2>1 DEF Update!Clash
  <2> QED BY <2>2 DEF UpdateStep, Update!Next
<1>6. CASE ~overlapped /\ ~overlapped'
  <2>1. ~Sends("httpd") /\ ~Sends("httpd")' /\ job'["ota_task"] = job["ota_task"]
    BY FilesKeep DEF Inv, Sends
  <2>2. Sent' = Sent
    BY <1>6, <2>1, SentKept DEF Updaters
  <2>3. ASSUME Sends("ota_task") PROVE s = active["config"]
    <3>1. Busy("ota_task")
      BY <2>3 DEF Sends, Busy
    <3>2. s # Target("config")
      BY <1>1, <1>6, <3>1
    <3> QED BY <1>2, <3>2, Facts DEF Inv, Target, Slots
  <2> QED BY <1>1, <1>3, <1>6, <2>1, <2>2, <2>3, MapChange
<1> QED BY <1>4, <1>5, <1>6

LEMMA MapFiles ==
  ASSUME Inv, Inv', Files
  PROVE  UpdateStep
<1>1. CASE PostFile \/ DeleteFile
  BY <1>1, MapLose DEF PostFile, DeleteFile
<1>2. CASE FilePosted
  <2>1. At("httpd", "edit") /\ UNCHANGED <<active, mounted, overlapped>>
    BY <1>2 DEF FilePosted, history
  <2>2. CASE overlapped
    BY <2>1, <2>2, MapDisturbed DEF Inv
  <2>3. CASE ~overlapped
    <3>1. ~Sends("httpd") /\ ~Sends("httpd")' /\ job'["ota_task"] = job["ota_task"]
      BY FilesKeep DEF Inv, Sends
    <3>2. Sent' = Sent
      BY <2>1, <2>3, <3>1, SentKept DEF Updaters
    <3>3. CASE UNCHANGED flash
      BY <2>1, <3>2, <3>3, HeldSame DEF UpdateStep
    <3>4. CASE \E s \in mounted, image \in Images :
                 /\ flash["config"][s] = NoConfigJson
                 /\ flash' = [flash EXCEPT !["config"][s] = Full(image)]
      <4>1. PICK s \in mounted, image \in Images :
                   flash' = [flash EXCEPT !["config"][s] = Full(image)]
        BY <3>4
      <4>2. mounted = {s} /\ s \in Slots
        BY MountedOne, Facts DEF Inv
      <4>3. \A r \in Slots \ {s} : flash'["config"][r] = flash["config"][r]
        BY <4>1, <4>2, Facts, OtherSlot DEF Inv
      <4>4. flash'["config"][s] = Full(image)
        BY <4>1, <4>2, Facts DEF Inv, Flashes
      <4>5. Held' = [Held EXCEPT ![s] = image]
        BY <4>2, <4>3, <4>4, HeldOne, ImageFull
      <4>6. ASSUME Sends("ota_task") PROVE s = active["config"]
        <5>1. Updating("ota_task")
          BY <4>6, SendsUpdates DEF Updaters
        <5>2. mounted \subseteq {active["config"]}
          BY <2>1, <2>3, <5>1 DEF Inv, OwnInv, Apart
        <5> QED BY <5>2
      <4> QED BY <2>1, <2>3, <3>1, <3>2, <4>5, <4>6, MapChange
    <3> QED BY <1>2, <3>3, <3>4 DEF FilePosted
  <2> QED BY <2>2, <2>3
<1> QED BY <1>1, <1>2 DEF Files

(* A boot. *)
LEMMA MapRestart ==
  ASSUME Inv, Inv', Restart
  PROVE  UpdateStep
<1> DEFINE a == active["config"]
<1>1. a \in Slots /\ 1 - a \in Slots /\ 1 - a # a /\ Slots = {a, 1 - a}
  BY Facts DEF Inv, Slots
<1>2. /\ Usable("config", a) <=> a \in Update!Usable
      /\ Usable("config", 1 - a) <=> 1 - a \in Update!Usable
      /\ Update!Usable \subseteq Slots
  BY <1>1, UsableSame DEF Update!Usable, Update!Slots, Slots
<1>3. Sent' = NoImage
  <2>1. \A u \in Updaters : ~Sends(u)'
    BY DEF Restart, Idle, Sends
  <2> QED BY <2>1, SentNoneNext
<1>4. PICK S \in SUBSET PassedOver :
        flash' = [flash EXCEPT !["config"] =
                    [s \in Slots |-> IF s \in S THEN Erased ELSE @[s]]]
  BY DEF Restart, Formatted
<1>5. /\ S \subseteq Slots \ Update!Usable
      /\ a \in Update!Usable => S = {}
  <2>1. S \subseteq {s \in Slots : ~Usable("config", s)}
    BY <1>4 DEF PassedOver
  <2>2. S \subseteq Slots \ Update!Usable
    BY <2>1, UsableSame
  <2>3. a \in Update!Usable => S = {}
    BY <1>2, <1>4 DEF PassedOver
  <2> QED BY <2>2, <2>3
<1>6. Held' = [s \in Update!Slots |-> IF s \in S THEN NoImage ELSE Held[s]]
  <2>1. \A s \in Slots :
          flash'["config"][s] = IF s \in S THEN Erased ELSE flash["config"][s]
    BY <1>4, Facts DEF Inv, Flashes
  <2>2. ASSUME NEW s \in Slots
        PROVE  ImageIn(flash'["config"][s]) = IF s \in S THEN NoImage ELSE Held[s]
    BY <2>1, ImageLost DEF Held
  <2> QED BY <2>2 DEF Held, Update!Slots, Slots
<1>7. /\ mounted' = IF a \in Update!Usable THEN {a} ELSE Update!Usable
      /\ active'["config"] \in {a} \union mounted'
  <2>1. active \in [Types -> Slots] /\ "config" \in Types
    BY TypeInvParts, Facts DEF Inv, StoreOK
  <2>2. CASE FallsBack
    <3>1. mounted' = {1 - a}
          /\ active' \in {active, [active EXCEPT !["config"] = 1 - @]}
      BY <2>2, Zenon DEF Restart, Load
    <3>2. a \notin Update!Usable /\ Update!Usable = {1 - a}
      BY <1>1, <1>2, <2>2 DEF FallsBack
    <3>3. active'["config"] \in {a, 1 - a}
      BY <2>1, <3>1
    <3> QED BY <3>1, <3>2, <3>3
  <2>3. CASE ~FallsBack
    <3>1. active' = active
          /\ mounted' = {a} \ {s \in Slots : ~Usable("config", s)}
      BY <2>3, Zenon DEF Restart, Load
    <3>2. CASE Usable("config", a)
      BY <1>2, <3>1, <3>2
    <3>3. CASE ~Usable("config", a)
      <4>1. mounted' = {}
        BY <1>1, <3>1, <3>3
      <4>2. Update!Usable = {}
        BY <1>1, <1>2, <2>3, <3>3 DEF FallsBack
      <4> QED BY <1>2, <3>1, <3>3, <4>1, <4>2
    <3> QED BY <3>2, <3>3
  <2> QED BY <2>2, <2>3
<1>8. overlapped' = (overlapped /\ mounted' # {active'["config"]})
  BY Zenon DEF Restart
<1> HIDE DEF a
<1>9. Update!Boot
  BY <1>3, <1>5, <1>6, <1>7, <1>8 DEF Update!Boot, Update!Slots, Slots, a
<1> QED BY <1>9 DEF UpdateStep, Update!Next

LEMMA MapNext ==
  ASSUME Inv, Inv', [Next]_vars
  PROVE  UpdateStep
<1>1. CASE Restart
  BY <1>1, MapRestart
<1>2. CASE Files
  BY <1>2, MapFiles
<1>3. CASE \E u \in Updaters, t \in Types, image \in Images : Check(u, t, image)
  <2>1. PICK u \in Updaters, t \in Types, image \in Images : Check(u, t, image)
    BY <1>3
  <2>2. UNCHANGED <<store, overlapped>>
    BY <2>1 DEF Check, history
  <2>3. Held' = Held /\ UNCHANGED <<active, mounted>>
    BY <2>2, HeldSame DEF store
  <2>4. CASE overlapped
    BY <2>2, <2>3, <2>4, MapDisturbed DEF Inv
  <2>5. CASE ~overlapped
    <3>1. \A v \in Updaters : job'[v] = job[v] \/ (~Sends(v) /\ ~Sends(v)')
      BY <2>1, CheckKeeps DEF Inv, Sends
    <3>2. Sent' = Sent
      BY <2>2, <2>5, <3>1, SentKept
    <3> QED BY <2>2, <2>3, <3>2 DEF UpdateStep
  <2> QED BY <2>4, <2>5
<1>4. ASSUME NEW u \in Updaters, ClientStep(u) \/ DeviceStep(u)
      PROVE  UpdateStep
  <2>1. CASE Open(u)
    BY <2>1, MapOpen
  <2>2. CASE ~Open(u)
    <3>1. UNCHANGED <<mounted, overlapped>>
      BY <1>4, <2>2, Zenon
         DEF ClientStep, DeviceStep, Received, ReceivedLate, EndOfBody, Begin,
             BeginFails, Write, WriteFails, Close, NothingWritten, End,
             MakeActive, MakeActiveFails, history, store
    <3>2. CASE overlapped
      BY <3>1, <3>2, MapDisturbed DEF Inv
    <3>3. CASE ~overlapped
      <4>1. ~At(u, "open")
        BY <1>4, <2>2 DEF ClientStep, DeviceStep, Received, ReceivedLate,
           EndOfBody, Begin, BeginFails, Write, WriteFails, Close,
           NothingWritten, End, MakeActive, MakeActiveFails, At
      <4>2. Updating(u)
        BY <1>4, <4>1, StepKeeps DEF Inv, Updating, Busy, At
      <4> QED BY <1>4, <2>2, <3>3, <4>2, MapMoves, MapBegin, MapWrite,
                 MapMakeActive DEF DeviceStep
    <3> QED BY <3>2, <3>3
  <2> QED BY <2>1, <2>2
<1>5. CASE UNCHANGED vars
  BY <1>5 DEF vars, store, ctx, history, UpdateStep, Held, Sent, Sends
<1> QED BY <1>1, <1>2, <1>3, <1>4, <1>5 DEF Next

LEMMA MapInit == Init => Update!Init
<1> SUFFICES ASSUME Init PROVE Update!Init
  OBVIOUS
<1>1. Held = [s \in Slots |-> IF s = 0 THEN Factory ELSE NoImage]
  <2>1. \A s \in Slots : flash["config"][s] = IF s = 0 THEN Full(Factory) ELSE Erased
    BY DEF Init, Types
  <2>2. ASSUME NEW s \in Slots
        PROVE  ImageIn(flash["config"][s]) = IF s = 0 THEN Factory ELSE NoImage
    BY <2>1, ImageFull, ImageLost, ImageAssumption
  <2> QED BY <2>2 DEF Held
<1>2. Sent = NoImage
  BY SentNone DEF Init, Idle, Sends
<1>3. active["config"] = 0 /\ mounted = {0} /\ ~overlapped /\ overlapped = FALSE
  BY DEF Init, Types
<1> QED BY <1>1, <1>2, <1>3 DEF Update!Init, Update!Slots, Slots

(* Configurations implement TwoSlots: whatever fails, and wherever a reset *)
(* comes, only a whole image replaces the one that is active, and a boot   *)
(* loads a usable one if there is one and damages none.                    *)
THEOREM UpdateCorrect == Spec => FillThenActivate
<1>1. Inv /\ Inv' /\ [Next]_vars
        => [Update!Next]_<<Held, active["config"], mounted, Sent, overlapped>>
  BY MapNext DEF UpdateStep
<1>2. Spec => []Inv
  <2>1. Init => KindInv
    BY KindInit
  <2> QED BY <2>1, TypeAlways, OwnInit, OwnNext, KindNext, PTL DEF Spec, Inv
<1> QED BY <1>1, <1>2, MapInit, PTL DEF Spec, FillThenActivate, Update!Spec
=============================================================================
