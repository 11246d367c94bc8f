-------------------------------- MODULE Ota --------------------------------
(***************************************************************************)
(* Updates over the air: ota.c, the part of config.c that keeps two        *)
(* configuration partitions, the handlers of httpd.c that write, and the   *)
(* boot that picks a partition.  Configuration and firmware have two slots *)
(* each; an update fills the slot that is not in use and then makes it the *)
(* active one.  The HTTP server also writes and deletes single files in    *)
(* the file system of the configuration that is mounted; of these files    *)
(* config.json alone matters to the boot.                                  *)
(*                                                                         *)
(* Two tasks update: httpd (an upload) and ota_task (a download).  They    *)
(* share ota_ctx, which no lock protects: in_progress is tested when an    *)
(* update opens and set after that, and cleared before the update is       *)
(* finished.  A step ends where the other task or a reset can come         *)
(* between.                                                                *)
(***************************************************************************)
EXTENDS Integers, Sequences, FiniteSets

CONSTANTS
  Chunks,       \* pieces an image arrives in; they fill a slot
  Images,       \* images that are sent
  Unusable,     \* those no program can start from: no config.json in them,
                \*   a broken firmware
  Factory,      \* the image flashed at first
  NoImage,
  MaxUpdates    \* bound: updates that are opened and files that are changed

ASSUME ChunkAssumption == Chunks \in Nat \ {0}
ASSUME ImageAssumption == /\ Unusable \subseteq Images
                          /\ Factory \in Images \ Unusable
                          /\ NoImage \notin Images
ASSUME BoundAssumption == MaxUpdates \in Nat

Types    == {"config", "firmware"}
Slots    == 0 .. 1
Updaters == {"httpd", "ota_task"}

VARIABLES
  flash,       \* what each slot of each type holds, chunk by chunk
  active,      \* NVS active_partition; the boot partition of otadata
  running,     \* the firmware slot the program runs from
  mounted,     \* the configuration slot the boot has loaded: {} if none
  inProgress, ops, written, handle,   \* ota_ctx; handle indexes `handles'
  handles,     \* handles made by begin since the reset
  job,         \* what each updater is at
  updates,     \* updates opened so far
  accepted,    \* history: the configuration image that was made active last,
               \*   NoImage once a boot or a changed file has undone it
  orphaned,    \* history: an update is open whose task was not created
  overlapped,  \* history: an update was opened inside another, or a file
               \*   was changed in the slot that is being updated
  hurried,     \* history: a configuration update was begun while the active
               \*   configuration was not the one in use, or unusable
  spoiled      \* history: config.json was changed where it was the only one

store   == <<flash, active, running, mounted>>
ctx     == <<inProgress, ops, written, handle>>
history == <<accepted, orphaned, overlapped, hurried, spoiled>>
vars    == <<store, ctx, handles, job, updates, history>>

-----------------------------------------------------------------------------
Chunk(image, i) == [image |-> image, part |-> i]
Blank == Chunk(NoImage, 0)    \* erased
Mixed == Chunk(NoImage, 1)    \* written over, or written in part

Erased == [i \in 1 .. Chunks |-> Blank]
Full(image) == [i \in 1 .. Chunks |-> Chunk(image, i)]

Usable(t, s) == \E image \in Images \ Unusable : flash[t][s] = Full(image)

Idle == [pc |-> "idle", type |-> "config", image |-> NoImage, next |-> 1,
         handle |-> 0]

Handles == [type : Types, slot : Slots, n : 0 .. Chunks, live : BOOLEAN]

TypeOK ==
  /\ flash \in [Types -> [Slots ->
       [1 .. Chunks -> [image : Images \union {NoImage}, part : 0 .. Chunks]]]]
  /\ active \in [Types -> Slots]
  /\ running \in Slots
  /\ mounted \in SUBSET Slots /\ Cardinality(mounted) <= 1
  /\ inProgress \in BOOLEAN /\ ops \in Types
  /\ written \in Nat /\ handles \in Seq(Handles)
  /\ handle \in 0 .. Len(handles) /\ (written > 0 => handle > 0)
  /\ job \in [Updaters ->
       [pc : {"idle", "open", "body", "begin", "write", "close", "end", "set",
              "edit"},
        type : Types, image : Images \union {NoImage},
        next : 1 .. Chunks + 1, handle : 0 .. Len(handles)]]
  /\ updates \in 0 .. MaxUpdates
  /\ accepted \in Images \union {NoImage}
  /\ orphaned \in BOOLEAN /\ overlapped \in BOOLEAN
  /\ hurried \in BOOLEAN /\ spoiled \in BOOLEAN

Init ==
  /\ flash = [t \in Types |-> [s \in Slots |-> IF s = 0 THEN Full(Factory)
                                               ELSE Erased]]
  /\ active = [t \in Types |-> 0] /\ running = 0 /\ mounted = {0}
  /\ inProgress = FALSE /\ ops = "config" /\ written = 0 /\ handle = 0
  /\ handles = <<>>
  /\ job = [u \in Updaters |-> Idle]
  /\ updates = 0
  /\ accepted = Factory /\ orphaned = FALSE
  /\ overlapped = FALSE /\ hurried = FALSE /\ spoiled = FALSE

-----------------------------------------------------------------------------
\* slip: the firmware too is written beside the active one
TargetUnbooted(t) == 1 - active[t]

(* The slot an update of type t is written to.  For the configuration it   *)
(* is worked out from NVS, for the firmware from what runs.                *)
Target(t) == IF t = "config" THEN 1 - active["config"] ELSE 1 - running

Busy(u) == job[u].pc \notin {"idle", "open"}

At(u, pc) == job[u].pc = pc
Go(u, pc) == job' = [job EXCEPT ![u].pc = pc]

(* ota_open: nothing else is in progress ...  A download is asked for by   *)
(* MQTT, and so takes a configuration.                                     *)
Check(u, t, image) ==
  /\ At(u, "idle") /\ ~inProgress
  /\ u = "ota_task" => mounted # {}
  /\ updates < MaxUpdates /\ updates' = updates + 1
  /\ job' = [job EXCEPT ![u] =
               [Idle EXCEPT !.pc = "open", !.type = t, !.image = image]]
  /\ UNCHANGED <<store, ctx, handles, history>>

(* ... and now this update is.  ota_download does not look whether the     *)
(* task of a download could be created.                                    *)
Open(u) ==
  /\ At(u, "open")
  /\ \/ Go(u, "body") /\ UNCHANGED orphaned
     \/ u = "ota_task" /\ Go(u, "idle") /\ orphaned' = TRUE
  /\ inProgress' = TRUE /\ ops' = job[u].type /\ written' = 0
  /\ overlapped' = (overlapped \/ \E v \in Updaters \ {u} : Busy(v))
  /\ UNCHANGED <<store, handle, handles, updates, accepted, hurried, spoiled>>

-----------------------------------------------------------------------------
(* ota_write, for the next chunk                                           *)

Received(u) ==
  /\ At(u, "body") /\ job[u].next <= Chunks
  /\ inProgress
  /\ Go(u, IF written = 0 THEN "begin" ELSE "write")
  /\ UNCHANGED <<store, ctx, handles, updates, history>>

\* slip: an upload that is refused is not closed
RefusedLeft(u) ==
  job' = [job EXCEPT ![u].pc   = IF u = "httpd" THEN "idle" ELSE "body",
                     ![u].next = @ + 1]

(* A chunk that was refused ends an upload; a download goes on with the    *)
(* next chunk, for esp_http_client does not look at what http_event_cb     *)
(* returns.                                                                *)
Refused(u) ==
  job' = [job EXCEPT ![u].pc   = IF u = "httpd" THEN "close" ELSE "body",
                     ![u].next = @ + 1]

ReceivedLate(u) ==
  /\ At(u, "body") /\ job[u].next <= Chunks
  /\ ~inProgress
  /\ Refused(u)
  /\ UNCHANGED <<store, ctx, handles, updates, history>>

Hurries == /\ ops = "config"
           /\ \/ mounted # {active["config"]}
              \/ ~Usable("config", active["config"])

(* config_update_begin, esp_ota_begin *)
Begin(u) ==
  /\ At(u, "begin") /\ Go(u, "write")
  /\ flash' = [flash EXCEPT ![ops][Target(ops)] = Erased]
  /\ handles' = Append(handles, [type |-> ops, slot |-> Target(ops),
                                 n |-> 0, live |-> TRUE])
  /\ handle' = Len(handles')
  /\ hurried' = (hurried \/ Hurries)
  /\ UNCHANGED <<active, running, mounted, inProgress, ops, written, updates,
                 accepted, orphaned, overlapped, spoiled>>

BeginFails(u) ==
  /\ At(u, "begin") /\ Refused(u)
  /\ flash' \in {flash, [flash EXCEPT ![ops][Target(ops)] = Erased]}
  /\ hurried' = (hurried \/ Hurries)
  /\ UNCHANGED <<active, running, mounted, ctx, handles, updates, accepted,
                 orphaned, overlapped, spoiled>>

(* The flash takes a chunk at the place the handle has reached.            *)
Written(h, chunk) ==
  [flash EXCEPT ![h.type][h.slot][h.n + 1] =
     IF @ = Blank THEN chunk ELSE Mixed]

(* config_update_write, esp_ota_write.  A configuration handle that is     *)
(* used after it was freed still reads as it was (or the program crashes,  *)
(* which is a Restart).                                                    *)
Write(u) ==
  LET h == handles[handle] IN
  /\ At(u, "write") /\ h.n < Chunks
  /\ h.live \/ h.type = "config"
  /\ flash' = Written(h, Chunk(job[u].image, job[u].next))
  /\ handles' = [handles EXCEPT ![handle].n = @ + 1]
  /\ written' = written + 1
  /\ job' = [job EXCEPT ![u].pc = "body", ![u].next = @ + 1]
  /\ UNCHANGED <<active, running, mounted, inProgress, ops, handle, updates,
                 history>>

(* The flash refuses the chunk, or took a part of it; the configuration    *)
(* handle is freed, and ota_ctx keeps it.  Freeing it again is a crash.    *)
WriteFails(u) ==
  LET h == handles[handle] IN
  /\ At(u, "write") /\ Refused(u)
  /\ \/ h.type = "config" /\ h.live
        /\ handles' = [handles EXCEPT ![handle].live = FALSE]
     \/ h.type = "firmware" /\ UNCHANGED handles
  /\ \/ UNCHANGED flash
     \/ h.live /\ h.n < Chunks /\ flash' = Written(h, Mixed)
  /\ UNCHANGED <<active, running, mounted, ctx, updates, history>>

-----------------------------------------------------------------------------
(* The sender has sent everything, has sent an error page, or has gone.    *)
EndOfBody(u) ==
  /\ At(u, "body") /\ Go(u, "close")
  /\ UNCHANGED <<store, ctx, handles, updates, history>>

\* slip: the handle is forgotten before it is used
CloseCleared(u) ==
  /\ At(u, "close")
  /\ Go(u, IF inProgress THEN "end" ELSE "idle")
  /\ inProgress' = FALSE /\ handle' = 0
  /\ UNCHANGED <<store, ops, written, handles, updates, history>>

(* ota_close: from here on another update may open.                        *)
Close(u) ==
  /\ At(u, "close")
  /\ Go(u, IF inProgress THEN "end" ELSE "idle")
  /\ inProgress' = FALSE
  /\ UNCHANGED <<store, ops, written, handle, handles, updates, history>>

NothingWritten(u) ==
  /\ At(u, "end") /\ written = 0
  /\ Go(u, "idle")
  /\ UNCHANGED <<store, ctx, handles, updates, history>>

\* slip: a configuration need not fill its partition
AcceptsAnything(h) == h.live

(* Is the update complete?  config_update_end counts the bytes,            *)
(* esp_ota_end reads the image.                                            *)
Accepts(h) == /\ h.live
              /\ IF h.type = "config" THEN h.n = Chunks
                 ELSE Usable("firmware", h.slot)

(* A configuration handle is freed twice where it was freed by a write     *)
(* that failed: a crash.                                                   *)
End(u) ==
  LET h == handles[handle] IN
  /\ At(u, "end") /\ written > 0
  /\ h.live \/ h.type = "firmware"
  /\ handles' = [handles EXCEPT ![handle].live = FALSE]
  /\ job' = [job EXCEPT ![u].pc     = IF Accepts(h) THEN "set" ELSE "idle",
                        ![u].handle = handle]
  /\ UNCHANGED <<store, ctx, updates, history>>

(* config_active_partition_set, esp_ota_set_boot_partition                 *)
MakeActive(u) ==
  LET h == handles[job[u].handle] IN
  /\ At(u, "set") /\ Go(u, "idle")
  /\ \/ /\ h.type = "config"
        /\ active' = [active EXCEPT !["config"] = h.slot]
        /\ accepted' = job[u].image
     \/ /\ h.type = "firmware" /\ Usable("firmware", Target("firmware"))
        /\ active' = [active EXCEPT !["firmware"] = Target("firmware")]
        /\ UNCHANGED accepted
  /\ UNCHANGED <<flash, running, mounted, ctx, handles, updates, orphaned,
                 overlapped, hurried, spoiled>>

MakeActiveFails(u) ==
  /\ At(u, "set") /\ Go(u, "idle")
  /\ UNCHANGED <<store, ctx, handles, updates, history>>

-----------------------------------------------------------------------------
(* The files of the configuration that is mounted (httpd.c)                *)

NoConfigJson == [i \in 1 .. Chunks |-> Mixed]

(* config.json of the slot s is truncated or deleted; even while ota_task  *)
(* writes an update to it.                                                 *)
LoseConfigJson(s) ==
  /\ updates < MaxUpdates /\ updates' = updates + 1
  /\ flash' = [flash EXCEPT !["config"][s] = NoConfigJson]
  /\ spoiled' = (spoiled \/ ~Usable("config", 1 - s))
  /\ accepted' = IF s = active["config"] THEN NoImage ELSE accepted
  /\ overlapped' = \/ overlapped
                   \/ s = Target("config") /\ Busy("ota_task")
  /\ UNCHANGED <<active, running, mounted, ctx, handles, orphaned, hurried>>

(* fs_post_handler truncates the file and then receives it ...             *)
PostFile == /\ At("httpd", "idle") /\ Go("httpd", "edit")
            /\ \E s \in mounted : LoseConfigJson(s)

(* ... whole or in part; what was not received is deleted.  If an update   *)
(* has erased the file system meanwhile there is nothing to write to.      *)
FilePosted ==
  /\ At("httpd", "edit") /\ Go("httpd", "idle")
  /\ \/ \E s \in mounted, image \in Images :
          /\ flash["config"][s] = NoConfigJson
          /\ flash' = [flash EXCEPT !["config"][s] = Full(image)]
     \/ UNCHANGED flash
  /\ UNCHANGED <<active, running, mounted, ctx, handles, updates, history>>

(* fs_delete_handler                                                       *)
DeleteFile == /\ At("httpd", "idle") /\ UNCHANGED job
              /\ \E s \in mounted : LoseConfigJson(s)

-----------------------------------------------------------------------------
(* A reset, at any point; also the one that ends every download and every  *)
(* upload that succeeded.                                                  *)

(* config_initialize: a partition with no configuration in it is passed    *)
(* over (and formatted, if it does not even mount); the other one is       *)
(* loaded and marked active, if the NVS takes it.                          *)
FallsBack == /\ ~Usable("config", active["config"])
             /\ Usable("config", 1 - active["config"])

\* slip: the other partition is not tried
LoadActiveOnly ==
  /\ mounted' = {active["config"]} \ {s \in Slots : ~Usable("config", s)}
  /\ UNCHANGED active

Load ==
  \/ FallsBack /\ mounted' = {1 - active["config"]}
     /\ active' \in {active, [active EXCEPT !["config"] = 1 - @]}
  \/ ~FallsBack /\ UNCHANGED active
     /\ mounted' = {active["config"]} \ {s \in Slots : ~Usable("config", s)}

\* slip: both partitions may be formatted when the active one has no file
PassedOverBoth == IF Usable("config", active["config"]) THEN {} ELSE Slots

PassedOver ==
  IF Usable("config", active["config"]) THEN {}
  ELSE {s \in Slots : ~Usable("config", s)}

Formatted ==
  {[flash EXCEPT !["config"] = [s \in Slots |-> IF s \in S THEN Erased ELSE @[s]]] :
     S \in SUBSET PassedOver}

(* The boot loader starts the boot partition, or the other one where that  *)
(* is no good.                                                             *)
Started == IF Usable("firmware", active["firmware"]) THEN active["firmware"]
           ELSE 1 - active["firmware"]

Restart ==
  /\ Load
  /\ flash' \in Formatted
  /\ running' = Started
  /\ inProgress' = FALSE /\ ops' = "config" /\ written' = 0 /\ handle' = 0
  /\ handles' = <<>>
  /\ job' = [u \in Updaters |-> Idle]
  /\ accepted' = IF Usable("config", active["config"]) /\ ~overlapped
                 THEN accepted ELSE NoImage
  /\ orphaned' = FALSE
  /\ LET asMarked == mounted' = {active'["config"]} IN
       /\ overlapped' = (overlapped /\ ~asMarked)
       /\ hurried' = (hurried /\ ~asMarked)
       /\ spoiled' = (spoiled /\ ~asMarked)
  /\ UNCHANGED updates

\* what waits for the other end of a connection
ClientStep(u) == Received(u) \/ ReceivedLate(u) \/ EndOfBody(u)

DeviceStep(u) ==
  \/ Open(u) \/ Begin(u) \/ BeginFails(u) \/ Write(u) \/ WriteFails(u)
  \/ Close(u) \/ NothingWritten(u) \/ End(u)
  \/ MakeActive(u) \/ MakeActiveFails(u)

Files == PostFile \/ FilePosted \/ DeleteFile

Next ==
  \/ \E u \in Updaters :
       \/ \E t \in Types, image \in Images : Check(u, t, image)
       \/ ClientStep(u) \/ DeviceStep(u)
  \/ Files \/ Restart

Spec == Init /\ [][Next]_vars

(* A handle that was freed is freed again.                                 *)
FreesTwice(u) ==
  /\ (At(u, "write") \/ At(u, "end")) /\ written > 0
  /\ handles[handle].type = "config" /\ ~handles[handle].live

(* Both tasks run when they are ready; clients may stall.                  *)
FairSpec == /\ Spec
            /\ \A u \in Updaters : /\ WF_vars(DeviceStep(u))
                                   /\ WF_vars(FreesTwice(u) /\ Restart)

-----------------------------------------------------------------------------
(* Whatever fails, and wherever a reset comes, the configuration that is   *)
(* marked active is the image that was accepted last, all of it: neither   *)
(* later updates nor boots touch it, unless two updates ran into each      *)
(* other.                                                                  *)
(* [ota_write, config_update_begin, config_update_write, config_update_end,*)
(* config_initialize]                                                      *)
AcceptedIsKept ==
  accepted # NoImage /\ ~overlapped
    => flash["config"][active["config"]] = Full(accepted)

(* An image that fills the partition and yet holds no configuration costs  *)
(* nothing, nor does a config.json that was truncated when the connection  *)
(* broke: there is a configuration to fall back to, unless another update  *)
(* is begun before the reset, or the file was the only one.                *)
(* [config_initialize, config_update_begin, fs_post_handler]               *)
FallbackKept ==
  ~overlapped /\ ~hurried /\ ~spoiled => \E s \in Slots : Usable("config", s)

(* Updates open again: only a client that stalls, and a task that could    *)
(* not be created, keep one in progress for ever.                          *)
(* [ota_open, ota_write, ota_close, ota_handler, ota_task, ota_download]   *)
OpensAgain ==
  []<>~inProgress \/ <>[](\E u \in Updaters : At(u, "body")) \/ <>[]orphaned

(* The firmware that runs is never written over, even by two updates at a  *)
(* time, and so there is always one to start.                              *)
(* [ota_firmware_begin, ota_firmware_end]                                  *)
FirmwareStarts ==
  Usable("firmware", running) /\ Usable("firmware", Started)

(* "We succeeded only if the entire partition was written" (config.c:480): *)
(* no chunk of a partition that becomes active is blank.                   *)
OnlyIfWritten ==
  [][active'["config"] # active["config"]
     => \A i \in 1 .. Chunks :
          flash'["config"][active'["config"]][i] # Blank]_vars

(* What a slot holds, for TwoSlots: an image, all of it, or nothing; and   *)
(* the image that is sent, from the moment its update is in progress.      *)
ImageIn(f) == IF \E image \in Images : f = Full(image)
              THEN CHOOSE image \in Images : f = Full(image)
              ELSE NoImage

Held == [s \in Slots |-> ImageIn(flash["config"][s])]

Sends(u) == /\ job[u].type = "config"
            /\ job[u].pc \in {"body", "begin", "write", "close", "end", "set"}

Sent == IF ~overlapped /\ \E u \in Updaters : Sends(u)
        THEN job[CHOOSE u \in Updaters : Sends(u)].image
        ELSE NoImage

Update == INSTANCE TwoSlots WITH
  Nothing <- NoImage, slot <- Held, active <- active["config"],
  loaded <- mounted, offer <- Sent, clash <- overlapped

(* Configurations implement TwoSlots: only a whole image replaces the one  *)
(* that is active, and a boot loads one that is usable whenever there is   *)
(* one, the active one first, and damages none.                            *)
(* [ota_open, ota_write, ota_close, config_update_begin,                   *)
(* config_update_write, config_update_end, config_initialize,              *)
(* fs_post_handler, fs_delete_handler]                                     *)
FillThenActivate == Update!Spec
=============================================================================
