----------------------------- MODULE OtaProofs -----------------------------
(***************************************************************************)
(* Theorems about Ota, for images of any number of chunks and any number   *)
(* of updates.                                                             *)
(***************************************************************************)
EXTENDS Ota, SequenceTheorems, FiniteSetTheorems, TLAPS

Pieces  == [image : Images \union {NoImage}, part : 0 .. Chunks]
Flashes == [Types -> [Slots -> [1 .. Chunks -> Pieces]]]
Places  == {"idle", "open", "body", "begin", "write", "close", "end", "set",
            "edit"}
Jobs(n) == [Updaters ->
              [pc : Places, type : Types, image : Images \union {NoImage},
               next : 1 .. Chunks + 1, handle : 0 .. n]]

(* TypeOK is inductive with this: who begins or writes has a chunk, who    *)
(* writes has a handle, and who makes active had one.                      *)
Equipped(j, h) == /\ j.pc \in {"begin", "write"} => j.next <= Chunks
                  /\ j.pc = "write" => h > 0
                  /\ j.pc = "set" => j.handle > 0

TypeInv == TypeOK /\ \A u \in Updaters : Equipped(job[u], handle)

-----------------------------------------------------------------------------
(* The flash *)

LEMMA PiecesOK ==
  /\ Erased \in [1 .. Chunks -> Pieces]
  /\ NoConfigJson \in [1 .. Chunks -> Pieces]
  /\ \A image \in Images : Full(image) \in [1 .. Chunks -> Pieces]
  /\ Blank \in Pieces /\ Mixed \in Pieces
BY ChunkAssumption, ImageAssumption
   DEF Erased, NoConfigJson, Full, Blank, Mixed, Chunk, Pieces

(* A slot is filled anew, or one of its places is. *)
LEMMA SlotOK ==
  ASSUME NEW f \in Flashes, NEW t \in Types, NEW s \in Slots,
         NEW g \in [1 .. Chunks -> Pieces]
  PROVE  [f EXCEPT ![t][s] = g] \in Flashes
BY DEF Flashes

LEMMA PlaceOK ==
  ASSUME flash \in Flashes, NEW h \in Handles, h.n < Chunks, NEW c \in Pieces
  PROVE  Written(h, c) \in Flashes
<1> DEFINE t == h.type
           s == h.slot
           i == h.n + 1
           g == [flash[t][s] EXCEPT ![i] = IF @ = Blank THEN c ELSE Mixed]
<1>1. t \in Types /\ s \in Slots /\ i \in 1 .. Chunks
  BY ChunkAssumption DEF Handles
<1>2. g \in [1 .. Chunks -> Pieces]
  BY <1>1, PiecesOK DEF Flashes
<1>3. Written(h, c) = [flash EXCEPT ![t][s] = g]
  BY DEF Written
<1> HIDE DEF t, s, i, g
<1>4. [flash EXCEPT ![t][s] = g] \in Flashes
  BY <1>1, <1>2, SlotOK
<1> QED BY <1>3, <1>4

(* Writing to one slot leaves the others. *)
LEMMA OtherSlot ==
  ASSUME NEW f \in Flashes, NEW t \in Types, NEW s \in Slots, NEW g,
         NEW t2 \in Types, NEW s2 \in Slots, t # t2 \/ s # s2
  PROVE  [f EXCEPT ![t][s] = g][t2][s2] = f[t2][s2]
BY DEF Flashes

LEMMA OtherPlace ==
  ASSUME flash \in Flashes, NEW h \in Handles, NEW c,
         NEW t2 \in Types, NEW s2 \in Slots, h.type # t2 \/ h.slot # s2
  PROVE  Written(h, c)[t2][s2] = flash[t2][s2]
<1> DEFINE t == h.type
           s == h.slot
           g == [flash[t][s] EXCEPT ![h.n + 1] = IF @ = Blank THEN c ELSE Mixed]
<1>1. t \in Types /\ s \in Slots
  BY DEF Handles
<1>2. Written(h, c) = [flash EXCEPT ![t][s] = g]
  BY DEF Written
<1> HIDE DEF g
<1> QED BY <1>1, <1>2, OtherSlot

LEMMA TargetOK ==
  ASSUME TypeOK, NEW t \in Types
  PROVE  Target(t) \in Slots /\ (t = "firmware" => Target(t) # running)
BY DEF TypeOK, Target, Types, Slots

-----------------------------------------------------------------------------
(* The updaters *)

(* An updater goes on; the number of handles does not shrink. *)
LEMMA JobGo ==
  ASSUME NEW n \in Nat, NEW m \in Nat, n <= m, job \in Jobs(n),
         NEW u \in Updaters, NEW p \in Places, Go(u, p)
  PROVE  /\ job' \in Jobs(m)
         /\ job'[u].pc = p /\ job'[u].next = job[u].next
         /\ \A v \in Updaters \ {u} : job'[v] = job[v]
BY DEF Jobs, Go

LEMMA JobStays ==
  ASSUME NEW n \in Nat, NEW m \in Nat, n <= m, job \in Jobs(n)
  PROVE  job \in Jobs(m)
BY DEF Jobs

(* ... with its next chunk. *)
LEMMA JobNext ==
  ASSUME NEW n \in Nat, job \in Jobs(n), NEW u \in Updaters,
         NEW p \in Places, job[u].next <= Chunks,
         job' = [job EXCEPT ![u].pc = p, ![u].next = @ + 1]
  PROVE  /\ job' \in Jobs(n)
         /\ job'[u].pc = p
         /\ \A v \in Updaters \ {u} : job'[v] = job[v]
<1>1. job[u].next + 1 \in 1 .. Chunks + 1
  BY ChunkAssumption DEF Jobs
<1> QED BY <1>1 DEF Jobs

-----------------------------------------------------------------------------
(* Types *)

Histories == <<orphaned, overlapped, hurried, spoiled>>
BoolsOK   == /\ orphaned \in BOOLEAN /\ overlapped \in BOOLEAN
             /\ hurried \in BOOLEAN /\ spoiled \in BOOLEAN

(* The parts of TypeOK, grouped. *)
StoreOK == /\ flash \in Flashes /\ active \in [Types -> Slots]
           /\ running \in Slots
MountOK == mounted \in SUBSET Slots /\ Cardinality(mounted) <= 1
CtxOK   == /\ ops \in Types /\ written \in Nat
           /\ handles \in Seq(Handles) /\ Len(handles) \in Nat
           /\ handle \in 0 .. Len(handles) /\ (written > 0 => handle > 0)
CountOK == updates \in 0 .. MaxUpdates /\ accepted \in Images \union {NoImage}

LEMMA TypeParts ==
  TypeOK <=> /\ StoreOK /\ MountOK /\ CtxOK /\ CountOK /\ BoolsOK
             /\ inProgress \in BOOLEAN /\ job \in Jobs(Len(handles))
<1>1. handles \in Seq(Handles) => Len(handles) \in Nat
  OBVIOUS
<1> QED BY <1>1, Zenon
        DEF TypeOK, StoreOK, MountOK, CtxOK, CountOK, BoolsOK, Flashes, Pieces,
            Jobs, Places

JobsOK == /\ job \in Jobs(Len(handles))
          /\ \A u \in Updaters : Equipped(job[u], handle)

LEMMA TypeInvParts ==
  TypeInv <=> /\ StoreOK /\ MountOK /\ CtxOK /\ CountOK /\ BoolsOK
              /\ inProgress \in BOOLEAN /\ JobsOK
BY TypeParts, Zenon DEF TypeInv, JobsOK

LEMMA TypeCombine ==
  ASSUME StoreOK', MountOK', CtxOK', CountOK', BoolsOK', JobsOK',
         inProgress' \in BOOLEAN
  PROVE  TypeInv'
<1>1. TypeOK'
  BY Zenon
     DEF TypeOK, StoreOK, MountOK, CtxOK, CountOK, BoolsOK, JobsOK, Flashes,
         Pieces, Jobs, Places
<1> QED BY <1>1, Zenon DEF TypeInv, JobsOK

(* One updater goes on, and the handles are not fewer. *)
LEMMA GoOK ==
  ASSUME CtxOK, JobsOK, NEW u \in Updaters, NEW p \in Places, Go(u, p),
         CtxOK', Len(handles) <= Len(handles'), handle > 0 => handle' > 0,
         p \in {"begin", "write"} => job[u].next <= Chunks,
         p = "write" => handle' > 0, p # "set"
  PROVE  JobsOK'
<1>1. Len(handles) \in Nat /\ Len(handles') \in Nat
  BY DEF CtxOK
<1>2. job \in Jobs(Len(handles))
  BY DEF JobsOK
<1>3. /\ job' \in Jobs(Len(handles'))
      /\ job'[u].pc = p /\ job'[u].next = job[u].next
      /\ \A v \in Updaters \ {u} : job'[v] = job[v]
  BY <1>1, <1>2, JobGo
<1>4. Equipped(job'[u], handle')
  BY <1>3 DEF Equipped
<1>5. ASSUME NEW v \in Updaters \ {u} PROVE Equipped(job'[v], handle')
  BY <1>3 DEF Equipped, JobsOK
<1> QED BY <1>3, <1>4, <1>5 DEF JobsOK

LEMMA NextOK ==
  ASSUME CtxOK, JobsOK, NEW u \in Updaters,
         NEW p \in {"close", "body"}, job[u].next <= Chunks,
         job' = [job EXCEPT ![u].pc = p, ![u].next = @ + 1],
         Len(handles') = Len(handles), handle' = handle
  PROVE  JobsOK'
<1>1. Len(handles) \in Nat /\ p \in Places
  BY DEF CtxOK, Places
<1>2. /\ job' \in Jobs(Len(handles)) /\ job'[u].pc = p
      /\ \A v \in Updaters \ {u} : job'[v] = job[v]
  BY <1>1, JobNext DEF JobsOK
<1>3. Equipped(job'[u], handle')
  BY <1>2 DEF Equipped
<1>4. ASSUME NEW v \in Updaters \ {u} PROVE Equipped(job'[v], handle')
  BY <1>2 DEF Equipped, JobsOK
<1> QED BY <1>2, <1>3, <1>4 DEF JobsOK

LEMMA RefusedOK ==
  ASSUME CtxOK, JobsOK, NEW u \in Updaters, job[u].next <= Chunks, Refused(u),
         Len(handles') = Len(handles), handle' = handle
  PROVE  JobsOK'
BY NextOK DEF Refused

(* What keeps the whole of ota_ctx, or all but the jobs. *)
LEMMA CtxKept ==
  ASSUME CtxOK, UNCHANGED <<ctx, handles>>
  PROVE  CtxOK' /\ Len(handles') = Len(handles) /\ handle' = handle
BY DEF CtxOK, ctx

LEMMA StoreKept ==
  ASSUME StoreOK, MountOK, UNCHANGED store
  PROVE  StoreOK' /\ MountOK'
BY DEF StoreOK, MountOK, store

LEMMA TypeInit == Init => TypeInv
<1> SUFFICES ASSUME Init PROVE TypeInv
  OBVIOUS
<1>1. flash \in Flashes
  <2>1. Full(Factory) \in [1 .. Chunks -> Pieces]
        /\ Erased \in [1 .. Chunks -> Pieces]
    BY PiecesOK, ImageAssumption
  <2> QED BY <2>1 DEF Init, Flashes
<1>2. StoreOK
  BY <1>1 DEF Init, StoreOK, Slots, Types
<1>3. MountOK
  <2>1. Cardinality({0}) = 1
    BY FS_Singleton
  <2> QED BY <2>1 DEF Init, MountOK, Slots
<1>4. CtxOK /\ Len(handles) = 0
  BY DEF Init, CtxOK, Types
<1>5. CountOK
  BY ImageAssumption, BoundAssumption DEF Init, CountOK
<1>6. BoolsOK /\ inProgress \in BOOLEAN
  BY Zenon DEF Init, BoolsOK
<1>7. JobsOK
  BY <1>4, ChunkAssumption
     DEF Init, Idle, JobsOK, Jobs, Places, Types, Updaters, Equipped
<1> QED BY <1>2, <1>3, <1>4, <1>5, <1>6, <1>7, TypeInvParts

(* An update opens. *)
LEMMA TypeOpen ==
  ASSUME TypeInv, NEW u \in Updaters,
         Open(u) \/ \E t \in Types, image \in Images : Check(u, t, image)
  PROVE  TypeInv'
<1> USE TypeInvParts
<1>1. CASE Open(u)
  <2>1. CtxOK' /\ Len(handles') = Len(handles) /\ handle' = handle
    <3>1. job[u].type \in Types
      BY DEF JobsOK, Jobs
    <3> QED BY <1>1, <3>1 DEF Open, CtxOK
  <2>2. Go(u, "body") \/ Go(u, "idle")
    BY <1>1 DEF Open
  <2>3. JobsOK'
    BY <2>1, <2>2, GoOK DEF Places, CtxOK
  <2>4. StoreOK' /\ MountOK' /\ CountOK'
    BY <1>1, StoreKept DEF Open, CountOK
  <2>5. UNCHANGED <<hurried, spoiled>> /\ inProgress'
        /\ orphaned' \in {orphaned, TRUE}
    BY <1>1, Zenon DEF Open
  <2>6. overlapped' \in BOOLEAN
    BY <1>1, Zenon DEF Open
  <2>7. BoolsOK' /\ inProgress' \in BOOLEAN
    BY <2>5, <2>6, Zenon DEF BoolsOK
  <2> QED BY <2>1, <2>3, <2>4, <2>7, TypeCombine
<1>2. CASE \E t \in Types, image \in Images : Check(u, t, image)
  <2>1. PICK t \in Types, image \in Images : Check(u, t, image)
    BY <1>2
  <2>2. CtxOK' /\ Len(handles') = Len(handles) /\ handle' = handle
    BY <2>1, CtxKept DEF Check
  <2>3. JobsOK'
    <3> DEFINE j == [Idle EXCEPT !.pc = "open", !.type = t, !.image = image]
    <3>1. job' = [job EXCEPT ![u] = j]
      BY <2>1 DEF Check
    <3>2. /\ j \in [pc : Places, type : Types, image : Images \union {NoImage},
                    next : 1 .. Chunks + 1, handle : 0 .. Len(handles)]
          /\ j.pc = "open"
      <4>1. Idle \in [pc : Places, type : Types, image : Images \union {NoImage},
                     next : 1 .. Chunks + 1, handle : 0 .. Len(handles)]
        BY ChunkAssumption DEF Idle, Places, CtxOK, Types
      <4> QED BY <4>1 DEF Places
    <3> HIDE DEF j
    <3>3. \A v \in Updaters : job'[v] = IF v = u THEN j ELSE job[v]
      BY <3>1 DEF JobsOK, Jobs
    <3>4. job' \in Jobs(Len(handles))
      BY <3>1, <3>2 DEF JobsOK, Jobs
    <3>5. Equipped(j, handle)
      BY <3>2 DEF Equipped
    <3> QED BY <2>2, <3>3, <3>4, <3>5 DEF JobsOK
  <2>4. StoreOK' /\ MountOK'
    BY <2>1, StoreKept DEF Check
  <2>5. UNCHANGED history /\ inProgress' = inProgress
    BY <2>1 DEF Check, ctx
  <2>6. CountOK'
    <3>1. updates < MaxUpdates /\ updates' = updates + 1
      BY <2>1, Zenon DEF Check
    <3> QED BY <2>5, <3>1, BoundAssumption DEF CountOK, history
  <2>7. BoolsOK' /\ inProgress' \in BOOLEAN
    BY <2>5 DEF BoolsOK, history
  <2> QED BY <2>2, <2>3, <2>4, <2>6, <2>7, TypeCombine
<1> QED BY <1>1, <1>2

(* A step that only moves an updater on. *)
LEMMA TypeMove ==
  ASSUME TypeInv, NEW u \in Updaters,
         \/ ReceivedLate(u) \/ EndOfBody(u) \/ NothingWritten(u)
         \/ MakeActiveFails(u)
  PROVE  TypeInv'
<1> USE TypeInvParts
<1>1. UNCHANGED <<store, ctx, handles, updates, history>>
  BY DEF ReceivedLate, EndOfBody, NothingWritten, MakeActiveFails
<1>2. CtxOK' /\ Len(handles') = Len(handles) /\ handle' = handle
  BY <1>1, CtxKept
<1>3. StoreOK' /\ MountOK' /\ CountOK' /\ BoolsOK'
      /\ inProgress' \in BOOLEAN
  BY <1>1, StoreKept DEF CountOK, BoolsOK, history, ctx
<1>4. JobsOK'
  <2>1. CASE ReceivedLate(u)
    BY <1>2, <2>1, RefusedOK DEF ReceivedLate
  <2>2. CASE Go(u, "close") \/ Go(u, "idle")
    BY <1>2, <2>2, GoOK DEF Places, CtxOK
  <2> QED BY <2>1, <2>2 DEF EndOfBody, NothingWritten, MakeActiveFails
<1> QED BY <1>2, <1>3, <1>4, TypeCombine

LEMMA TypeReceived ==
  ASSUME TypeInv, NEW u \in Updaters, Received(u)
  PROVE  TypeInv'
<1> USE TypeInvParts
<1>1. UNCHANGED <<store, ctx, handles, updates, history>>
  BY DEF Received
<1>2. CtxOK' /\ Len(handles') = Len(handles) /\ handle' = handle
  BY <1>1, CtxKept
<1>3. StoreOK' /\ MountOK' /\ CountOK' /\ BoolsOK'
      /\ inProgress' \in BOOLEAN
  BY <1>1, StoreKept DEF CountOK, BoolsOK, history, ctx
<1>4. CASE written = 0
  <2>1. Go(u, "begin") /\ job[u].next <= Chunks
    BY <1>4 DEF Received
  <2>2. JobsOK'
    BY <1>2, <2>1, GoOK DEF Places, CtxOK
  <2> QED BY <1>2, <1>3, <2>2, TypeCombine
<1>5. CASE written # 0
  <2>1. Go(u, "write") /\ job[u].next <= Chunks
    BY <1>5 DEF Received
  <2>2. handle > 0
    BY <1>5 DEF CtxOK
  <2>3. JobsOK'
    BY <1>2, <2>1, <2>2, GoOK DEF Places, CtxOK
  <2> QED BY <1>2, <1>3, <2>3, TypeCombine
<1> QED BY <1>4, <1>5

(* The target is erased. *)
LEMMA TypeErase ==
  ASSUME TypeInv
  PROVE  [flash EXCEPT ![ops][Target(ops)] = Erased] \in Flashes
<1>1. ops \in Types /\ flash \in Flashes /\ Target(ops) \in Slots
  BY TypeInvParts, TargetOK DEF TypeInv, CtxOK, StoreOK
<1> QED BY <1>1, PiecesOK, SlotOK

LEMMA TypeBegin ==
  ASSUME TypeInv, NEW u \in Updaters, Begin(u) \/ BeginFails(u)
  PROVE  TypeInv'
<1> USE TypeInvParts
<1>0. hurried' \in BOOLEAN
  BY Zenon DEF Begin, BeginFails
<1>1. StoreOK' /\ MountOK' /\ CountOK' /\ BoolsOK' /\ inProgress' \in BOOLEAN
  <2>1. flash' \in Flashes
    BY TypeErase DEF Begin, BeginFails, StoreOK
  <2>2. UNCHANGED <<active, running, mounted, updates, accepted, inProgress>>
    BY DEF Begin, BeginFails, ctx
  <2>3. UNCHANGED <<orphaned, overlapped, spoiled>>
    BY DEF Begin, BeginFails
  <2> QED BY <1>0, <2>1, <2>2, <2>3 DEF StoreOK, MountOK, CountOK, BoolsOK
<1>2. At(u, "begin") /\ job[u].next <= Chunks
  BY DEF Begin, BeginFails, At, JobsOK, Equipped
<1>3. CASE Begin(u)
  <2> DEFINE h == [type |-> ops, slot |-> Target(ops), n |-> 0, live |-> TRUE]
  <2>1. h \in Handles
    BY TargetOK, ChunkAssumption DEF TypeInv, CtxOK, Handles
  <2>2. handles' = Append(handles, h) /\ handle' = Len(handles')
        /\ UNCHANGED <<ops, written>>
    BY <1>3 DEF Begin
  <2> HIDE DEF h
  <2>3. handles' \in Seq(Handles) /\ Len(handles') = Len(handles) + 1
    BY <2>1, <2>2 DEF CtxOK
  <2>4. CtxOK' /\ Len(handles) <= Len(handles') /\ handle' > 0
    BY <2>2, <2>3 DEF CtxOK
  <2>5. Go(u, "write")
    BY <1>3 DEF Begin
  <2>6. JobsOK'
    BY <1>2, <2>4, <2>5, GoOK DEF Places
  <2> QED BY <1>1, <2>4, <2>6, TypeCombine
<1>4. CASE BeginFails(u)
  <2>1. CtxOK' /\ Len(handles') = Len(handles) /\ handle' = handle
    BY <1>4, CtxKept DEF BeginFails
  <2>2. JobsOK'
    BY <1>2, <1>4, <2>1, RefusedOK DEF BeginFails
  <2> QED BY <1>1, <2>1, <2>2, TypeCombine
<1> QED BY <1>3, <1>4

(* Whoever writes has a handle and a chunk for it. *)
LEMMA Writer ==
  ASSUME TypeInv, NEW u \in Updaters, At(u, "write")
  PROVE  /\ handle \in 1 .. Len(handles) /\ handles[handle] \in Handles
         /\ job[u].next \in 1 .. Chunks /\ job[u].image \in Images \union {NoImage}
<1>1. handle > 0 /\ job[u].next <= Chunks
  BY DEF TypeInv, Equipped, At
<1>2. /\ handle \in 0 .. Len(handles) /\ handles \in Seq(Handles)
      /\ Len(handles) \in Nat /\ job \in Jobs(Len(handles))
  BY TypeInvParts DEF CtxOK, JobsOK
<1>3. handle \in 1 .. Len(handles)
  BY <1>1, <1>2
<1>4. /\ job[u].next \in 1 .. Chunks + 1
      /\ job[u].image \in Images \union {NoImage}
  BY <1>2 DEF Jobs
<1>5. job[u].next \in 1 .. Chunks
  BY <1>1, <1>4, ChunkAssumption
<1> QED BY <1>2, <1>3, <1>4, <1>5

(* A handle changes and keeps its place. *)
LEMMA HandlesKept ==
  ASSUME CtxOK, handle \in 1 .. Len(handles), NEW h \in Handles,
         handles' = [handles EXCEPT ![handle] = h],
         UNCHANGED <<ops, handle>>, written' \in Nat
  PROVE  CtxOK' /\ Len(handles') = Len(handles)
BY DEF CtxOK

LEMMA TypeWrite ==
  ASSUME TypeInv, NEW u \in Updaters, Write(u)
  PROVE  TypeInv'
<1> USE TypeInvParts
<1> DEFINE h == handles[handle]
           c == Chunk(job[u].image, job[u].next)
<1>1. /\ handle \in 1 .. Len(handles) /\ h \in Handles
      /\ job[u].next \in 1 .. Chunks /\ job[u].image \in Images \union {NoImage}
      /\ h.n < Chunks
  BY Writer DEF Write
<1>2. StoreOK' /\ MountOK' /\ CountOK' /\ BoolsOK' /\ inProgress' \in BOOLEAN
  <2>1. c \in Pieces
    BY <1>1, ChunkAssumption DEF Chunk, Pieces
  <2>2. flash' = Written(h, c)
    BY DEF Write
  <2> HIDE DEF c, h
  <2>3. flash' \in Flashes
    BY <1>1, <2>1, <2>2, PlaceOK DEF StoreOK
  <2>4. UNCHANGED <<active, running, mounted, inProgress, updates, history>>
    BY DEF Write
  <2> QED BY <2>3, <2>4 DEF StoreOK, MountOK, CountOK, BoolsOK, history
<1>3. CtxOK' /\ Len(handles') = Len(handles)
  <2>1. [h EXCEPT !.n = @ + 1] \in Handles
    BY <1>1, ChunkAssumption DEF Handles
  <2>2. handles' = [handles EXCEPT ![handle] = [h EXCEPT !.n = @ + 1]]
    BY DEF Write
  <2>3. UNCHANGED <<ops, handle>> /\ written' \in Nat
    BY DEF Write, CtxOK
  <2> QED BY <1>1, <2>1, <2>2, <2>3, HandlesKept
<1>4. JobsOK'
  <2>1. job' = [job EXCEPT ![u].pc = "body", ![u].next = @ + 1]
        /\ handle' = handle
    BY DEF Write
  <2>2. job[u].next <= Chunks
    BY <1>1, ChunkAssumption
  <2> QED BY <1>3, <2>1, <2>2, NextOK
<1> QED BY <1>2, <1>3, <1>4, TypeCombine

LEMMA TypeWriteFails ==
  ASSUME TypeInv, NEW u \in Updaters, WriteFails(u)
  PROVE  TypeInv'
<1> USE TypeInvParts
<1> DEFINE h == handles[handle]
<1>1. handle \in 1 .. Len(handles) /\ h \in Handles /\ job[u].next \in 1 .. Chunks
  BY Writer DEF WriteFails
<1>2. StoreOK' /\ MountOK' /\ CountOK' /\ BoolsOK' /\ inProgress' \in BOOLEAN
  <2>1. flash' \in Flashes
    <3>1. CASE UNCHANGED flash
      BY <3>1 DEF StoreOK
    <3>2. CASE h.n < Chunks /\ flash' = Written(h, Mixed)
      BY <1>1, <3>2, PlaceOK, PiecesOK DEF StoreOK
    <3> QED BY <3>1, <3>2 DEF WriteFails
  <2>2. UNCHANGED <<active, running, mounted, ctx, updates, history>>
    BY DEF WriteFails
  <2> QED BY <2>1, <2>2 DEF StoreOK, MountOK, CountOK, BoolsOK, history, ctx
<1>3. CtxOK' /\ Len(handles') = Len(handles) /\ handle' = handle
  <2>1. CASE handles' = [handles EXCEPT ![handle].live = FALSE]
    <3>1. [h EXCEPT !.live = FALSE] \in Handles
      BY <1>1 DEF Handles
    <3>2. handles' = [handles EXCEPT ![handle] = [h EXCEPT !.live = FALSE]]
      BY <2>1
    <3>3. UNCHANGED <<ops, handle>> /\ written' \in Nat
      BY DEF WriteFails, ctx, CtxOK
    <3> QED BY <1>1, <3>1, <3>2, <3>3, HandlesKept
  <2>2. CASE UNCHANGED handles
    BY <2>2, CtxKept DEF WriteFails
  <2> QED BY <2>1, <2>2 DEF WriteFails
<1>4. JobsOK'
  BY <1>1, <1>3, RefusedOK DEF WriteFails
<1> QED BY <1>2, <1>3, <1>4, TypeCombine

LEMMA TypeClose ==
  ASSUME TypeInv, NEW u \in Updaters, Close(u)
  PROVE  TypeInv'
<1> USE TypeInvParts
<1>1. UNCHANGED <<store, ops, written, handle, handles, updates, history>>
      /\ (Go(u, "end") \/ Go(u, "idle"))
  BY DEF Close
<1>2. CtxOK'
  BY <1>1 DEF CtxOK
<1>3. StoreOK' /\ MountOK' /\ CountOK' /\ BoolsOK'
  BY <1>1, StoreKept DEF CountOK, BoolsOK, history
<1>4. inProgress' \in BOOLEAN
  BY Zenon DEF Close
<1>5. JobsOK'
  BY <1>1, <1>2, GoOK DEF Places, CtxOK
<1> QED BY <1>2, <1>3, <1>4, <1>5, TypeCombine

LEMMA TypeEnd ==
  ASSUME TypeInv, NEW u \in Updaters, End(u)
  PROVE  TypeInv'
<1> USE TypeInvParts
<1> DEFINE h == handles[handle]
<1>1. /\ handle \in 1 .. Len(handles) /\ h \in Handles
      /\ UNCHANGED <<store, ctx, updates, history>>
  BY DEF End, CtxOK
<1>2. StoreOK' /\ MountOK' /\ CountOK' /\ BoolsOK' /\ inProgress' \in BOOLEAN
  BY <1>1, StoreKept DEF CountOK, BoolsOK, history, ctx
<1>3. CtxOK' /\ Len(handles') = Len(handles) /\ handle' = handle
  <2>1. [h EXCEPT !.live = FALSE] \in Handles
    BY <1>1 DEF Handles
  <2>2. handles' = [handles EXCEPT ![handle] = [h EXCEPT !.live = FALSE]]
    BY DEF End
  <2>3. UNCHANGED <<ops, handle>> /\ written' \in Nat
    BY <1>1 DEF ctx, CtxOK
  <2> QED BY <1>1, <2>1, <2>2, <2>3, HandlesKept
<1>4. JobsOK'
  <2>1. PICK p \in {"set", "idle"} :
          job' = [job EXCEPT ![u].pc = p, ![u].handle = handle]
    BY DEF End
  <2>2. job' \in Jobs(Len(handles))
    <3>1. handle \in 0 .. Len(handles) /\ p \in Places
      BY DEF CtxOK, Places
    <3> QED BY <2>1, <3>1 DEF JobsOK, Jobs
  <2>3. /\ job'[u].pc = p /\ job'[u].handle = handle
        /\ \A v \in Updaters \ {u} : job'[v] = job[v]
    BY <2>1 DEF JobsOK, Jobs
  <2>4. Equipped(job'[u], handle')
    BY <1>1, <2>3 DEF Equipped
  <2>5. ASSUME NEW v \in Updaters \ {u} PROVE Equipped(job'[v], handle')
    BY <1>3, <2>3 DEF Equipped, JobsOK
  <2> QED BY <1>3, <2>2, <2>4, <2>5 DEF JobsOK
<1> QED BY <1>2, <1>3, <1>4, TypeCombine

LEMMA TypeMakeActive ==
  ASSUME TypeInv, NEW u \in Updaters, MakeActive(u)
  PROVE  TypeInv'
<1> USE TypeInvParts
<1> DEFINE k == job[u].handle
<1>1. /\ k \in 1 .. Len(handles) /\ job[u].image \in Images \union {NoImage}
  <2>1. job[u].handle > 0 /\ job \in Jobs(Len(handles)) /\ Len(handles) \in Nat
    BY DEF MakeActive, JobsOK, Equipped, At, CtxOK
  <2> QED BY <2>1 DEF Jobs
<1>2. handles[k].slot \in Slots
  <2> HIDE DEF k
  <2>1. handles[k] \in Handles
    BY <1>1 DEF CtxOK
  <2> QED BY <2>1 DEF Handles
<1>3. active' \in [Types -> Slots] /\ accepted' \in Images \union {NoImage}
  <2>1. Target("firmware") \in Slots
    BY TargetOK DEF TypeInv, Types
  <2> QED BY <1>1, <1>2, <2>1 DEF MakeActive, StoreOK, CountOK, Types
<1>4. /\ UNCHANGED <<flash, running, mounted, ctx, handles, updates, orphaned,
                     overlapped, hurried, spoiled>>
      /\ Go(u, "idle")
  BY DEF MakeActive
<1>5. StoreOK' /\ MountOK' /\ CountOK' /\ BoolsOK' /\ inProgress' \in BOOLEAN
  BY <1>3, <1>4 DEF StoreOK, MountOK, CountOK, BoolsOK, ctx
<1>6. CtxOK' /\ Len(handles') = Len(handles) /\ handle' = handle
  BY <1>4, CtxKept
<1>7. JobsOK'
  BY <1>4, <1>6, GoOK DEF Places, CtxOK
<1> QED BY <1>5, <1>6, <1>7, TypeCombine

LEMMA TypeLose ==
  ASSUME TypeInv, NEW s \in Slots, LoseConfigJson(s)
  PROVE  /\ StoreOK' /\ MountOK' /\ CtxOK' /\ CountOK' /\ BoolsOK'
         /\ inProgress' \in BOOLEAN
         /\ Len(handles') = Len(handles) /\ handle' = handle
<1> USE TypeInvParts
<1>1. flash' \in Flashes
  <2>1. flash' = [flash EXCEPT !["config"][s] = NoConfigJson]
        /\ "config" \in Types
    BY DEF LoseConfigJson, Types
  <2> QED BY <2>1, PiecesOK, SlotOK DEF StoreOK
<1>2. UNCHANGED <<active, running, mounted, ctx, handles, orphaned, hurried>>
  BY DEF LoseConfigJson
<1>3. accepted' \in Images \union {NoImage} /\ updates' \in 0 .. MaxUpdates
  BY BoundAssumption DEF LoseConfigJson, CountOK
<1>4. spoiled' \in BOOLEAN /\ overlapped' \in BOOLEAN
  BY Zenon DEF LoseConfigJson
<1>5. CtxOK' /\ Len(handles') = Len(handles) /\ handle' = handle
  BY <1>2, CtxKept
<1> QED BY <1>1, <1>2, <1>3, <1>4, <1>5 DEF StoreOK, MountOK, CountOK, BoolsOK, ctx

LEMMA TypeFiles ==
  ASSUME TypeInv, Files
  PROVE  TypeInv'
<1> USE TypeInvParts
<1>0. "httpd" \in Updaters /\ mounted \subseteq Slots
  BY DEF Updaters, MountOK
<1>1. CASE PostFile
  <2>1. PICK s \in Slots : LoseConfigJson(s)
    BY <1>0, <1>1 DEF PostFile
  <2>2. Go("httpd", "edit")
    BY <1>1 DEF PostFile
  <2>3. CtxOK' /\ Len(handles') = Len(handles) /\ handle' = handle
    BY <2>1, TypeLose
  <2>4. JobsOK'
    BY <1>0, <2>2, <2>3, GoOK DEF Places, CtxOK
  <2> QED BY <2>1, <2>4, TypeLose, TypeCombine
<1>2. CASE FilePosted
  <2>1. flash' \in Flashes
    <3>1. CASE UNCHANGED flash
      BY <3>1 DEF StoreOK
    <3>2. CASE \E s \in mounted, image \in Images :
                 flash' = [flash EXCEPT !["config"][s] = Full(image)]
      <4>1. PICK s \in Slots, image \in Images :
              flash' = [flash EXCEPT !["config"][s] = Full(image)]
        BY <1>0, <3>2
      <4>2. Full(image) \in [1 .. Chunks -> Pieces] /\ "config" \in Types
        BY PiecesOK DEF Types
      <4> QED BY <4>1, <4>2, SlotOK DEF StoreOK
    <3> QED BY <1>2, <3>1, <3>2 DEF FilePosted
  <2>2. /\ UNCHANGED <<active, running, mounted, ctx, handles, updates, history>>
        /\ Go("httpd", "idle")
    BY <1>2 DEF FilePosted
  <2>3. CtxOK' /\ Len(handles') = Len(handles) /\ handle' = handle
    BY <2>2, CtxKept
  <2>4. JobsOK'
    BY <1>0, <2>2, <2>3, GoOK DEF Places, CtxOK
  <2>5. StoreOK' /\ MountOK' /\ CountOK' /\ BoolsOK' /\ inProgress' \in BOOLEAN
    BY <2>1, <2>2 DEF StoreOK, MountOK, CountOK, BoolsOK, ctx, history
  <2> QED BY <2>3, <2>4, <2>5, TypeCombine
<1>3. CASE DeleteFile
  <2>1. PICK s \in Slots : LoseConfigJson(s)
    BY <1>0, <1>3 DEF DeleteFile
  <2>2. /\ CtxOK' /\ Len(handles') = Len(handles) /\ handle' = handle
        /\ UNCHANGED job
    BY <1>3, <2>1, TypeLose DEF DeleteFile
  <2>3. JobsOK'
    BY <2>2 DEF JobsOK
  <2> QED BY <2>1, <2>3, TypeLose, TypeCombine
<1> QED BY <1>1, <1>2, <1>3 DEF Files

LEMMA TypeRestart == ASSUME TypeInv, Restart PROVE TypeInv'
<1> USE TypeInvParts
<1>1. flash' \in Flashes
  <2>1. PICK S \in SUBSET PassedOver :
          flash' = [flash EXCEPT !["config"] =
                      [s \in Slots |-> IF s \in S THEN Erased ELSE @[s]]]
    BY DEF Restart, Formatted
  <2>2. flash \in Flashes /\ Erased \in [1 .. Chunks -> Pieces]
    BY PiecesOK DEF StoreOK
  <2> QED BY <2>1, <2>2 DEF Flashes, Types
<1>2. active' \in [Types -> Slots] /\ running' \in Slots
  BY DEF Restart, Load, Started, StoreOK, Types, Slots
<1>3. MountOK'
  <2>1. /\ active["config"] \in Slots
        /\ \/ mounted' = {1 - active["config"]}
           \/ mounted' \subseteq {active["config"]}
    BY DEF Restart, Load, StoreOK, Types
  <2>2. \A x \in Slots : Cardinality({x}) = 1 /\ IsFiniteSet({x})
    BY FS_Singleton
  <2>3. 1 - active["config"] \in Slots
    BY <2>1 DEF Slots
  <2>4. CASE mounted' = {1 - active["config"]}
    BY <2>2, <2>3, <2>4 DEF MountOK
  <2>5. CASE mounted' \subseteq {active["config"]}
    <3>1. Cardinality(mounted') <= Cardinality({active["config"]})
      BY <2>1, <2>2, <2>5, FS_Subset
    <3> QED BY <2>1, <2>2, <2>5, <3>1 DEF MountOK
  <2> QED BY <2>1, <2>4, <2>5
<1>4. CtxOK' /\ Len(handles') = 0
  BY DEF Restart, CtxOK, Types
<1>5. CountOK'
  BY DEF Restart, CountOK
<1>6. BoolsOK' /\ inProgress' \in BOOLEAN
  BY Zenon DEF Restart, BoolsOK
<1>7. JobsOK'
  BY <1>4, ChunkAssumption
     DEF Restart, Idle, JobsOK, Jobs, Places, Types, Updaters, Equipped
<1>8. StoreOK'
  BY <1>1, <1>2 DEF StoreOK
<1> QED BY <1>3, <1>4, <1>5, <1>6, <1>7, <1>8, TypeCombine

(* Every step keeps the types. *)
LEMMA TypeNext == TypeInv /\ [Next]_vars => TypeInv'
<1> SUFFICES ASSUME TypeInv, [Next]_vars PROVE TypeInv'
  OBVIOUS
<1>1. CASE UNCHANGED vars
  <2>1. UNCHANGED <<store, ctx, handles, job, updates, history>>
    BY <1>1 DEF vars
  <2>2. StoreOK' /\ MountOK' /\ CountOK' /\ BoolsOK' /\ inProgress' \in BOOLEAN
    BY <2>1, StoreKept, TypeInvParts DEF CountOK, BoolsOK, ctx, history
  <2>3. CtxOK' /\ Len(handles') = Len(handles) /\ handle' = handle
    BY <2>1, CtxKept, TypeInvParts
  <2>4. JobsOK'
    BY <2>1, <2>3, TypeInvParts DEF JobsOK
  <2> QED BY <2>2, <2>3, <2>4, TypeCombine
<1>2. ASSUME NEW u \in Updaters, ClientStep(u) \/ DeviceStep(u) PROVE TypeInv'
  BY <1>2, TypeOpen, TypeMove, TypeReceived, TypeBegin, TypeWrite,
     TypeWriteFails, TypeClose, TypeEnd, TypeMakeActive
     DEF ClientStep, DeviceStep
<1> QED BY <1>1, <1>2, TypeOpen, TypeFiles, TypeRestart DEF Next

LEMMA TypeAlways == Spec => []TypeInv
BY TypeInit, TypeNext, PTL DEF Spec

(* The types hold always. *)
THEOREM TypeCorrect == Spec => []TypeOK
<1>1. TypeInv => TypeOK
  BY DEF TypeInv
<1> QED BY <1>1, TypeAlways, PTL

-----------------------------------------------------------------------------
(* The firmware *)

(* The running firmware is whole, and no handle writes to its slot.        *)
Beside(q) == \A i \in 1 .. Len(q) :
               q[i].type = "firmware" => q[i].slot # running
FirmwareInv == Usable("firmware", running) /\ Beside(handles)

(* A step that keeps the slot that runs, and adds no handle to it. *)
LEMMA FirmwareStill ==
  ASSUME FirmwareInv, running' = running,
         flash'["firmware"][running] = flash["firmware"][running],
         Beside(handles')
  PROVE  FirmwareInv'
BY DEF FirmwareInv, Usable, Beside

(* ... and the handles as they are. *)
LEMMA FirmwareSame ==
  ASSUME FirmwareInv, UNCHANGED <<running, handles>>,
         flash'["firmware"][running] = flash["firmware"][running]
  PROVE  FirmwareInv'
BY FirmwareStill DEF FirmwareInv

(* What is erased is not what runs. *)
LEMMA FirmwareErase ==
  ASSUME TypeInv
  PROVE  [flash EXCEPT ![ops][Target(ops)] = Erased]["firmware"][running]
           = flash["firmware"][running]
<1>1. /\ ops \in Types /\ flash \in Flashes /\ Target(ops) \in Slots
      /\ running \in Slots /\ "firmware" \in Types
      /\ ops # "firmware" \/ Target(ops) # running
  BY TypeInvParts, TargetOK DEF TypeInv, CtxOK, StoreOK, Types
<1> QED BY <1>1, OtherSlot

(* A handle that changes is of the same kind. *)
LEMMA FirmwareHandle ==
  ASSUME TypeInv, Beside(handles), handle \in 1 .. Len(handles), NEW h,
         h.type = handles[handle].type, h.slot = handles[handle].slot,
         handles' = [handles EXCEPT ![handle] = h]
  PROVE  Beside(handles')
<1>1. handles \in Seq(Handles)
  BY TypeInvParts DEF CtxOK
<1>2. Len(handles') = Len(handles)
      /\ \A i \in 1 .. Len(handles) :
           handles'[i] = IF i = handle THEN h ELSE handles[i]
  BY <1>1
<1> QED BY <1>2 DEF Beside

LEMMA FirmwareWrite ==
  ASSUME TypeInv, FirmwareInv, NEW u \in Updaters, Write(u) \/ WriteFails(u)
  PROVE  FirmwareInv'
<1> DEFINE h == handles[handle]
<1>1. handle \in 1 .. Len(handles) /\ h \in Handles /\ running' = running
  BY Writer DEF Write, WriteFails
<1>2. flash \in Flashes /\ running \in Slots /\ "firmware" \in Types
  BY TypeInvParts DEF StoreOK, Types
<1>3. h.type # "firmware" \/ h.slot # running
  BY <1>1 DEF FirmwareInv, Beside
<1>4. flash'["firmware"][running] = flash["firmware"][running]
  <2>1. UNCHANGED flash \/ \E c : flash' = Written(h, c)
    BY DEF Write, WriteFails
  <2> HIDE DEF h
  <2> QED BY <1>1, <1>2, <1>3, <2>1, OtherPlace
<1>5. Beside(handles')
  <2>1. UNCHANGED handles
        \/ \E g : /\ g.type = h.type /\ g.slot = h.slot
                  /\ handles' = [handles EXCEPT ![handle] = g]
    <3>1. CASE Write(u)
      <4>1. handles' = [handles EXCEPT ![handle] = [h EXCEPT !.n = @ + 1]]
        BY <3>1 DEF Write
      <4>2. [h EXCEPT !.n = @ + 1].type = h.type
            /\ [h EXCEPT !.n = @ + 1].slot = h.slot
        BY <1>1 DEF Handles
      <4> QED BY <4>1, <4>2
    <3>2. CASE handles' = [handles EXCEPT ![handle].live = FALSE]
      <4>1. handles' = [handles EXCEPT ![handle] = [h EXCEPT !.live = FALSE]]
        BY <3>2
      <4>2. [h EXCEPT !.live = FALSE].type = h.type
            /\ [h EXCEPT !.live = FALSE].slot = h.slot
        BY <1>1 DEF Handles
      <4> QED BY <4>1, <4>2
    <3> QED BY <3>1, <3>2 DEF WriteFails
  <2> QED BY <1>1, <2>1, FirmwareHandle DEF FirmwareInv
<1> QED BY <1>1, <1>4, <1>5, FirmwareStill

(* Every step keeps FirmwareInv. *)
LEMMA FirmwareStep == TypeInv /\ FirmwareInv /\ [Next]_vars => FirmwareInv'
<1> SUFFICES ASSUME TypeInv, FirmwareInv, [Next]_vars PROVE FirmwareInv'
  OBVIOUS
<1>0. /\ flash \in Flashes /\ running \in Slots /\ ops \in Types
      /\ "firmware" \in Types /\ "config" \in Types
  BY TypeInvParts DEF StoreOK, CtxOK, Types
<1>1. ASSUME NEW u \in Updaters, ClientStep(u) \/ DeviceStep(u)
      PROVE  FirmwareInv'
  <2>1. CASE ClientStep(u) \/ Open(u) \/ Close(u) \/ NothingWritten(u)
             \/ MakeActive(u) \/ MakeActiveFails(u)
    BY <2>1, FirmwareSame
       DEF ClientStep, Received, ReceivedLate, EndOfBody, Open, Close,
           NothingWritten, MakeActive, MakeActiveFails, store
  <2>2. CASE Begin(u)
    <3> DEFINE h == [type |-> ops, slot |-> Target(ops), n |-> 0, live |-> TRUE]
    <3>1. /\ flash' = [flash EXCEPT ![ops][Target(ops)] = Erased]
          /\ running' = running /\ handles' = Append(handles, h)
      BY <2>2 DEF Begin
    <3>2. h.type = "firmware" => h.slot # running
      BY <1>0, TargetOK DEF TypeInv
    <3>3. handles \in Seq(Handles)
      BY TypeInvParts DEF CtxOK
    <3>4. Len(handles') = Len(handles) + 1
          /\ handles'[Len(handles) + 1] = h
          /\ \A i \in 1 .. Len(handles) : handles'[i] = handles[i]
      BY <3>1, <3>3
    <3> HIDE DEF h
    <3>5. Beside(handles')
      BY <3>2, <3>3, <3>4 DEF FirmwareInv, Beside
    <3> QED BY <3>1, <3>5, FirmwareErase, FirmwareStill
  <2>3. CASE BeginFails(u)
    BY <2>3, FirmwareErase, FirmwareSame DEF BeginFails
  <2>4. CASE Write(u) \/ WriteFails(u)
    BY <2>4, FirmwareWrite
  <2>5. CASE End(u)
    <3> DEFINE h == handles[handle]
               g == [h EXCEPT !.live = FALSE]
    <3>1. /\ handle \in 1 .. Len(handles) /\ h \in Handles
          /\ UNCHANGED <<running, flash>>
      BY <2>5, TypeInvParts DEF End, CtxOK, store
    <3>2. g.type = h.type /\ g.slot = h.slot
      BY <3>1 DEF Handles
    <3>3. handles' = [handles EXCEPT ![handle] = g]
      BY <2>5 DEF End
    <3> HIDE DEF g
    <3>4. Beside(handles')
      BY <3>1, <3>2, <3>3, FirmwareHandle DEF FirmwareInv
    <3> QED BY <3>1, <3>4, FirmwareStill
  <2> QED BY <1>1, <2>1, <2>2, <2>3, <2>4, <2>5 DEF DeviceStep
<1>2. CASE \E u \in Updaters, t \in Types, image \in Images : Check(u, t, image)
  BY <1>2, FirmwareSame DEF Check, store
<1>3. CASE Files
  <2>1. mounted \subseteq Slots
    BY TypeInvParts DEF MountOK
  <2>2. UNCHANGED flash
        \/ \E s \in Slots : \E g : flash' = [flash EXCEPT !["config"][s] = g]
    BY <1>3, <2>1 DEF Files, PostFile, DeleteFile, LoseConfigJson, FilePosted
  <2>3. UNCHANGED <<running, handles>>
    BY <1>3 DEF Files, PostFile, DeleteFile, LoseConfigJson, FilePosted
  <2>4. flash'["firmware"][running] = flash["firmware"][running]
    <3>1. ASSUME NEW s \in Slots, NEW g,
                 flash' = [flash EXCEPT !["config"][s] = g]
          PROVE  flash'["firmware"][running] = flash["firmware"][running]
      BY <1>0, <3>1 DEF Flashes
    <3> QED BY <2>2, <3>1
  <2> QED BY <2>3, <2>4, FirmwareSame
<1>4. CASE Restart
  <2>1. flash'["firmware"] = flash["firmware"] /\ handles' = <<>>
        /\ running' = Started
    BY <1>0, <1>4 DEF Restart, Formatted, Flashes
  <2>2. Usable("firmware", Started)
    BY TypeInvParts DEF FirmwareInv, Started, StoreOK, Slots, Types
  <2>3. Usable("firmware", running)'
    BY <2>1, <2>2 DEF Usable
  <2> QED BY <2>1, <2>3 DEF FirmwareInv, Beside
<1>5. CASE UNCHANGED vars
  BY <1>5, FirmwareSame DEF vars, store
<1> QED BY <1>1, <1>2, <1>3, <1>4, <1>5 DEF Next

(* The firmware that runs is never written over, even by two updates at a  *)
(* time, and there is always one to start.                                 *)
THEOREM FirmwareCorrect == Spec => []FirmwareStarts
<1>1. Init => FirmwareInv
  BY ImageAssumption DEF Init, FirmwareInv, Usable, Beside, Types, Slots
<1>2. TypeInv /\ FirmwareInv => FirmwareStarts
  BY TypeInvParts
     DEF FirmwareInv, FirmwareStarts, Started, StoreOK, Slots, Types
<1> QED BY <1>1, <1>2, FirmwareStep, TypeAlways, PTL DEF Spec

-----------------------------------------------------------------------------
(* The configuration *)

(* An update that is open and not yet made active.                         *)
Updating(u) == Busy(u) /\ ~At(u, "edit")

(* It has a handle that is its own.                                        *)
Writing(u) == \/ At(u, "write")
              \/ job[u].pc \in {"body", "close", "end"} /\ written > 0

(* What the slot of a configuration holds while it is filled: behind the   *)
(* place the handle has reached nothing that was sent, and before it the   *)
(* image, unless a chunk was refused (then the handle is freed or the      *)
(* place stays behind the chunks for good).                                *)
Content(u) ==
  LET h == handles[handle]
      f == flash["config"][h.slot]
  IN  h.type = "config" =>
        /\ h.slot = 1 - active["config"]
        /\ \A i \in 1 .. Chunks : i > h.n => f[i] \in {Blank, Mixed}
        /\ h.live =>
             /\ h.n <= job[u].next - 1
             /\ \A i \in 1 .. Chunks : i > h.n => f[i] = Blank
             /\ h.n = job[u].next - 1 =>
                  \A i \in 1 .. Chunks : i <= h.n => f[i] = Chunk(job[u].image, i)

Ready(u) ==
  LET h == handles[job[u].handle]
  IN  h.type = "config" => /\ h.slot = 1 - active["config"]
                           /\ flash["config"][h.slot] = Full(job[u].image)

Owns(u) == /\ At(u, "begin") => written = 0
           /\ Writing(u) => Content(u)
           /\ At(u, "set") => Ready(u)

Alone == \A u, v \in Updaters : u # v => ~(Updating(u) /\ Updating(v))

(* A file is not changed in the slot of an update. *)
Apart == At("httpd", "edit") /\ Updating("ota_task")
           => mounted \subseteq {active["config"]}

Kept == accepted # NoImage => flash["config"][active["config"]] = Full(accepted)

OwnInv == ~overlapped => /\ Alone /\ Apart /\ Kept
                         /\ \A u \in Updaters : Owns(u)

(* Types, as far as they are needed here. *)
LEMMA Facts ==
  ASSUME TypeInv
  PROVE  /\ flash \in Flashes /\ active["config"] \in Slots
         /\ 1 - active["config"] \in Slots
         /\ 1 - active["config"] # active["config"]
         /\ mounted \subseteq Slots /\ ops \in Types /\ written \in Nat
         /\ handles \in Seq(Handles) /\ Len(handles) \in Nat
         /\ handle \in 0 .. Len(handles) /\ (written > 0 => handle > 0)
         /\ "config" \in Types /\ Updaters = {"httpd", "ota_task"}
<1>1. active["config"] \in Slots /\ "config" \in Types
  BY TypeInvParts DEF StoreOK, Types
<1> QED BY <1>1, TypeInvParts DEF StoreOK, MountOK, CtxOK, Slots, Updaters

(* What nobody of the updaters and nothing of theirs takes part in.        *)
LEMMA OwnFrame ==
  ASSUME OwnInv, ~overlapped,
         UNCHANGED <<flash, active, mounted, written, handle, handles, accepted>>,
         \A v \in Updaters : job'[v] = job[v] \/ job'[v].pc \in {"idle", "open"}
  PROVE  OwnInv'
<1>1. Alone /\ Apart /\ Kept /\ \A v \in Updaters : Owns(v)
  BY DEF OwnInv
<1>2. \A v \in Updaters : Updating(v)' => Updating(v)
  BY DEF Updating, Busy, At
<1>3. Alone'
  BY <1>1, <1>2, Zenon DEF Alone
<1>4. Apart'
  BY <1>1 DEF Apart, Updating, Busy, At, Updaters
<1>5. Kept'
  BY <1>1 DEF Kept
<1>6. ASSUME NEW v \in Updaters PROVE Owns(v)'
  <2>1. CASE job'[v] = job[v]
    BY <1>1, <2>1 DEF Owns, Writing, Content, Ready, At
  <2>2. CASE job'[v].pc \in {"idle", "open"}
    BY <2>2 DEF Owns, Writing, At
  <2> QED BY <2>1, <2>2
<1> QED BY <1>3, <1>4, <1>5, <1>6 DEF OwnInv

(* A step of an update that is alone. *)
LEMMA OwnStep ==
  ASSUME OwnInv, ~overlapped, NEW u \in Updaters, Updating(u),
         \A v \in Updaters \ {u} : job'[v] = job[v],
         job'[u].pc # "edit", mounted' = mounted,
         active'["config"] = active["config"] \/ job'[u].pc = "idle",
         Owns(u)', Kept'
  PROVE  OwnInv'
<1>1. Alone /\ Apart
  BY DEF OwnInv
<1>2. \A v \in Updaters \ {u} : ~Updating(v)
  BY <1>1 DEF Alone
<1>3. \A v \in Updaters \ {u} : ~Updating(v)'
  BY <1>2 DEF Updating, Busy, At
<1>4. Alone'
  BY <1>3 DEF Alone
<1>5. Apart'
  <2> SUFFICES ASSUME At("httpd", "edit")', Updating("ota_task")'
               PROVE  mounted' \subseteq {active'["config"]}
    BY DEF Apart
  <2>1. u = "ota_task" /\ At("httpd", "edit")
    BY DEF Updaters, At
  <2>2. job'[u].pc # "idle"
    BY <2>1 DEF Updating, Busy
  <2> QED BY <1>1, <2>1, <2>2 DEF Apart
<1>6. ASSUME NEW v \in Updaters \ {u} PROVE Owns(v)'
  BY <1>3 DEF Owns, Writing, Updating, Busy, At
<1> QED BY <1>4, <1>5, <1>6 DEF OwnInv

(* What an updater owns does not depend on the other slot, ...             *)
LEMMA OwnElsewhere ==
  ASSUME TypeInv, NEW u \in Updaters, Owns(u), job'[u] = job[u],
         UNCHANGED <<active, written, handle, handles>>,
         flash'["config"][1 - active["config"]]
           = flash["config"][1 - active["config"]]
  PROVE  Owns(u)'
BY DEF Owns, Writing, Content, Ready, At

(* ... and it may go on, past a chunk or not.                              *)
LEMMA OwnGoesOn ==
  ASSUME TypeInv, NEW u \in Updaters, Writing(u) => Content(u),
         UNCHANGED <<flash, active, written, handle, handles>>,
         job'[u].image = job[u].image,
         job'[u].next \in {job[u].next, job[u].next + 1},
         job'[u].pc = "begin" => written = 0, job'[u].pc # "set",
         Writing(u)' => Writing(u)
  PROVE  Owns(u)'
<1> SUFFICES ASSUME Writing(u) PROVE Content(u)'
  BY DEF Owns, At
<1> DEFINE h == handles[handle]
<1>1. CASE h.type # "config"
  BY <1>1 DEF Content
<1>2. CASE h.type = "config"
  <2>1. handle \in 1 .. Len(handles)
    BY Writer, Facts DEF Writing
  <2>2. h.n \in Nat /\ job[u].next \in Nat
    <3>1. h \in Handles
      BY <2>1, Facts
    <3>2. h.n \in Nat
      BY <3>1, ChunkAssumption DEF Handles
    <3>3. job[u].next \in Nat
      BY TypeInvParts, ChunkAssumption DEF JobsOK, Jobs
    <3> QED BY <3>2, <3>3
  <2> QED BY <1>2, <2>2 DEF Content
<1> QED BY <1>1, <1>2

(* Moves of an update that leave the flash alone.                          *)
LEMMA OwnMoves ==
  ASSUME TypeInv, OwnInv, ~overlapped, NEW u \in Updaters,
         \/ ClientStep(u) \/ Close(u) \/ NothingWritten(u)
         \/ MakeActiveFails(u)
  PROVE  OwnInv'
<1>1. UNCHANGED <<store, written, handle, handles, history>>
  BY DEF ClientStep, Received, ReceivedLate, EndOfBody, Close, NothingWritten,
         MakeActiveFails, ctx
<1>2. job \in Jobs(Len(handles)) /\ Len(handles) \in Nat
  BY TypeInvParts DEF JobsOK, CtxOK
<1>3. /\ job[u].pc \in {"body", "close", "end", "set"}
      /\ \A v \in Updaters \ {u} : job'[v] = job[v]
      /\ job'[u].image = job[u].image
      /\ job'[u].next \in {job[u].next, job[u].next + 1}
      /\ job'[u].pc # "set" /\ job'[u].pc # "edit"
      /\ job'[u].pc = "begin" => written = 0
      /\ Writing(u)' => Writing(u)
  <2>1. CASE Received(u)
    <3>1. At(u, "body") /\ Go(u, IF written = 0 THEN "begin" ELSE "write")
      BY <2>1 DEF Received
    <3> QED BY <1>1, <1>2, <3>1, Facts DEF Go, At, Writing, Jobs
  <2>2. CASE ReceivedLate(u)
    <3>1. At(u, "body") /\ Refused(u)
      BY <2>2 DEF ReceivedLate
    <3> QED BY <1>1, <1>2, <3>1 DEF Refused, At, Writing, Jobs
  <2>3. CASE EndOfBody(u) \/ Close(u)
    <3>1. /\ At(u, "body") \/ At(u, "close")
          /\ Go(u, "close") \/ Go(u, "end") \/ Go(u, "idle")
      BY <2>3 DEF EndOfBody, Close
    <3> QED BY <1>1, <1>2, <3>1 DEF Go, At, Writing, Jobs
  <2>4. CASE NothingWritten(u) \/ MakeActiveFails(u)
    <3>1. (At(u, "end") \/ At(u, "set")) /\ Go(u, "idle")
      BY <2>4 DEF NothingWritten, MakeActiveFails
    <3> QED BY <1>1, <1>2, <3>1 DEF Go, At, Writing, Jobs
  <2> QED BY <2>1, <2>2, <2>3, <2>4 DEF ClientStep
<1>4. Updating(u)
  BY <1>3 DEF Updating, Busy, At
<1>5. Owns(u)'
  BY <1>1, <1>3, OwnGoesOn DEF OwnInv, Owns, store
<1>6. Kept'
  BY <1>1 DEF OwnInv, Kept, store, history
<1> QED BY <1>1, <1>3, <1>4, <1>5, <1>6, OwnStep DEF store

(* An update opens: alone, or `overlapped' says so.                        *)
LEMMA OwnOpen ==
  ASSUME TypeInv, OwnInv, ~overlapped', NEW u \in Updaters, Open(u)
  PROVE  OwnInv'
<1>1. /\ ~overlapped /\ \A v \in Updaters \ {u} : ~Busy(v)
      /\ UNCHANGED <<store, accepted>> /\ written' = 0
      /\ Go(u, "body") \/ Go(u, "idle")
  BY DEF Open
<1>2. /\ job'[u].pc \in {"body", "idle"}
      /\ \A v \in Updaters \ {u} : job'[v] = job[v]
  BY <1>1, TypeInvParts DEF Go, JobsOK, Jobs
<1>3. \A v \in Updaters \ {u} : ~Busy(v)' 
  BY <1>1, <1>2 DEF Busy
<1>4. Alone'
  BY <1>3 DEF Alone, Updating
<1>5. Apart'
  BY <1>2, <1>3 DEF Apart, Updating, Updaters, Busy, At
<1>6. \A v \in Updaters : Owns(v)'
  BY <1>1, <1>2, <1>3 DEF Owns, Writing, Busy, At
<1>7. Kept'
  BY <1>1 DEF OwnInv, Kept, store
<1> QED BY <1>4, <1>5, <1>6, <1>7 DEF OwnInv

(* The target is erased for an update: all of its places are blank.        *)
LEMMA OwnBegin ==
  ASSUME TypeInv, OwnInv, ~overlapped, NEW u \in Updaters, Begin(u)
  PROVE  OwnInv'
<1> DEFINE h == [type |-> ops, slot |-> Target(ops), n |-> 0, live |-> TRUE]
<1>1. /\ At(u, "begin") /\ Go(u, "write")
      /\ flash' = [flash EXCEPT ![ops][Target(ops)] = Erased]
      /\ handles' = Append(handles, h) /\ handle' = Len(handles')
      /\ UNCHANGED <<active, mounted, accepted>>
  BY DEF Begin
<1>2. /\ job'[u].pc = "write" /\ job'[u].next = job[u].next
      /\ job'[u].next \in 1 .. Chunks + 1
      /\ \A v \in Updaters \ {u} : job'[v] = job[v]
  BY <1>1, TypeInvParts DEF Go, JobsOK, Jobs
<1>3. handles'[handle'] = h
  BY <1>1, Facts
<1>4. ops \in Types /\ Target(ops) \in Slots /\ flash \in Flashes
  BY Facts, TargetOK DEF TypeInv
<1>5. flash'["config"][active["config"]] = flash["config"][active["config"]]
  <2>1. ops # "config" \/ Target(ops) # active["config"]
    BY Facts DEF Target
  <2> QED BY <1>1, <1>4, <2>1, Facts, OtherSlot
<1>6. Content(u)'
  <2>1. CASE ops # "config"
    BY <1>3, <2>1 DEF Content
  <2>2. CASE ops = "config"
    <3>1. Target(ops) = 1 - active["config"]
      BY <2>2 DEF Target
    <3>2. flash'["config"][1 - active["config"]] = Erased
      BY <1>1, <1>4, <2>2, <3>1 DEF Flashes
    <3>3. \A i \in 1 .. Chunks : Erased[i] = Blank
      BY DEF Erased
    <3>4. h.type = "config" /\ h.slot = 1 - active["config"] /\ h.n = 0
      BY <2>2, <3>1
    <3> HIDE DEF h
    <3>5. active' = active
      BY <1>1
    <3>6. \A i \in 1 .. Chunks : ~(i <= 0)
      BY ChunkAssumption
    <3>7. 0 <= job'[u].next - 1
      BY <1>2, ChunkAssumption
    <3> QED BY <1>3, <3>2, <3>3, <3>4, <3>5, <3>6, <3>7 DEF Content
  <2> QED BY <2>1, <2>2
<1>7. Owns(u)'
  BY <1>2, <1>6 DEF Owns, At
<1>8. Kept'
  BY <1>1, <1>5 DEF OwnInv, Kept
<1>9. Updating(u)
  BY <1>1 DEF Updating, Busy, At
<1> QED BY <1>1, <1>2, <1>7, <1>8, <1>9, OwnStep

LEMMA OwnBeginFails ==
  ASSUME TypeInv, OwnInv, ~overlapped, NEW u \in Updaters, BeginFails(u)
  PROVE  OwnInv'
<1>1. /\ At(u, "begin") /\ Refused(u)
      /\ flash' \in {flash, [flash EXCEPT ![ops][Target(ops)] = Erased]}
      /\ UNCHANGED <<active, mounted, accepted, written>>
  BY DEF BeginFails, ctx
<1>2. /\ job'[u].pc \in {"close", "body"}
      /\ \A v \in Updaters \ {u} : job'[v] = job[v]
  BY <1>1, TypeInvParts DEF Refused, JobsOK, Jobs
<1>3. written = 0
  BY <1>1 DEF OwnInv, Owns
<1>4. Owns(u)'
  BY <1>1, <1>2, <1>3 DEF Owns, Writing, At
<1>5. flash'["config"][active["config"]] = flash["config"][active["config"]]
  <2>1. ops # "config" \/ Target(ops) # active["config"]
    BY Facts DEF Target
  <2>2. ops \in Types /\ Target(ops) \in Slots /\ flash \in Flashes
    BY Facts, TargetOK DEF TypeInv
  <2>3. [flash EXCEPT ![ops][Target(ops)] = Erased]["config"][active["config"]]
          = flash["config"][active["config"]]
    BY <2>1, <2>2, Facts, OtherSlot
  <2> QED BY <1>1, <2>3
<1>6. Kept'
  BY <1>1, <1>5 DEF OwnInv, Kept
<1>7. Updating(u)
  BY <1>1 DEF Updating, Busy, At
<1> QED BY <1>1, <1>2, <1>4, <1>6, <1>7, OwnStep

(* One place of the slot changes: the next one of the handle.              *)
LEMMA WrittenPlace ==
  ASSUME TypeInv, NEW h \in Handles, h.type = "config", h.n < Chunks, NEW c
  PROVE  \A i \in 1 .. Chunks :
           Written(h, c)["config"][h.slot][i] =
             IF i # h.n + 1 THEN flash["config"][h.slot][i]
             ELSE IF flash["config"][h.slot][i] = Blank THEN c ELSE Mixed
<1> DEFINE s == h.slot
           k == h.n + 1
           g == [flash["config"][s] EXCEPT ![k] = IF @ = Blank THEN c ELSE Mixed]
<1>1. s \in Slots /\ k \in 1 .. Chunks /\ flash \in Flashes /\ "config" \in Types
  BY Facts, ChunkAssumption DEF Handles
<1>2. Written(h, c) = [flash EXCEPT !["config"][s] = g]
  BY DEF Written
<1>3. Written(h, c)["config"][s] = g
  <2> HIDE DEF g, s
  <2> QED BY <1>1, <1>2 DEF Flashes
<1>4. \A i \in 1 .. Chunks :
        g[i] = IF i # k THEN flash["config"][s][i]
               ELSE IF flash["config"][s][i] = Blank THEN c ELSE Mixed
  <2> HIDE DEF s, k
  <2> QED BY <1>1 DEF Flashes
<1> QED BY <1>3, <1>4

LEMMA OwnWrite ==
  ASSUME TypeInv, OwnInv, ~overlapped, NEW u \in Updaters, Write(u)
  PROVE  OwnInv'
<1> DEFINE h == handles[handle]
           g == [h EXCEPT !.n = @ + 1]
           c == Chunk(job[u].image, job[u].next)
<1>1. /\ At(u, "write") /\ h.n < Chunks
      /\ flash' = Written(h, c)
      /\ handles' = [handles EXCEPT ![handle] = g] /\ handle' = handle
      /\ UNCHANGED <<active, mounted, accepted>>
  BY DEF Write, history
<1>2. /\ handle \in 1 .. Len(handles) /\ h \in Handles
      /\ job[u].next \in 1 .. Chunks
  BY <1>1, Writer
<1>3. /\ handles'[handle'] = g /\ g.type = h.type /\ g.slot = h.slot
      /\ g.n = h.n + 1 /\ g.live = h.live
  BY <1>1, <1>2, Facts DEF Handles
<1>4. /\ job'[u].pc = "body" /\ job'[u].next = job[u].next + 1
      /\ job'[u].image = job[u].image
      /\ \A v \in Updaters \ {u} : job'[v] = job[v]
  BY TypeInvParts DEF Write, JobsOK, Jobs
<1>5. Content(u)
  BY <1>1 DEF OwnInv, Owns, Writing
<1>6. Content(u)'
  <2>1. CASE h.type # "config"
    BY <1>3, <2>1 DEF Content
  <2>2. CASE h.type = "config"
    <3> DEFINE f  == flash["config"][h.slot]
               ff == flash'["config"][h.slot]
               n  == h.n
               next == job[u].next
    <3>1. \A i \in 1 .. Chunks :
            ff[i] = IF i # n + 1 THEN f[i]
                    ELSE IF f[i] = Blank THEN c ELSE Mixed
      BY <1>1, <1>2, <2>2, WrittenPlace
    <3>2. /\ h.slot = 1 - active["config"]
          /\ \A i \in 1 .. Chunks : i > n => f[i] \in {Blank, Mixed}
          /\ h.live =>
               /\ n <= next - 1
               /\ \A i \in 1 .. Chunks : i > n => f[i] = Blank
               /\ n = next - 1 =>
                    \A i \in 1 .. Chunks : i <= n => f[i] = Chunk(job[u].image, i)
      BY <1>5, <2>2 DEF Content
    <3>3. n \in Nat /\ next \in Nat
      BY <1>2, ChunkAssumption DEF Handles
    <3> HIDE DEF f, ff, n, next
    <3>4. \A i \in 1 .. Chunks : i > n + 1 => ff[i] \in {Blank, Mixed}
      BY <3>1, <3>2, <3>3, ChunkAssumption
    <3>5. h.live =>
            /\ n + 1 <= (next + 1) - 1
            /\ \A i \in 1 .. Chunks : i > n + 1 => ff[i] = Blank
      BY <3>1, <3>2, <3>3, ChunkAssumption
    <3>6. ASSUME h.live, n + 1 = (next + 1) - 1, NEW i \in 1 .. Chunks, i <= n + 1
          PROVE  ff[i] = Chunk(job[u].image, i)
      <4>1. CASE i # n + 1
        BY <3>1, <3>2, <3>3, <3>6, <4>1, ChunkAssumption
      <4>2. CASE i = n + 1
        <5>1. f[i] = Blank /\ next = i
          BY <3>2, <3>3, <3>6, <4>2, ChunkAssumption
        <5> QED BY <3>1, <4>2, <5>1 DEF next
      <4> QED BY <4>1, <4>2
    <3>7. active' = active
      BY <1>1
    <3> HIDE DEF h, g
    <3>8. job'[u].next = next + 1
      BY <1>4 DEF next
    <3>9. g.n = n + 1
      BY <1>3 DEF n
    <3>10. flash'["config"][g.slot] = ff
      BY <1>3 DEF ff
    <3> QED BY <1>3, <1>4, <3>2, <3>4, <3>5, <3>6, <3>7, <3>8, <3>9, <3>10
            DEF Content
  <2> QED BY <2>1, <2>2
<1>7. Owns(u)'
  BY <1>4, <1>6 DEF Owns, At
<1>8. Kept'
  <2>1. h.type # "config" \/ h.slot # active["config"]
    BY <1>5, Facts DEF Content
  <2>2. flash'["config"][active["config"]] = flash["config"][active["config"]]
    <3> HIDE DEF h, c
    <3> QED BY <1>1, <1>2, <2>1, Facts, OtherPlace
  <2> QED BY <1>1, <2>2 DEF OwnInv, Kept
<1>9. Updating(u)
  BY <1>1 DEF Updating, Busy, At
<1> QED BY <1>1, <1>4, <1>7, <1>8, <1>9, OwnStep

LEMMA OwnWriteFails ==
  ASSUME TypeInv, OwnInv, ~overlapped, NEW u \in Updaters, WriteFails(u)
  PROVE  OwnInv'
<1> DEFINE h == handles[handle]
           hh == handles'[handle]
<1>1. /\ At(u, "write") /\ Refused(u)
      /\ UNCHANGED flash \/ (h.n < Chunks /\ flash' = Written(h, Mixed))
      /\ UNCHANGED <<active, mounted, accepted, written, handle>>
  <2>1. At(u, "write") /\ Refused(u)
    BY Zenon DEF WriteFails
  <2>2. UNCHANGED flash \/ (h.n < Chunks /\ flash' = Written(h, Mixed))
    BY Zenon DEF WriteFails
  <2>3. UNCHANGED <<active, mounted, accepted, written, handle>>
    BY DEF WriteFails, ctx, history
  <2> QED BY <2>1, <2>2, <2>3
<1>2. handle \in 1 .. Len(handles) /\ h \in Handles
  BY <1>1, Writer
<1>3. /\ job'[u].pc \in {"close", "body"}
      /\ \A v \in Updaters \ {u} : job'[v] = job[v]
  BY <1>1, TypeInvParts DEF Refused, JobsOK, Jobs
<1>4. /\ hh.type = h.type /\ hh.slot = h.slot /\ hh.n = h.n
      /\ h.type = "config" => ~hh.live
  <2>1. CASE UNCHANGED handles /\ h.type = "firmware"
    BY <2>1
  <2>2. CASE handles' = [handles EXCEPT ![handle].live = FALSE]
    BY <1>2, <2>2, Facts DEF Handles
  <2> QED BY <2>1, <2>2 DEF WriteFails
<1>5. Content(u)
  BY <1>1 DEF OwnInv, Owns, Writing
<1>6. Content(u)'
  <2>1. CASE h.type # "config"
    BY <1>1, <1>4, <2>1 DEF Content
  <2>2. CASE h.type = "config"
    <3>1. ASSUME NEW i \in 1 .. Chunks, i > h.n
          PROVE  flash'["config"][h.slot][i] \in {Blank, Mixed}
      <4>1. flash["config"][h.slot][i] \in {Blank, Mixed}
        BY <1>5, <2>2, <3>1 DEF Content
      <4>2. CASE UNCHANGED flash
        BY <4>1, <4>2
      <4>3. CASE h.n < Chunks /\ flash' = Written(h, Mixed)
        <5> HIDE DEF h
        <5> QED BY <1>2, <2>2, <4>1, <4>3, WrittenPlace
      <4> QED BY <1>1, <4>2, <4>3
    <3>2. h.slot = 1 - active["config"]
      BY <1>5, <2>2 DEF Content
    <3> HIDE DEF h
    <3> QED BY <1>1, <1>4, <2>2, <3>1, <3>2 DEF Content
  <2> QED BY <2>1, <2>2
<1>7. Owns(u)'
  BY <1>3, <1>6 DEF Owns, At
<1>8. Kept'
  <2>1. h.type # "config" \/ h.slot # active["config"]
    BY <1>5, Facts DEF Content
  <2>2. flash'["config"][active["config"]] = flash["config"][active["config"]]
    <3> HIDE DEF h
    <3> QED BY <1>1, <1>2, <2>1, Facts, OtherPlace
  <2> QED BY <1>1, <2>2 DEF OwnInv, Kept
<1>9. Updating(u)
  BY <1>1 DEF Updating, Busy, At
<1> QED BY <1>1, <1>3, <1>7, <1>8, <1>9, OwnStep

(* A configuration that is accepted is the image, all of it.               *)
LEMMA OwnEnd ==
  ASSUME TypeInv, OwnInv, ~overlapped, NEW u \in Updaters, End(u)
  PROVE  OwnInv'
<1> DEFINE h == handles[handle]
           j == job[u]
<1>1. /\ At(u, "end") /\ written > 0
      /\ handles' = [handles EXCEPT ![handle].live = FALSE]
      /\ UNCHANGED <<store, written, handle, history>>
  BY DEF End, ctx
<1>2. /\ handle \in 1 .. Len(handles) /\ h \in Handles /\ Len(handles) \in Nat
      /\ j.next \in 1 .. Chunks + 1
  BY <1>1, Facts, TypeInvParts DEF JobsOK, Jobs
<1>3. /\ job'[u].pc = IF Accepts(h) THEN "set" ELSE "idle"
      /\ job'[u].handle = handle /\ job'[u].image = j.image
      /\ \A v \in Updaters \ {u} : job'[v] = job[v]
  BY TypeInvParts DEF End, JobsOK, Jobs
<1>4. Content(u)
  BY <1>1 DEF OwnInv, Owns, Writing, At
<1>5. ASSUME Accepts(h), h.type = "config"
      PROVE  /\ h.slot = 1 - active["config"]
             /\ flash["config"][h.slot] = Full(j.image)
  <2> DEFINE f == flash["config"][h.slot]
  <2>1. h.live /\ h.n = Chunks
    BY <1>5 DEF Accepts
  <2>2. h.slot = 1 - active["config"]
        /\ h.n <= j.next - 1
        /\ (h.n = j.next - 1 =>
              \A i \in 1 .. Chunks : i <= h.n => f[i] = Chunk(j.image, i))
    BY <1>4, <1>5, <2>1 DEF Content
  <2>3. h.n = j.next - 1
    <3> HIDE DEF h, j
    <3> QED BY <1>2, <2>1, <2>2, ChunkAssumption
  <2>4. \A i \in 1 .. Chunks : f[i] = Chunk(j.image, i)
    <3> HIDE DEF f, j
    <3> QED BY <2>1, <2>2, <2>3, ChunkAssumption
  <2>5. f \in [1 .. Chunks -> Pieces]
    BY <2>2, Facts DEF Flashes
  <2>6. f = Full(j.image)
    <3> HIDE DEF f, j
    <3> QED BY <2>4, <2>5 DEF Full
  <2> QED BY <2>2, <2>6
<1>6. handles'[handle].type = h.type /\ handles'[handle].slot = h.slot
  BY <1>1, <1>2, Facts DEF Handles
<1>7. Owns(u)'
  <2>1. CASE Accepts(h)
    <3>1. Ready(u)'
      <4> HIDE DEF h, j
      <4> QED BY <1>1, <1>3, <1>5, <1>6, <2>1 DEF Ready, store
    <3> QED BY <1>3, <2>1, <3>1 DEF Owns, Writing, At
  <2>2. CASE ~Accepts(h)
    BY <1>3, <2>2 DEF Owns, Writing, At
  <2> QED BY <2>1, <2>2
<1>8. Kept'
  BY <1>1 DEF OwnInv, Kept, store, history
<1>9. Updating(u)
  BY <1>1 DEF Updating, Busy, At
<1> QED BY <1>1, <1>3, <1>7, <1>8, <1>9, OwnStep DEF store

LEMMA OwnMakeActive ==
  ASSUME TypeInv, OwnInv, ~overlapped, NEW u \in Updaters, MakeActive(u)
  PROVE  OwnInv'
<1> DEFINE h == handles[job[u].handle]
<1>1. At(u, "set") /\ Go(u, "idle") /\ UNCHANGED <<flash, mounted>>
  BY DEF MakeActive
<1>2. job'[u].pc = "idle" /\ \A v \in Updaters \ {u} : job'[v] = job[v]
  BY <1>1, TypeInvParts DEF Go, JobsOK, Jobs
<1>3. Owns(u)'
  BY <1>2 DEF Owns, Writing, At
<1>4. Kept'
  <2>0. active \in [Types -> Slots]
    BY TypeInvParts DEF StoreOK
  <2>1. CASE h.type = "config" /\ accepted' = job[u].image
             /\ active' = [active EXCEPT !["config"] = h.slot]
    <3>1. flash["config"][h.slot] = Full(job[u].image)
      BY <1>1, <2>1 DEF OwnInv, Owns, Ready
    <3>2. active'["config"] = h.slot
      BY <2>0, <2>1, Facts
    <3> QED BY <1>1, <2>1, <3>1, <3>2 DEF Kept
  <2>2. CASE UNCHANGED accepted
             /\ active' = [active EXCEPT !["firmware"] = Target("firmware")]
    <3>1. active'["config"] = active["config"]
      BY <2>0, <2>2
    <3> QED BY <1>1, <2>2, <3>1 DEF OwnInv, Kept
  <2> QED BY <2>1, <2>2 DEF MakeActive
<1>5. Updating(u)
  BY <1>1 DEF Updating, Busy, At
<1> QED BY <1>1, <1>2, <1>3, <1>4, <1>5, OwnStep

(* The configuration that is mounted is one.                               *)
LEMMA MountedOne ==
  ASSUME TypeInv, NEW s \in mounted
  PROVE  mounted = {s}
<1>1. mounted \subseteq Slots /\ Cardinality(mounted) <= 1
  BY TypeInvParts DEF MountOK
<1>2. ASSUME NEW r \in mounted, r # s PROVE FALSE
  <2>1. Slots = {0, 1}
    BY DEF Slots
  <2>2. mounted = {0} \union {1}
    BY <1>1, <1>2, <2>1
  <2>3. IsFiniteSet({0}) /\ Cardinality({0}) = 1
    BY FS_Singleton
  <2>4. Cardinality({0} \union {1}) = 2
    BY <2>3, FS_AddElement
  <2> QED BY <1>1, <2>2, <2>4
<1> QED BY <1>2

(* A whole image is not what a lost config.json leaves.                    *)
LEMMA LostIsNotFull ==
  ASSUME NEW image \in Images
  PROVE  Full(image) # NoConfigJson /\ Full(image) # Erased
<1>1. 1 \in 1 .. Chunks /\ image # NoImage
  BY ChunkAssumption, ImageAssumption
<1>2. Full(image)[1].image = image /\ NoConfigJson[1].image = NoImage
      /\ Erased[1].image = NoImage
  BY <1>1 DEF Full, NoConfigJson, Erased, Blank, Mixed, Chunk
<1> QED BY <1>1, <1>2

LEMMA OwnLose ==
  ASSUME TypeInv, OwnInv, ~overlapped', NEW s \in mounted, LoseConfigJson(s),
         At("httpd", "idle"), job'["httpd"].pc \in {"idle", "edit"},
         job'["ota_task"] = job["ota_task"]
  PROVE  OwnInv'
<1>1. /\ ~overlapped
      /\ ~(s = Target("config") /\ Busy("ota_task"))
      /\ UNCHANGED <<active, mounted, handle, handles, written>>
      /\ flash' = [flash EXCEPT !["config"][s] = NoConfigJson]
      /\ accepted' = IF s = active["config"] THEN NoImage ELSE accepted
  BY DEF LoseConfigJson, ctx
<1>2. mounted = {s} /\ s \in Slots
  BY MountedOne, Facts
<1>3. Alone'
  BY <1>1 DEF Alone, Updating, Busy, At, Updaters
<1>4. ASSUME Updating("ota_task") PROVE s = active["config"]
  BY <1>1, <1>2, <1>4, Facts DEF Updating, Target, Slots
<1>5. Apart'
  BY <1>1, <1>2, <1>4 DEF Apart, Updating, Busy, At
<1>6. ASSUME NEW r \in Slots, r # s
      PROVE  flash'["config"][r] = flash["config"][r]
  BY <1>1, <1>2, <1>6, Facts, OtherSlot
<1>7. Kept'
  BY <1>1, <1>6, Facts DEF OwnInv, Kept
<1>8. Owns("httpd")'
  BY DEF Owns, Writing, At
<1>9. Owns("ota_task")'
  <2>1. CASE Updating("ota_task")
    <3>1. flash'["config"][1 - active["config"]]
            = flash["config"][1 - active["config"]]
      BY <1>4, <1>6, <2>1, Facts
    <3>2. Owns("ota_task")
      BY <1>1, Facts DEF OwnInv
    <3> QED BY <1>1, <3>1, <3>2, Facts, OwnElsewhere
  <2>2. CASE ~Updating("ota_task")
    BY <2>2 DEF Owns, Writing, At, Updating, Busy
  <2> QED BY <2>1, <2>2
<1> QED BY <1>3, <1>5, <1>7, <1>8, <1>9, Facts DEF OwnInv

LEMMA OwnFiles ==
  ASSUME TypeInv, OwnInv, ~overlapped', Files
  PROVE  OwnInv'
<1>0. "httpd" \in Updaters /\ job \in Jobs(Len(handles))
  BY TypeInvParts DEF Updaters, JobsOK
<1>1. CASE PostFile
  <2>1. PICK s \in mounted : LoseConfigJson(s)
    BY <1>1 DEF PostFile
  <2>2. /\ At("httpd", "idle") /\ job'["httpd"].pc = "edit"
        /\ job'["ota_task"] = job["ota_task"]
    BY <1>0, <1>1 DEF PostFile, Go, Jobs, Updaters
  <2> QED BY <2>1, <2>2, OwnLose
<1>2. CASE DeleteFile
  BY <1>2, OwnLose DEF DeleteFile, At
<1>3. CASE FilePosted
  <2>1. /\ At("httpd", "edit") /\ ~overlapped
        /\ UNCHANGED <<active, mounted, written, handle, handles, accepted>>
    BY <1>3 DEF FilePosted, ctx, history
  <2>2. job'["httpd"].pc = "idle" /\ job'["ota_task"] = job["ota_task"]
    BY <1>0, <1>3 DEF FilePosted, Go, Jobs, Updaters
  <2>3. CASE UNCHANGED flash
    BY <2>1, <2>2, <2>3, Facts, OwnFrame
  <2>4. CASE \E s \in mounted, image \in Images :
               /\ flash["config"][s] = NoConfigJson
               /\ flash' = [flash EXCEPT !["config"][s] = Full(image)]
    <3>1. PICK s \in mounted, image \in Images :
               /\ flash["config"][s] = NoConfigJson
               /\ flash' = [flash EXCEPT !["config"][s] = Full(image)]
      BY <2>4
    <3>2. mounted = {s} /\ s \in Slots
      BY MountedOne, Facts
    <3>3. ASSUME NEW r \in Slots, r # s
          PROVE  flash'["config"][r] = flash["config"][r]
      BY <3>1, <3>2, <3>3, Facts, OtherSlot
    <3>4. Kept'
      <4>1. CASE s = active["config"]
        <5>1. accepted = NoImage
          BY <2>1, <3>1, <4>1, LostIsNotFull, TypeInvParts
             DEF OwnInv, Kept, CountOK
        <5> QED BY <2>1, <5>1 DEF Kept
      <4>2. CASE s # active["config"]
        BY <2>1, <3>3, <4>2, Facts DEF OwnInv, Kept
      <4> QED BY <4>1, <4>2
    <3>5. Owns("ota_task")'
      <4>1. CASE Updating("ota_task")
        <5>1. s = active["config"]
          BY <2>1, <3>2, <4>1 DEF OwnInv, Apart
        <5>2. flash'["config"][1 - active["config"]]
                = flash["config"][1 - active["config"]]
          BY <3>3, <5>1, Facts
        <5>3. Owns("ota_task")
          BY <2>1, Facts DEF OwnInv
        <5> QED BY <2>1, <2>2, <5>2, <5>3, Facts, OwnElsewhere
      <4>2. CASE ~Updating("ota_task")
        BY <2>2, <4>2 DEF Owns, Writing, At, Updating, Busy
      <4> QED BY <4>1, <4>2
    <3>6. Owns("httpd")' /\ Apart' /\ Alone'
      BY <2>2 DEF Owns, Writing, Apart, Alone, Updating, Busy, At, Updaters
    <3> QED BY <3>4, <3>5, <3>6, Facts DEF OwnInv
  <2> QED BY <1>3, <2>3, <2>4 DEF FilePosted
<1> QED BY <1>1, <1>2, <1>3 DEF Files

(* A boot leaves a good active configuration, and what was accepted.       *)
LEMMA OwnRestart ==
  ASSUME TypeInv, OwnInv, Restart
  PROVE  OwnInv'
<1>1. \A u \in Updaters : job'[u].pc = "idle"
  BY DEF Restart, Idle
<1>2. Alone' /\ Apart' /\ \A u \in Updaters : Owns(u)'
  <2>1. \A u \in Updaters : ~Updating(u)' /\ Owns(u)'
    BY <1>1 DEF Owns, Writing, Updating, Busy, At
  <2>2. "ota_task" \in Updaters
    BY DEF Updaters
  <2> QED BY <2>1, <2>2 DEF Alone, Apart
<1>3. Kept'
  <2>1. CASE Usable("config", active["config"]) /\ ~overlapped
    <3>1. accepted' = accepted /\ active' = active
      BY <2>1 DEF Restart, Load, FallsBack
    <3>2. PassedOver = {}
      BY <2>1 DEF PassedOver
    <3>3. \A s \in Slots : flash'["config"][s] = flash["config"][s]
      <4>1. PICK S \in SUBSET PassedOver :
              flash' = [flash EXCEPT !["config"] =
                          [s \in Slots |-> IF s \in S THEN Erased ELSE @[s]]]
        BY DEF Restart, Formatted
      <4> QED BY <3>2, <4>1, Facts DEF Flashes
    <3> QED BY <2>1, <3>1, <3>3, Facts DEF OwnInv, Kept
  <2>2. CASE ~(Usable("config", active["config"]) /\ ~overlapped)
    BY <2>2 DEF Restart, Kept
  <2> QED BY <2>1, <2>2
<1> QED BY <1>2, <1>3 DEF OwnInv

(* Every step keeps OwnInv. *)
LEMMA OwnNext == TypeInv /\ OwnInv /\ [Next]_vars => OwnInv'
<1> SUFFICES ASSUME TypeInv, OwnInv, [Next]_vars, ~overlapped' PROVE OwnInv'
  BY Zenon DEF OwnInv
<1>1. CASE Restart
  BY <1>1, OwnRestart
<1>2. CASE Files
  BY <1>2, OwnFiles
<1>3. CASE \E u \in Updaters, t \in Types, image \in Images : Check(u, t, image)
  <2>1. PICK u \in Updaters, t \in Types, image \in Images : Check(u, t, image)
    BY <1>3
  <2>2. /\ ~overlapped
        /\ UNCHANGED <<flash, active, mounted, written, handle, handles, accepted>>
    BY <2>1 DEF Check, store, ctx, history
  <2>3. \A v \in Updaters : job'[v] = job[v] \/ job'[v].pc \in {"idle", "open"}
    BY <2>1, TypeInvParts DEF Check, Idle, JobsOK, Jobs
  <2> QED BY <2>2, <2>3, OwnFrame
<1>4. ASSUME NEW u \in Updaters, ClientStep(u) \/ DeviceStep(u) PROVE OwnInv'
  <2>1. CASE Open(u)
    BY <2>1, OwnOpen
  <2>2. CASE ~Open(u)
    <3>1. ~overlapped
      BY <1>4, <2>2, Zenon
         DEF ClientStep, DeviceStep, Received, ReceivedLate, EndOfBody, Begin,
             BeginFails, Write, WriteFails, Close, NothingWritten, End,
             MakeActive, MakeActiveFails, history
    <3> QED BY <1>4, <2>2, <3>1, OwnMoves, OwnBegin, OwnBeginFails, OwnWrite,
               OwnWriteFails, OwnEnd, OwnMakeActive DEF DeviceStep
  <2> QED BY <2>1, <2>2
<1>5. CASE UNCHANGED vars
  <2>1. ~overlapped /\ UNCHANGED <<flash, active, mounted, written, handle,
                                   handles, accepted, job>>
    BY <1>5 DEF vars, store, ctx, history
  <2> QED BY <2>1, OwnFrame
<1> QED BY <1>1, <1>2, <1>3, <1>4, <1>5 DEF Next

LEMMA OwnInit == Init => OwnInv
<1> SUFFICES ASSUME Init PROVE OwnInv
  OBVIOUS
<1>1. \A u \in Updaters : job[u].pc = "idle"
  BY DEF Init, Idle
<1>2. Alone /\ Apart /\ \A u \in Updaters : Owns(u)
  <2>1. \A u \in Updaters : ~Updating(u) /\ Owns(u)
    BY <1>1 DEF Owns, Writing, Updating, Busy, At
  <2>2. "ota_task" \in Updaters
    BY DEF Updaters
  <2> QED BY <2>1, <2>2 DEF Alone, Apart
<1>3. Kept
  BY DEF Init, Kept, Types, Slots
<1> QED BY <1>2, <1>3 DEF OwnInv

(* Whatever fails, and wherever a reset comes, the configuration that is   *)
(* marked active is the image that was accepted last, all of it.           *)
THEOREM AcceptedCorrect == Spec => []AcceptedIsKept
<1>1. OwnInv => AcceptedIsKept
  BY DEF OwnInv, Kept, AcceptedIsKept
<1> QED BY <1>1, OwnInit, OwnNext, TypeAlways, PTL DEF Spec

-----------------------------------------------------------------------------
(* Something to fall back to *)

FallInv == ~overlapped /\ ~hurried /\ ~spoiled
             => \E s \in Slots : Usable("config", s)

(* A slot with a place that holds nothing of an image is not usable, and   *)
(* the usable one is the other.                                            *)
LEMMA FallOther ==
  ASSUME FallInv, ~overlapped, ~hurried, ~spoiled, NEW s \in Slots,
         NEW i \in 1 .. Chunks, flash["config"][s][i] \in {Blank, Mixed},
         \A r \in Slots \ {s} : flash'["config"][r] = flash["config"][r]
  PROVE  FallInv'
<1>1. ~Usable("config", s)
  <2>1. \A image \in Images : Full(image)[i].image = image
    BY DEF Full, Chunk
  <2>2. flash["config"][s][i].image = NoImage
    BY DEF Blank, Mixed, Chunk
  <2> QED BY <2>1, <2>2, ImageAssumption DEF Usable
<1>2. PICK r \in Slots : Usable("config", r)
  BY DEF FallInv
<1>3. r # s
  BY <1>1, <1>2
<1>4. Usable("config", r)'
  BY <1>2, <1>3 DEF Usable
<1> QED BY <1>4 DEF FallInv

LEMMA FallSame ==
  ASSUME FallInv, UNCHANGED <<overlapped, hurried, spoiled>>,
         \A r \in Slots : flash'["config"][r] = flash["config"][r]
  PROVE  FallInv'
BY DEF FallInv, Usable

LEMMA FallErase ==
  ASSUME TypeInv, FallInv, NEW u \in Updaters, Begin(u) \/ BeginFails(u)
  PROVE  FallInv'
<1> SUFFICES ASSUME ~overlapped', ~hurried', ~spoiled' PROVE FallInv'
  BY Zenon DEF FallInv
<1>1. ~overlapped /\ ~hurried /\ ~spoiled /\ ~Hurries
  <2>1. UNCHANGED <<overlapped, spoiled>>
    BY DEF Begin, BeginFails
  <2>2. ~hurried /\ ~Hurries
    BY Zenon DEF Begin, BeginFails
  <2> QED BY <2>1, <2>2
<1>2. flash' \in {flash, [flash EXCEPT ![ops][Target(ops)] = Erased]}
  BY DEF Begin, BeginFails
<1>3. ops \in Types /\ Target(ops) \in Slots
  BY Facts, TargetOK DEF TypeInv
<1>4. CASE flash' = flash
  BY <1>1, <1>4 DEF FallInv, Usable
<1>5. CASE flash' = [flash EXCEPT ![ops][Target(ops)] = Erased]
  <2>1. ASSUME NEW r \in Slots, ops # "config" \/ r # Target(ops)
        PROVE  flash'["config"][r] = flash["config"][r]
    BY <1>3, <1>5, <2>1, Facts, OtherSlot
  <2>2. CASE ops # "config"
    BY <1>1, <2>1, <2>2 DEF FallInv, Usable
  <2>3. CASE ops = "config"
    <3>1. Usable("config", active["config"])
      BY <1>1, <2>3 DEF Hurries
    <3>2. active["config"] \in Slots /\ active["config"] # Target(ops)
      BY <2>3, Facts DEF Target
    <3>3. flash'["config"][active["config"]] = flash["config"][active["config"]]
      BY <2>1, <3>2
    <3>4. \E image \in Images \ Unusable :
            flash'["config"][active["config"]] = Full(image)
      BY <3>1, <3>3 DEF Usable
    <3> QED BY <3>2, <3>4 DEF FallInv, Usable
  <2> QED BY <2>2, <2>3
<1> QED BY <1>2, <1>4, <1>5

LEMMA FallWrite ==
  ASSUME TypeInv, OwnInv, FallInv, NEW u \in Updaters, Write(u) \/ WriteFails(u)
  PROVE  FallInv'
<1> DEFINE h == handles[handle]
<1>1. /\ UNCHANGED <<overlapped, hurried, spoiled>> /\ At(u, "write")
      /\ handle \in 1 .. Len(handles) /\ h \in Handles
  BY Writer DEF Write, WriteFails, history
<1>2. UNCHANGED flash \/ (h.n < Chunks /\ \E c : flash' = Written(h, c))
  BY Zenon DEF Write, WriteFails
<1>3. CASE UNCHANGED flash
  BY <1>1, <1>3, FallSame
<1>4. ASSUME h.n < Chunks, NEW c, flash' = Written(h, c) PROVE FallInv'
  <2>1. ASSUME NEW r \in Slots, h.type # "config" \/ r # h.slot
        PROVE  flash'["config"][r] = flash["config"][r]
    <3> HIDE DEF h
    <3> QED BY <1>1, <1>4, <2>1, Facts, OtherPlace
  <2>2. CASE h.type # "config"
    BY <1>1, <2>1, <2>2, FallSame
  <2>3. CASE h.type = "config" /\ ~overlapped /\ ~hurried /\ ~spoiled
    <3>1. Content(u)
      BY <1>1, <2>3 DEF OwnInv, Owns, Writing
    <3>2. h.n + 1 \in 1 .. Chunks /\ h.n + 1 > h.n /\ h.slot \in Slots
      BY <1>1, <1>4, ChunkAssumption DEF Handles
    <3>3. flash["config"][h.slot][h.n + 1] \in {Blank, Mixed}
      BY <2>3, <3>1, <3>2 DEF Content
    <3>4. \A r \in Slots \ {h.slot} : flash'["config"][r] = flash["config"][r]
      BY <2>1
    <3> HIDE DEF h
    <3> QED BY <2>3, <3>2, <3>3, <3>4, FallOther
  <2>4. CASE ~(~overlapped /\ ~hurried /\ ~spoiled)
    BY <1>1, <2>4 DEF FallInv
  <2> QED BY <2>2, <2>3, <2>4
<1> QED BY <1>2, <1>3, <1>4

LEMMA FallFiles ==
  ASSUME TypeInv, FallInv, Files
  PROVE  FallInv'
<1>1. CASE FilePosted
  <2>1. UNCHANGED <<overlapped, hurried, spoiled>>
    BY <1>1 DEF FilePosted, history
  <2>2. CASE UNCHANGED flash
    BY <2>1, <2>2, FallSame
  <2>3. CASE \E s \in mounted, image \in Images :
               /\ flash["config"][s] = NoConfigJson
               /\ flash' = [flash EXCEPT !["config"][s] = Full(image)]
    <3>1. PICK s \in Slots, image \in Images :
               /\ flash["config"][s] = NoConfigJson
               /\ flash' = [flash EXCEPT !["config"][s] = Full(image)]
      BY <2>3, Facts
    <3>2. \A r \in Slots \ {s} : flash'["config"][r] = flash["config"][r]
      BY <3>1, Facts, OtherSlot
    <3>3. 1 \in 1 .. Chunks /\ NoConfigJson[1] = Mixed
      BY ChunkAssumption DEF NoConfigJson
    <3>4. CASE ~overlapped /\ ~hurried /\ ~spoiled
      BY <3>1, <3>2, <3>3, <3>4, FallOther
    <3>5. CASE ~(~overlapped /\ ~hurried /\ ~spoiled)
      BY <2>1, <3>5 DEF FallInv
    <3> QED BY <3>4, <3>5
  <2> QED BY <1>1, <2>2, <2>3 DEF FilePosted
<1>2. CASE PostFile \/ DeleteFile
  <2>1. PICK s \in Slots : LoseConfigJson(s)
    BY <1>2, Facts DEF PostFile, DeleteFile
  <2>2. flash' = [flash EXCEPT !["config"][s] = NoConfigJson]
    BY <2>1 DEF LoseConfigJson
  <2>3. CASE Usable("config", 1 - s)
    <3>1. 1 - s \in Slots /\ 1 - s # s
      BY DEF Slots
    <3>2. flash'["config"][1 - s] = flash["config"][1 - s]
      BY <2>2, <3>1, Facts, OtherSlot
    <3> QED BY <2>3, <3>1, <3>2 DEF FallInv, Usable
  <2>4. CASE ~Usable("config", 1 - s)
    BY <2>1, <2>4, Zenon DEF LoseConfigJson, FallInv
  <2> QED BY <2>3, <2>4
<1> QED BY <1>1, <1>2 DEF Files

(* A boot formats only what is not usable.                                 *)
LEMMA FallRestart ==
  ASSUME TypeInv, FallInv, Restart
  PROVE  FallInv'
<1>1. ASSUME NEW r \in Slots, Usable("config", r) PROVE FallInv'
  <2>1. r \notin PassedOver
    BY <1>1 DEF PassedOver
  <2>2. PICK S \in SUBSET PassedOver :
          flash' = [flash EXCEPT !["config"] =
                      [s \in Slots |-> IF s \in S THEN Erased ELSE @[s]]]
    BY DEF Restart, Formatted
  <2>3. flash'["config"][r] = flash["config"][r]
    BY <1>1, <2>1, <2>2, Facts DEF Flashes
  <2> QED BY <1>1, <2>3 DEF FallInv, Usable
<1>2. CASE mounted' = {active'["config"]}
  <2>1. Usable("config", active["config"]) \/ Usable("config", 1 - active["config"])
    <3>1. CASE FallsBack
      BY <3>1 DEF FallsBack
    <3>2. CASE ~FallsBack
      <4>1. mounted' = {active["config"]} \ {s \in Slots : ~Usable("config", s)}
        BY <3>2, Zenon DEF Restart, Load
      <4>2. active["config"] \notin {s \in Slots : ~Usable("config", s)}
        BY <1>2, <4>1
      <4> QED BY <4>2, Facts
    <3> QED BY <3>1, <3>2
  <2> QED BY <1>1, <2>1, Facts
<1>3. CASE mounted' # {active'["config"]}
  <2>1. CASE ~overlapped /\ ~hurried /\ ~spoiled
    BY <1>1, <2>1 DEF FallInv
  <2>2. CASE ~(~overlapped /\ ~hurried /\ ~spoiled)
    <3>1. ~(~overlapped' /\ ~hurried' /\ ~spoiled')
      BY <1>3, <2>2, Zenon DEF Restart
    <3> QED BY <3>1, Zenon DEF FallInv
  <2> QED BY <2>1, <2>2
<1> QED BY <1>2, <1>3

(* Every step keeps FallInv. *)
LEMMA FallNext == TypeInv /\ OwnInv /\ FallInv /\ [Next]_vars => FallInv'
<1> SUFFICES ASSUME TypeInv, OwnInv, FallInv, [Next]_vars PROVE FallInv'
  OBVIOUS
<1>1. ASSUME UNCHANGED <<flash, hurried, spoiled>>, overlapped => overlapped'
      PROVE  FallInv'
  BY <1>1 DEF FallInv, Usable
<1>2. ASSUME NEW u \in Updaters, ClientStep(u) \/ DeviceStep(u) PROVE FallInv'
  <2>1. CASE Begin(u) \/ BeginFails(u)
    BY <2>1, FallErase
  <2>2. CASE Write(u) \/ WriteFails(u)
    BY <2>2, FallWrite
  <2>3. CASE Open(u)
    BY <1>1, <2>3 DEF Open, store
  <2>4. CASE ClientStep(u) \/ Close(u) \/ NothingWritten(u) \/ End(u)
             \/ MakeActive(u) \/ MakeActiveFails(u)
    BY <1>1, <2>4 DEF ClientStep, Received, ReceivedLate, EndOfBody, Close,
       NothingWritten, End, MakeActive, MakeActiveFails, store, history
  <2> QED BY <1>2, <2>1, <2>2, <2>3, <2>4 DEF DeviceStep
<1>3. CASE \E u \in Updaters, t \in Types, image \in Images : Check(u, t, image)
  BY <1>1, <1>3 DEF Check, store, history
<1>4. CASE UNCHANGED vars
  BY <1>1, <1>4 DEF vars, store, history
<1> QED BY <1>2, <1>3, <1>4, FallFiles, FallRestart DEF Next

(* Unless two updates ran into each other, one was begun too early or the  *)
(* only config.json was changed, there is a configuration to fall back to. *)
THEOREM FallbackCorrect == Spec => []FallbackKept
<1>1. Init => FallInv
  BY ImageAssumption DEF Init, FallInv, Usable, Types, Slots
<1>2. FallInv => FallbackKept
  BY DEF FallInv, FallbackKept
<1> QED BY <1>1, <1>2, OwnInit, OwnNext, FallNext, TypeAlways, PTL DEF Spec
============================================================================
