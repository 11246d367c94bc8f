------------------------------ MODULE TwoSlots ------------------------------
(***************************************************************************)
(* What the two partitions of the configuration promise.  An image that is *)
(* sent goes to the spare slot, and becomes the active one only when all   *)
(* of it is there; the active one changes by nothing else, but for files   *)
(* of the configuration in use.  A boot loads a usable image if there is   *)
(* one, the active one first, and spares what is usable.  Nothing but the  *)
(* boot is promised while two updates clash.                               *)
(***************************************************************************)
EXTENDS Integers

CONSTANTS Images, Unusable, Factory, Nothing

VARIABLES
  slot,     \* the image each slot holds; Nothing: no whole one
  active,   \* the slot to load at the next boot
  loaded,   \* the slot in use: {} if none
  offer,    \* the image that is being sent, or Nothing
  clash     \* two updates ran into each other, or a file was changed under one

Slots    == 0 .. 1
Spare    == 1 - active
Contents == Images \union {Nothing}
Usable   == {s \in Slots : slot[s] \in Images \ Unusable}

Init == /\ slot = [s \in Slots |-> IF s = 0 THEN Factory ELSE Nothing]
        /\ active = 0 /\ loaded = {0} /\ offer = Nothing /\ clash = FALSE

Offer == /\ ~clash /\ offer = Nothing /\ offer' \in Images
         /\ UNCHANGED <<slot, active, loaded, clash>>

Fill == /\ offer # Nothing
        /\ \E image \in {Nothing, offer} : slot' = [slot EXCEPT ![Spare] = image]
        /\ UNCHANGED <<active, loaded, offer, clash>>

Activate == /\ offer # Nothing /\ slot[Spare] = offer
            /\ active' = Spare /\ offer' = Nothing
            /\ UNCHANGED <<slot, loaded, clash>>

Withdraw == /\ offer # Nothing /\ offer' = Nothing
            /\ UNCHANGED <<slot, active, loaded, clash>>

ChangeFile == /\ \E s \in loaded, image \in Contents :
                   /\ offer # Nothing => s = active
                   /\ slot' = [slot EXCEPT ![s] = image]
              /\ UNCHANGED <<active, loaded, offer, clash>>

(* Slots with no usable image may be formatted, if the active one is one.  *)
Boot ==
  /\ \E formatted \in SUBSET (Slots \ Usable) :
       /\ active \in Usable => formatted = {}
       /\ slot' = [s \in Slots |-> IF s \in formatted THEN Nothing ELSE slot[s]]
  /\ loaded' = IF active \in Usable THEN {active} ELSE Usable
  /\ active' \in {active} \union loaded'
  /\ offer' = Nothing
  /\ clash' = (clash /\ loaded' # {active'})

Clash == /\ ~clash /\ clash' /\ offer' = Nothing
         /\ \/ UNCHANGED slot
            \/ \E s \in loaded : slot' = [slot EXCEPT ![s] = Nothing]
         /\ UNCHANGED <<active, loaded>>

Disturbed == /\ clash /\ clash'
             /\ slot' \in [Slots -> Contents] /\ active' \in Slots
             /\ UNCHANGED <<loaded, offer>>

Next == \/ Offer \/ Fill \/ Activate \/ Withdraw \/ ChangeFile \/ Boot
        \/ Clash \/ Disturbed

Spec == Init /\ [][Next]_<<slot, active, loaded, offer, clash>>
=============================================================================
