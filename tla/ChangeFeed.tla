----------------------------- MODULE ChangeFeed -----------------------------
(***************************************************************************)
(* What ac_mitm promises of one field of the state and of the topic made   *)
(* from it: every change is published, once, in the order of the changes,  *)
(* until a reset forgets those on their way.                               *)
(***************************************************************************)
EXTENDS Sequences

CONSTANTS Value, Unknown

VARIABLES
  value,   \* the field
  feed,    \* changes that are not published yet, oldest first
  seen     \* what the topic shows, Unknown before the first change

Init == value \in Value /\ feed = <<>> /\ seen = Unknown

Change == /\ value' \in Value \ {value}
          /\ feed' = Append(feed, value')
          /\ UNCHANGED seen

Publish == /\ feed # <<>>
           /\ seen' = Head(feed)
           /\ feed' = Tail(feed)
           /\ UNCHANGED value

Reset == value' \in Value /\ feed' = <<>> /\ seen' = Unknown

Next == Change \/ Publish \/ Reset

Spec == Init /\ [][Next]_<<value, feed, seen>>
=============================================================================
