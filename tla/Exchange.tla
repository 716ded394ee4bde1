------------------------------ MODULE Exchange ------------------------------
(***************************************************************************)
(* What a desk swap promises its user, seen from our side of it: two coins *)
(* are each locked once and then move once, ours is given away only        *)
(* against theirs, and a follower does not commit its coin first.          *)
(***************************************************************************)
CONSTANT Role

VARIABLES ours, theirs

Init == ours = "home" /\ theirs = "home"

LockOurs   == /\ ours = "home" /\ ours' = "locked"
              /\ Role = "Follower" => theirs # "home"
              /\ UNCHANGED theirs
LockTheirs == theirs = "home" /\ theirs' = "locked" /\ UNCHANGED ours

\* Our coin goes to them only while theirs is ours to take, or taken.
GiveOurs   == /\ ours = "locked" /\ ours' = "given"
              /\ theirs \in {"locked", "taken"}
              /\ UNCHANGED theirs
TakeTheirs == /\ theirs = "locked" /\ theirs' = "taken"
              /\ ours \in {"locked", "given"}
              /\ UNCHANGED ours

RecoverOurs   == ours = "locked" /\ ours' = "back" /\ UNCHANGED theirs
RecoverTheirs == theirs = "locked" /\ ours # "given" /\ theirs' = "back" /\ UNCHANGED ours

Next == LockOurs \/ LockTheirs \/ GiveOurs \/ TakeTheirs \/ RecoverOurs \/ RecoverTheirs

Spec == Init /\ [][Next]_<<ours, theirs>>
=============================================================================
