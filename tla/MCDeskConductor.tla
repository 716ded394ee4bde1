-------------------------- MODULE MCDeskConductor --------------------------
(***************************************************************************)
(* The instants of a drive.  The leader's: one in which it may still wait, *)
(* one between its deadline and T1, one from T1 to T2, one from T2 on.     *)
(* The short clock of the follower's crash run has no instant before the   *)
(* margin of the drive deadline, so every wait of the drive is late.       *)
(***************************************************************************)
EXTENDS DeskConductor

MCT1 == 2
MCT2 == 3
MCEnd == 3
MCMargin == 1

ShortT1 == 1
ShortT2 == 2
ShortEnd == 2
ShortMargin == 1
=============================================================================
