--------------------------- MODULE MCDeskRecovery ---------------------------
(***************************************************************************)
(* The instants of the recovery net's small instance: one instant before   *)
(* T1, one from T1 to T2 (the refund's window), one from T2 on.            *)
(***************************************************************************)
EXTENDS DeskRecovery

MCT1 == 1
MCT2 == 2
MCEnd == 2

\* A desk that advertises its T1 one instant before the chain's.
LateT1 == 2
LateT2 == 3
=============================================================================
