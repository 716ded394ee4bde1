--------------------------- MODULE MCSessionSend ---------------------------
(* Two presses of one payment, two Horizon servers two ledgers apart. *)
EXTENDS SessionSend

MCSends == {"first", "second"}
MCServers == {"h1", "h2"}
MCSpread == 2
MCMargin == 1
MCEnd == 3
=============================================================================
