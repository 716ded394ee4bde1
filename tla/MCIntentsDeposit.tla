------------------------- MODULE MCIntentsDeposit -------------------------
(* Two submissions at once; two quotes, of which one may replace the other. *)
EXTENDS IntentsDeposit
CONSTANTS q1, q2, s1, s2
MCQuotes == {q1, q2}
MCSlots == {s1, s2}
=============================================================================
