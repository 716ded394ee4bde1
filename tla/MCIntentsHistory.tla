------------------------- MODULE MCIntentsHistory -------------------------
(* Two swaps at one shared address.                                        *)
EXTENDS IntentsHistory
CONSTANTS xlm1, xlm2, stellar
MCSwaps == {xlm1, xlm2}
MCAddressOf == [s \in MCSwaps |-> stellar]
MCDetailed == {xlm2}
=============================================================================
