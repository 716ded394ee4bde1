--------------------------- MODULE MCFeeLedger ---------------------------
(* Two bids, of which one is charged for. *)
EXTENDS FeeLedger
MCBids == {"b1", "b2"}
MCChargeable == {"b1"}
=============================================================================
