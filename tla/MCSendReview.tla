--------------------------- MODULE MCSendReview ---------------------------
(* Three payments the form can hold, besides nothing quotable. *)
EXTENDS SendReview

MCInputs == {"pay", "edited", "other"}
MCNone == "none"
=============================================================================
