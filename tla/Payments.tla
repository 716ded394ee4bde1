------------------------------ MODULE Payments ------------------------------
(***************************************************************************)
(* What the wallet promises of the things it pays for over a network that  *)
(* answers late, wrongly or not at all: a payment is made while its item   *)
(* is open or unknown, an item reported unpaid stays unpaid, one reported  *)
(* paid was paid, of two rivals one is paid, and whatever is lost on the   *)
(* way costs at most one payment more.                                     *)
(***************************************************************************)
EXTENDS Naturals

CONSTANTS
    Items,  \* the things to pay for
    Rivals  \* the other items that stand for the same payment, per item

VARIABLES
    told,   \* what the wallet says of an item
    paid,   \* the payments made for it
    lapses  \* how often what the wallet knew of it was lost

Reports == {"nothing", "open", "paid", "unpaid", "unknown", "forgotten"}
Unpaid == {"nothing", "unpaid"}

Init ==
    /\ told = [i \in Items |-> "nothing"]
    /\ paid = [i \in Items |-> 0]
    /\ lapses = [i \in Items |-> 0]

\* A payment may be under way: its rivals are over, and nothing was paid yet.
Start(i) ==
    /\ told[i] = "nothing"
    /\ paid[i] <= lapses[i]
    /\ \A j \in Rivals[i] : told[j] \in Unpaid
    /\ told' = [told EXCEPT ![i] = "open"]
    /\ UNCHANGED <<paid, lapses>>

\* The outcome is reported, truly; "unknown" may be reported of any.
Report(i) ==
    /\ \E r \in Reports \ {"open", "forgotten"} :
        /\ told[i] = "open" \/ (told[i] = "nothing" /\ r = "unpaid")
        /\ r \in Unpaid => paid[i] <= lapses[i]
        /\ r = "paid" => paid[i] > 0
        /\ told' = [told EXCEPT ![i] = r]
    /\ UNCHANGED <<paid, lapses>>

\* The network makes the payment, and may tell at once.
Pay(i) ==
    /\ told[i] \in {"open", "unknown"}
    /\ paid[i] <= lapses[i]
    /\ paid' = [paid EXCEPT ![i] = @ + 1]
    /\ \E r \in {"paid", "unknown"} :
        \/ told[i] = "open" /\ told' = [told EXCEPT ![i] = r]
        \/ told' = told
    /\ UNCHANGED lapses

\* What was known of an item is lost, perhaps with the payment being made.
Lapse(i) ==
    /\ lapses' = [lapses EXCEPT ![i] = @ + 1]
    /\ \/ paid' = paid
       \/ /\ told[i] = "open"
          /\ paid[i] <= lapses[i]
          /\ paid' = [paid EXCEPT ![i] = @ + 1]
    /\ told' = [told EXCEPT ![i] = "nothing"] \/ told' = told

\* Items once begun are forgotten together, and not offered again.
Forget ==
    /\ \E begun \in SUBSET {i \in Items : told[i] # "nothing"} :
        told' = [i \in Items |-> IF i \in begun THEN "forgotten" ELSE told[i]]
    /\ UNCHANGED <<paid, lapses>>

Next ==
    \/ \E i \in Items : Start(i) \/ Report(i) \/ Pay(i) \/ Lapse(i)
    \/ Forget

Spec == Init /\ [][Next]_<<told, paid, lapses>>
=============================================================================
