-------------------------- MODULE IntentsDeposit --------------------------
(***************************************************************************)
(* Signing a deposit for a NEAR Intents quote.  A quote is a deposit       *)
(* address, with a memo where the address is shared, and the swap is       *)
(* whatever arrives there: a second deposit is a second payment.  The form *)
(* that hands a quote out, the modal mounted on it, the table of attempts, *)
(* the submissions (the modal's handler and the executor it awaits) and a  *)
(* restart of the wallet.                                                  *)
(*                                                                         *)
(* Review and password are one stage, from which the user submits; what    *)
(* follows the deposit's hash is in IntentsHistory.                        *)
(***************************************************************************)
EXTENDS Naturals

CONSTANTS
    Quotes, \* the deposits 1Click quotes
    Slots,  \* submissions that may be under way at once
    None    \* no quote

ASSUME DepositConstants == None \notin Quotes

VARIABLES
    gone,     \* the quotes an earlier session used
    form,     \* the quote of the form
    modal,    \* what the modal is open on, and its stage
    attempts, \* intents-attempts.ts: the table, in memory
    exec,     \* the submissions
    sent,     \* external: deposits the network took, per quote
    over      \* external: the quotes 1Click is done with

vars == <<gone, form, modal, attempts, exec, sent, over>>

MaybeQuotes == Quotes \cup {None}
Stages == {"review", "executing", "pending", "unknown", "used", "error", "done"}
Closed == [quote |-> None, stage |-> "closed"]
Modals == {Closed} \cup [quote : Quotes, stage : Stages]
States == {"none", "claimed", "broadcast", "unknown", "retired"}

\* "screen": the modal that ran it is still mounted.
NoExec == [pc |-> "idle", quote |-> None, screen |-> FALSE]
Execs == [pc : {"idle", "unlock", "sign", "relay", "record", "recordUnknown", "follow"},
          quote : MaybeQuotes, screen : BOOLEAN]

TypeOK ==
    /\ gone \subseteq Quotes
    /\ form \in MaybeQuotes
    /\ modal \in Modals
    /\ attempts \in [Quotes -> States]
    /\ exec \in [Slots -> Execs]
    /\ sent \in [Quotes -> Nat]
    /\ over \subseteq Quotes

Init ==
    /\ gone = {}
    /\ form = None
    /\ modal = Closed
    /\ attempts = [q \in Quotes |-> "none"]
    /\ exec = [s \in Slots |-> NoExec]
    /\ sent = [q \in Quotes |-> 0]
    /\ over = {}

-----------------------------------------------------------------------------
(* The form and the modal.                                                 *)

UsedIfBroadcast(q) == attempts[q] = "broadcast"
Used(q) == attempts[q] # "none"
HandedOut(q) == IF q # None /\ ~Used(q) THEN q ELSE None
IsOpen == modal.stage # "closed"

\* The modal is mounted on the quote the form hands out, while it is open on
\* the one it opened on.  Unmounted, its submissions no longer reach a screen.
Screens(mounted) ==
    exec' = [s \in Slots |->
               [pc |-> exec[s].pc, quote |-> exec[s].quote, screen |-> exec[s].screen /\ mounted]]

\* A fetch ends, with no quote or with q.  None starts while the modal is open;
\* one that runs lands all the same.  External: a quote may come back in one
\* session, never one that an earlier session used.
Land(q) ==
    /\ q \notin gone
    /\ form' = q
    /\ Screens(IsOpen \/ HandedOut(q) # None)
    /\ UNCHANGED <<gone, modal, attempts, sent, over>>

Open ==
    /\ ~IsOpen
    /\ HandedOut(form) # None
    /\ modal' = [quote |-> form, stage |-> "review"]
    /\ UNCHANGED <<gone, form, attempts, exec, sent, over>>

Busy == modal.stage = "executing"

Close ==
    /\ IsOpen
    /\ ~Busy
    /\ modal' = Closed
    /\ Screens(HandedOut(form) # None)
    /\ UNCHANGED <<gone, form, attempts, sent, over>>

\* Portrait and landscape mount a form of their own.
SwitchLayout ==
    /\ modal' = Closed
    /\ form' = None
    /\ Screens(FALSE)
    /\ UNCHANGED <<gone, attempts, sent, over>>

-----------------------------------------------------------------------------
(* One submission.                                                         *)

Idle(s) == exec[s].pc = "idle"
Stage(stage) == [quote |-> modal.quote, stage |-> stage]

ShowAnyway(s, stage) == modal' = IF exec[s].screen THEN Stage(stage) ELSE modal

\* setStage of a submission: lost once its modal is unmounted, unseen while it
\* is closed.
Show(s, stage) == modal' = IF exec[s].screen /\ IsOpen THEN Stage(stage) ELSE modal

Becomes(s, pc) ==
    exec' = [exec EXCEPT ![s] = [pc |-> pc, quote |-> exec[s].quote, screen |-> exec[s].screen]]
Ends(s) == exec' = [exec EXCEPT ![s] = NoExec]
Record(q, state) == attempts' = [attempts EXCEPT ![q] = state]

RetryOnTheSame(q) == IF attempts[q] \in {"broadcast", "unknown"} THEN attempts[q] ELSE "none"

\* A quote recorded as broadcast or unknown is never called retired; one that
\* is claimed is, whoever may be signing for it.
Retired(q) == IF attempts[q] \in {"broadcast", "unknown"} THEN attempts[q] ELSE "retired"

\* The password is submitted: refused for a used quote, or by a check that
\* needs no key; else the vault is unlocked.
Submit(s) ==
    /\ modal.stage = "review"
    /\ Idle(s)
    /\ \/ /\ Used(modal.quote)
          /\ modal' = Stage("used")
          /\ UNCHANGED <<attempts, exec>>
       \/ /\ ~Used(modal.quote)
          /\ modal' = Stage("error")
          /\ Record(modal.quote, Retired(modal.quote))
          /\ UNCHANGED exec
       \/ /\ ~Used(modal.quote)
          /\ modal' = Stage("executing")
          /\ exec' = [exec EXCEPT ![s] = [pc |-> "unlock", quote |-> modal.quote, screen |-> TRUE]]
          /\ UNCHANGED attempts
    /\ UNCHANGED <<gone, form, sent, over>>

WrongPassword(s) ==
    /\ exec[s].pc = "unlock"
    /\ Show(s, "review")
    /\ Ends(s)
    /\ UNCHANGED <<gone, form, attempts, sent, over>>

\* A check of the executor, the builder, the signer or every node refuses.
Fails(s) ==
    /\ exec[s].pc \in {"unlock", "sign"}
    /\ Show(s, "error")
    /\ Record(exec[s].quote, Retired(exec[s].quote))
    /\ Ends(s)
    /\ UNCHANGED <<gone, form, sent, over>>

Claim(s) ==
    /\ exec[s].pc = "unlock"
    /\ \/ /\ Used(exec[s].quote)
          /\ Show(s, "used")
          /\ Ends(s)
          /\ UNCHANGED attempts
       \/ /\ ~Used(exec[s].quote)
          /\ Record(exec[s].quote, "claimed")
          /\ Becomes(s, "sign")
          /\ UNCHANGED modal
    /\ UNCHANGED <<gone, form, sent, over>>

\* The network takes the deposit; the executor still awaits the answer.
Broadcast(s) ==
    /\ exec[s].pc = "sign"
    /\ sent' = [sent EXCEPT ![exec[s].quote] = @ + 1]
    /\ Becomes(s, "relay")
    /\ UNCHANGED <<gone, form, modal, attempts, over>>

\* The answer: the deposit has a hash.
HashKnown(s) ==
    /\ exec[s].pc = "relay"
    /\ Record(exec[s].quote, "broadcast")
    /\ Becomes(s, "record")
    /\ UNCHANGED <<gone, form, modal, sent, over>>

\* The deposit was offered to the network, and nothing says what became of it.
OutcomeUnknown(s) ==
    /\ exec[s].pc \in {"sign", "relay"}
    /\ Record(exec[s].quote, "unknown")
    /\ Becomes(s, "recordUnknown")
    /\ UNCHANGED <<gone, form, modal, sent, over>>

\* The row's write is over, and 1Click told of the hash; either may fail.
Recorded(s) ==
    /\ \/ /\ exec[s].pc = "record"
          /\ modal' = IF exec[s].screen /\ Busy THEN Stage("pending") ELSE modal
       \/ /\ exec[s].pc = "recordUnknown"
          /\ Show(s, "unknown")
    /\ Becomes(s, "follow")
    /\ UNCHANGED <<gone, form, attempts, sent, over>>

\* The modal's poller reads a final status; it may as well have given up.
Followed(s) ==
    /\ exec[s].pc = "follow"
    /\ \/ exec[s].quote \in over /\ Show(s, "done")
       \/ UNCHANGED modal
    /\ Ends(s)
    /\ UNCHANGED <<gone, form, attempts, sent, over>>

-----------------------------------------------------------------------------

\* External: 1Click pays out, or returns what it got, by the deadline.
Decide(q) ==
    /\ attempts[q] \in {"broadcast", "unknown"}
    /\ over' = over \cup {q}
    /\ UNCHANGED <<gone, form, modal, attempts, exec, sent>>

\* A quote lives in memory only, and so does the table.
Restart ==
    /\ gone' = gone \cup {q \in Quotes : Used(q)}
    /\ form' = None
    /\ modal' = Closed
    /\ attempts' = [q \in Quotes |-> "none"]
    /\ exec' = [s \in Slots |-> NoExec]
    /\ UNCHANGED <<sent, over>>

Step(s) ==
    \/ Submit(s) \/ WrongPassword(s) \/ Fails(s) \/ Claim(s)
    \/ Broadcast(s) \/ HashKnown(s) \/ OutcomeUnknown(s) \/ Recorded(s) \/ Followed(s)

Next ==
    \/ \E q \in MaybeQuotes : Land(q)
    \/ Open \/ Close \/ SwitchLayout \/ Restart
    \/ \E s \in Slots : Step(s)
    \/ \E q \in Quotes : Decide(q)

Spec == Init /\ [][Next]_vars

-----------------------------------------------------------------------------
(* Properties.                                                             *)

\* One quote, one deposit: over retries, overlapping submissions of two forms,
\* unknown outcomes and restarts, no quote is paid twice
\* (claimIntentsDeposit, intents-attempts.ts).
PaidOnce == \A q \in Quotes : sent[q] <= 1

\* Past the claim: its deposit may be signed for, or out and not yet known.
Depositing(s, q) == exec[s].pc \in {"sign", "relay"} /\ exec[s].quote = q

\* "Signing a second deposit for the same address is therefore a second payment"
\* (intents-attempts.ts:7): a quote that the form or the modal still lets the
\* user deposit for was not paid, and no submission has it in hand, however the
\* submissions overlap and whatever became of the earlier ones.
OfferedIsUntouched ==
    \A q \in {form, modal.quote} \ {None} :
        ~Used(q) => sent[q] = 0 /\ \A s \in Slots : ~Depositing(s, q)

\* "True while the modal must not close: from the password submit until the
\* deposit has a hash" (modalIsBusy, SwapConfirmModal.tsx:1130): a submission
\* under way on a mounted modal finds it open, and on its quote.
SigningIsOnScreen ==
    \A s \in Slots :
        exec[s].screen /\ exec[s].pc \in {"unlock", "sign", "relay"} => modal.quote = exec[s].quote

\* What the table knows of a quote.
Entry(q) ==
    CASE attempts[q] = "none" -> "nothing"
      [] attempts[q] = "claimed" -> "open"
      [] attempts[q] = "broadcast" -> "paid"
      [] attempts[q] = "unknown" -> "unknown"
      [] attempts[q] = "retired" -> "unpaid"

\* A quote that a submission has in hand is open, whatever an overlapping one made
\* of its entry.
Told(q) ==
    CASE q \in gone -> "forgotten"
      [] q \notin gone /\ (\E s \in Slots : Depositing(s, q)) -> "open"
      [] OTHER -> Entry(q)

Promise == INSTANCE Payments WITH
    Items <- Quotes,
    Rivals <- [q \in Quotes |-> {}],
    told <- [q \in Quotes |-> Told(q)],
    paid <- sent,
    lapses <- [q \in Quotes |-> 0]

\* Over overlapping submissions and restarts, a deposit is made only for a quote
\* that was claimed, the table tells truly which were paid, and a quote that was
\* begun before a restart is not begun again (intents-attempts.ts).
ImplementsPayments == Promise!Spec
=============================================================================
