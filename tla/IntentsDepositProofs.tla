----------------------- MODULE IntentsDepositProofs -----------------------
(***************************************************************************)
(* PaidOnce and OfferedIsUntouched, for any number of quotes and           *)
(* overlapping submissions.  They are inductive with what ties the table,  *)
(* in memory, to the network: a quote in hand has one submission and no    *)
(* deposit but its own, a quote that neither the table nor a submission    *)
(* awaiting its answer accounts for has none, and what an earlier session  *)
(* used is neither shown nor signed.                                       *)
(***************************************************************************)
EXTENDS IntentsDeposit, TLAPS

\* Past the claim; and, of those, with the deposit out and its answer awaited.
Signs(s) == exec[s].pc \in {"sign", "relay"}
Relays(s) == exec[s].pc = "relay"

\* What is shown or submitted was not used by an earlier session.
LiveQuotes ==
    /\ form \notin gone
    /\ modal.quote \notin gone
    /\ \A s \in Slots : exec[s].pc # "idle" => exec[s].quote \in Quotes \ gone
    /\ \A q \in gone : attempts[q] = "none"

\* The claim lets one submission through.
OneSigner ==
    \A s, r \in Slots : Signs(s) /\ Signs(r) /\ exec[s].quote = exec[r].quote => s = r

SignerIsClaimed == \A s \in Slots : Signs(s) => attempts[exec[s].quote] \in {"claimed", "retired"}

Relayed(q) == \E s \in Slots : Relays(s) /\ exec[s].quote = q
RelayedIsOut == \A s \in Slots : Relays(s) => sent[exec[s].quote] = 1

\* Money out is in the table or has an answer awaited, until a restart.
Unpaid ==
    \A q \in Quotes \ gone : sent[q] = 0 \/ attempts[q] \in {"broadcast", "unknown"} \/ Relayed(q)

IInv ==
    /\ TypeOK /\ LiveQuotes
    /\ OneSigner /\ SignerIsClaimed /\ RelayedIsOut
    /\ Unpaid /\ PaidOnce

PCs == {"idle", "unlock", "sign", "relay", "record", "recordUnknown", "follow"}
Quiet == PCs \ {"sign", "relay"}

\* What an action leaves of the submissions when it moves no program counter.
SameSubmissions ==
    \A s \in Slots : exec'[s].pc = exec[s].pc /\ exec'[s].quote = exec[s].quote

\* The empty values are well formed, and a modal that is open has a quote.
LEMMA EmptyValues ==
    ASSUME TypeOK
    PROVE  NoExec \in Execs /\ Closed \in Modals /\ (IsOpen => modal.quote \in Quotes)
<1>1. NoExec \in Execs BY DEF NoExec, Execs, MaybeQuotes
<1>2. Closed \in Modals BY DEF Modals
<1>3. IsOpen => modal.quote \in Quotes BY DEF TypeOK, Modals, Closed, IsOpen
<1>4. QED BY <1>1, <1>2, <1>3

\* Mounting and unmounting touches the screens only.
LEMMA ScreensKeep ==
    ASSUME TypeOK, NEW mounted \in BOOLEAN, Screens(mounted)
    PROVE  exec' \in [Slots -> Execs] /\ SameSubmissions
<1>1. \A s \in Slots : exec[s] \in Execs BY DEF TypeOK
<1>2. \A s \in Slots :
        [pc |-> exec[s].pc, quote |-> exec[s].quote, screen |-> exec[s].screen /\ mounted] \in Execs
  BY <1>1 DEF Execs
<1>3. QED BY <1>2 DEF Screens, SameSubmissions

\* A submission moves on alone, and keeps its quote.
LEMMA BecomesValues ==
    ASSUME TypeOK, NEW s \in Slots, NEW pc \in PCs, Becomes(s, pc)
    PROVE  /\ exec' \in [Slots -> Execs]
           /\ exec'[s].pc = pc /\ exec'[s].quote = exec[s].quote
           /\ \A r \in Slots \ {s} : exec'[r] = exec[r]
<1>1. exec[s] \in Execs BY DEF TypeOK
<1>2. [pc |-> pc, quote |-> exec[s].quote, screen |-> exec[s].screen] \in Execs
  BY <1>1 DEF Execs, PCs
<1>3. QED BY <1>2 DEF Becomes, TypeOK

LEMMA EndsValues ==
    ASSUME TypeOK, NEW s \in Slots, Ends(s)
    PROVE  /\ exec' \in [Slots -> Execs]
           /\ exec'[s].pc = "idle"
           /\ \A r \in Slots \ {s} : exec'[r] = exec[r]
BY EmptyValues DEF Ends, TypeOK, NoExec

\* Whatever a submission shows, the modal stays on its quote.
LEMMA ShowKeeps ==
    ASSUME TypeOK, NEW s \in Slots, NEW stage \in Stages, Show(s, stage)
    PROVE  modal' \in Modals /\ modal'.quote = modal.quote
<1>1. IsOpen => Stage(stage) \in Modals BY EmptyValues DEF Stage, Modals
<1>2. QED BY <1>1 DEF Show, Stage, TypeOK

\* Retiring writes an attempt and calls nothing paid that was not.
LEMMA RetiredValues ==
    ASSUME TypeOK, NEW q \in Quotes
    PROVE  /\ Retired(q) \in States \ {"none"}
           /\ Retired(q) \in {"broadcast", "unknown"} <=> attempts[q] \in {"broadcast", "unknown"}
           /\ attempts[q] \in {"claimed", "retired"} => Retired(q) = "retired"
BY DEF Retired, States, TypeOK

LEMMA RecordValues ==
    ASSUME TypeOK, NEW q \in Quotes, NEW state \in States, Record(q, state)
    PROVE  /\ attempts' \in [Quotes -> States]
           /\ attempts'[q] = state
           /\ \A r \in Quotes \ {q} : attempts'[r] = attempts[r]
BY DEF Record, TypeOK

-----------------------------------------------------------------------------
(* Steps.                                                                  *)

\* Steps of the form and the modal: nothing is paid, recorded or submitted.
LEMMA ScreenSteps ==
    ASSUME IInv, exec' \in [Slots -> Execs], SameSubmissions,
           form' \in MaybeQuotes \ gone, modal' \in Modals, modal'.quote \notin gone,
           UNCHANGED <<gone, attempts, sent, over>>
    PROVE  IInv'
<1>1. TypeOK' BY DEF IInv, TypeOK
<1>2. LiveQuotes' BY DEF IInv, LiveQuotes, SameSubmissions
<1>3. OneSigner' BY DEF IInv, OneSigner, Signs, SameSubmissions
<1>4. SignerIsClaimed' BY DEF IInv, SignerIsClaimed, Signs, SameSubmissions
<1>5. \A s \in Slots : Relays(s)' <=> Relays(s) BY DEF Relays, SameSubmissions
<1>6. RelayedIsOut' BY <1>5 DEF IInv, RelayedIsOut, SameSubmissions
<1>7. Unpaid' /\ PaidOnce' BY <1>5 DEF IInv, Unpaid, PaidOnce, Relayed, SameSubmissions
<1>8. QED BY <1>1, <1>2, <1>3, <1>4, <1>6, <1>7 DEF IInv

\* A submission that ends or moves on without signing, whatever is recorded of
\* its quote or of the modal's, short of a payment.
LEMMA QuietSteps ==
    ASSUME IInv, NEW s \in Slots, ~Relays(s),
           exec' \in [Slots -> Execs],
           exec'[s].pc \in Quiet,
           exec'[s].pc # "idle" => exec'[s].quote \in Quotes \ gone,
           \A r \in Slots \ {s} : exec'[r] = exec[r],
           modal' \in Modals, modal'.quote = modal.quote,
           attempts' \in [Quotes -> States],
           \A q \in gone : attempts'[q] = "none",
           \A q \in Quotes :
             /\ attempts'[q] \in {"broadcast", "unknown"} <=> attempts[q] \in {"broadcast", "unknown"}
             /\ attempts[q] \in {"claimed", "retired"} => attempts'[q] \in {"claimed", "retired"},
           UNCHANGED <<gone, form, sent, over>>
    PROVE  IInv'
<1>1. TypeOK' BY DEF IInv, TypeOK
<1>2. LiveQuotes' BY DEF IInv, LiveQuotes
<1>3. \A r \in Slots : Signs(r)' => r # s /\ Signs(r) /\ exec'[r] = exec[r]
  BY DEF Signs, Quiet
<1>4. OneSigner' BY <1>3 DEF IInv, OneSigner
<1>5. SignerIsClaimed'
  <2>1. SUFFICES ASSUME NEW r \in Slots, Signs(r)'
                 PROVE  attempts'[exec'[r].quote] \in {"claimed", "retired"}
    BY DEF SignerIsClaimed
  <2>2. Signs(r) /\ exec'[r] = exec[r] BY <1>3, <2>1
  <2>3. exec[r].quote \in Quotes BY <2>2 DEF IInv, LiveQuotes, Signs
  <2>4. attempts[exec[r].quote] \in {"claimed", "retired"}
    BY <2>2 DEF IInv, SignerIsClaimed
  <2>5. QED BY <2>2, <2>3, <2>4
<1>6. \A r \in Slots : (Relays(r)' <=> Relays(r)) /\ (Relays(r) => exec'[r] = exec[r])
  BY DEF Relays, Quiet
<1>7. RelayedIsOut' BY <1>6 DEF IInv, RelayedIsOut
<1>8. \A q \in Quotes : Relayed(q)' <=> Relayed(q) BY <1>6 DEF Relayed
<1>9. Unpaid' /\ PaidOnce' BY <1>8 DEF IInv, Unpaid, PaidOnce
<1>10. QED BY <1>1, <1>2, <1>4, <1>5, <1>7, <1>9 DEF IInv

\* What became of a deposit is recorded: it is out if it was relayed.
LEMMA ReportingSteps ==
    ASSUME IInv, NEW s \in Slots, NEW state \in {"broadcast", "unknown"},
           NEW pc \in {"record", "recordUnknown"},
           Signs(s), Record(exec[s].quote, state), Becomes(s, pc),
           UNCHANGED <<gone, form, modal, sent, over>>
    PROVE  IInv'
<1> DEFINE q == exec[s].quote
<1>1. q \in Quotes \ gone BY DEF IInv, LiveQuotes, Signs
<1>2. /\ exec' \in [Slots -> Execs]
      /\ exec'[s].pc = pc /\ exec'[s].quote = q
      /\ \A r \in Slots \ {s} : exec'[r] = exec[r]
  <2>1. pc \in PCs BY DEF PCs
  <2>2. QED BY <2>1, BecomesValues DEF IInv
<1>3. /\ attempts' \in [Quotes -> States]
      /\ attempts'[q] = state
      /\ \A r \in Quotes \ {q} : attempts'[r] = attempts[r]
  <2>1. state \in States BY DEF States
  <2>2. QED BY <1>1, <2>1, RecordValues DEF IInv
<1>4. TypeOK' BY <1>2, <1>3 DEF IInv, TypeOK
<1>5. LiveQuotes' BY <1>1, <1>2, <1>3 DEF IInv, LiveQuotes, TypeOK
<1>6. \A r \in Slots :
        /\ Signs(r)' => r # s /\ Signs(r) /\ exec'[r] = exec[r]
        /\ Relays(r)' => r # s /\ Relays(r) /\ exec'[r] = exec[r]
  BY <1>2 DEF Signs, Relays
<1>7. OneSigner' BY <1>6 DEF IInv, OneSigner
<1>8. SignerIsClaimed'
  <2>1. SUFFICES ASSUME NEW r \in Slots, Signs(r)'
                 PROVE  attempts'[exec'[r].quote] \in {"claimed", "retired"}
    BY DEF SignerIsClaimed
  <2>2. r # s /\ Signs(r) /\ exec'[r] = exec[r] BY <1>6, <2>1
  <2>3. exec[r].quote \in Quotes BY <2>2 DEF IInv, LiveQuotes, Signs
  <2>4. exec[r].quote # q BY <2>2 DEF IInv, OneSigner
  <2>5. QED BY <1>3, <2>2, <2>3, <2>4 DEF IInv, SignerIsClaimed
<1>9. RelayedIsOut' BY <1>6 DEF IInv, RelayedIsOut
<1>10. \A p \in Quotes \ {q} : Relayed(p) => Relayed(p)' BY <1>2 DEF Relayed, Relays
<1>11. Unpaid' BY <1>3, <1>10 DEF IInv, Unpaid
<1>12. PaidOnce' BY DEF IInv, PaidOnce
<1>13. QED BY <1>4, <1>5, <1>7, <1>8, <1>9, <1>11, <1>12 DEF IInv

-----------------------------------------------------------------------------
(* Every action.                                                           *)

LEMMA LandInductive == ASSUME IInv, NEW q \in MaybeQuotes, Land(q) PROVE IInv'
<1>1. exec' \in [Slots -> Execs] /\ SameSubmissions
  <2>1. (IsOpen \/ HandedOut(q) # None) \in BOOLEAN OBVIOUS
  <2>2. QED BY <2>1, ScreensKeep DEF Land, IInv
<1>2. form' \in MaybeQuotes \ gone BY DEF Land
<1>3. modal' \in Modals /\ modal'.quote \notin gone
  BY DEF Land, IInv, TypeOK, LiveQuotes
<1>4. QED BY <1>1, <1>2, <1>3, ScreenSteps DEF Land

LEMMA OpenInductive == ASSUME IInv, Open PROVE IInv'
<1>1. form \in Quotes \ gone
  BY DEF Open, HandedOut, IInv, TypeOK, LiveQuotes, MaybeQuotes
<1>2. modal' \in Modals /\ modal'.quote \notin gone BY <1>1 DEF Open, Modals, Stages
<1>3. exec' \in [Slots -> Execs] /\ SameSubmissions
  BY DEF Open, IInv, TypeOK, SameSubmissions
<1>4. QED BY <1>1, <1>2, <1>3, ScreenSteps DEF Open, MaybeQuotes

\* Closing and switching layouts: the modal is on no quote.
LEMMA CloseInductive == ASSUME IInv, Close PROVE IInv'
<1>1. exec' \in [Slots -> Execs] /\ SameSubmissions
  <2>1. (HandedOut(form) # None) \in BOOLEAN OBVIOUS
  <2>2. QED BY <2>1, ScreensKeep DEF Close, IInv
<1>2. form' \in MaybeQuotes \ gone BY DEF Close, IInv, TypeOK, LiveQuotes
<1>3. modal' \in Modals /\ modal'.quote \notin gone
  BY EmptyValues, DepositConstants DEF Close, IInv, Closed, TypeOK
<1>4. QED BY <1>1, <1>2, <1>3, ScreenSteps DEF Close

LEMMA SwitchLayoutInductive == ASSUME IInv, SwitchLayout PROVE IInv'
<1>1. exec' \in [Slots -> Execs] /\ SameSubmissions
  BY ScreensKeep DEF SwitchLayout, IInv
<1>2. form' \in MaybeQuotes \ gone
  BY DepositConstants DEF SwitchLayout, IInv, TypeOK, MaybeQuotes
<1>3. modal' \in Modals /\ modal'.quote \notin gone
  BY EmptyValues, DepositConstants DEF SwitchLayout, IInv, Closed, TypeOK
<1>4. QED BY <1>1, <1>2, <1>3, ScreenSteps DEF SwitchLayout

\* A restart forgets the table, and with it every quote the table knew.
LEMMA RestartInductive == ASSUME IInv, Restart PROVE IInv'
<1>1. TypeOK'
  BY EmptyValues DEF Restart, IInv, TypeOK, MaybeQuotes, States
<1>2. LiveQuotes'
  BY DepositConstants DEF Restart, IInv, TypeOK, LiveQuotes, Closed, NoExec
<1>3. OneSigner' /\ SignerIsClaimed' /\ RelayedIsOut'
  BY DEF Restart, OneSigner, SignerIsClaimed, RelayedIsOut, Signs, Relays, NoExec
<1>4. Unpaid'
  <2>1. \A q \in Quotes : Relayed(q) => Used(q)
    BY DEF IInv, SignerIsClaimed, Relayed, Relays, Signs, Used
  <2>2. QED BY <2>1 DEF Restart, IInv, Unpaid, Used
<1>5. PaidOnce' BY DEF Restart, IInv, PaidOnce
<1>6. QED BY <1>1, <1>2, <1>3, <1>4, <1>5 DEF IInv

LEMMA DecideInductive == ASSUME IInv, NEW q \in Quotes, Decide(q) PROVE IInv'
BY DEF Decide, IInv, TypeOK, LiveQuotes, OneSigner, SignerIsClaimed, RelayedIsOut, Signs, Relays,
       Unpaid, Relayed, PaidOnce

\* What QuietSteps asks of a step that records nothing, or retires one quote.
Untouched == UNCHANGED attempts
LEMMA AttemptsKept ==
    ASSUME IInv, Untouched
    PROVE  /\ attempts' \in [Quotes -> States]
           /\ \A q \in gone : attempts'[q] = "none"
           /\ \A q \in Quotes :
                /\ attempts'[q] \in {"broadcast", "unknown"} <=> attempts[q] \in {"broadcast", "unknown"}
                /\ attempts[q] \in {"claimed", "retired"} => attempts'[q] \in {"claimed", "retired"}
BY DEF IInv, TypeOK, LiveQuotes, Untouched

LEMMA AttemptsRetired ==
    ASSUME IInv, NEW p \in Quotes \ gone, Record(p, Retired(p))
    PROVE  /\ attempts' \in [Quotes -> States]
           /\ \A q \in gone : attempts'[q] = "none"
           /\ \A q \in Quotes :
                /\ attempts'[q] \in {"broadcast", "unknown"} <=> attempts[q] \in {"broadcast", "unknown"}
                /\ attempts[q] \in {"claimed", "retired"} => attempts'[q] \in {"claimed", "retired"}
<1>1. Retired(p) \in States BY RetiredValues DEF IInv
<1>2. /\ attempts' \in [Quotes -> States]
      /\ attempts'[p] = Retired(p)
      /\ \A r \in Quotes \ {p} : attempts'[r] = attempts[r]
  BY <1>1, RecordValues DEF IInv
<1>3. \A q \in gone : attempts'[q] = "none" BY <1>2 DEF IInv, LiveQuotes, TypeOK
<1>4. QED BY <1>2, <1>3, RetiredValues DEF IInv

LEMMA SubmitInductive == ASSUME IInv, NEW s \in Slots, Submit(s) PROVE IInv'
<1>1. modal.quote \in Quotes \ gone
  BY EmptyValues DEF Submit, IInv, IsOpen, LiveQuotes
<1>2. \A stage \in Stages : Stage(stage) \in Modals /\ Stage(stage).quote = modal.quote
  BY <1>1 DEF Stage, Modals
<1>3. modal' \in Modals /\ modal'.quote = modal.quote BY <1>2 DEF Submit, Stages
<1>4. CASE UNCHANGED exec /\ (Untouched \/ Record(modal.quote, Retired(modal.quote)))
  <2>1. exec' \in [Slots -> Execs] /\ exec'[s].pc \in Quiet /\ exec'[s].pc = "idle" /\ ~Relays(s)
    BY <1>4 DEF Submit, Idle, IInv, TypeOK, PCs, Quiet, Relays
  <2>2. \A r \in Slots \ {s} : exec'[r] = exec[r] BY <1>4
  <2>3. CASE Untouched
    BY <1>3, <2>1, <2>2, <2>3, AttemptsKept, QuietSteps DEF Submit
  <2>4. CASE Record(modal.quote, Retired(modal.quote))
    BY <1>1, <1>3, <2>1, <2>2, <2>4, AttemptsRetired, QuietSteps DEF Submit
  <2>5. QED BY <1>4, <2>3, <2>4
<1>5. CASE /\ exec' = [exec EXCEPT ![s] = [pc |-> "unlock", quote |-> modal.quote, screen |-> TRUE]]
           /\ Untouched
  <2>1. [pc |-> "unlock", quote |-> modal.quote, screen |-> TRUE] \in Execs
    BY <1>1 DEF Execs, MaybeQuotes
  <2>2. /\ exec' \in [Slots -> Execs]
        /\ exec'[s].pc = "unlock" /\ exec'[s].quote = modal.quote
        /\ \A r \in Slots \ {s} : exec'[r] = exec[r]
    BY <1>5, <2>1 DEF IInv, TypeOK
  <2>3. exec'[s].pc \in Quiet /\ ~Relays(s) BY <2>2 DEF PCs, Quiet, Relays, Submit, Idle
  <2>4. QED BY <1>1, <1>3, <1>5, <2>2, <2>3, AttemptsKept, QuietSteps DEF Submit
<1>6. QED BY <1>4, <1>5 DEF Submit, Untouched

LEMMA EndsQuietly ==
    ASSUME IInv, NEW s \in Slots, ~Relays(s), NEW stage \in Stages, Show(s, stage), Ends(s),
           \/ Untouched
           \/ exec[s].quote \in Quotes \ gone /\ Record(exec[s].quote, Retired(exec[s].quote)),
           UNCHANGED <<gone, form, sent, over>>
    PROVE  IInv'
<1>1. /\ exec' \in [Slots -> Execs]
      /\ exec'[s].pc = "idle"
      /\ \A r \in Slots \ {s} : exec'[r] = exec[r]
  BY EndsValues DEF IInv
<1>2. exec'[s].pc \in Quiet BY <1>1 DEF PCs, Quiet
<1>3. modal' \in Modals /\ modal'.quote = modal.quote BY ShowKeeps DEF IInv
<1>4. CASE Untouched BY <1>1, <1>2, <1>3, <1>4, AttemptsKept, QuietSteps
<1>5. CASE exec[s].quote \in Quotes \ gone /\ Record(exec[s].quote, Retired(exec[s].quote))
  BY <1>1, <1>2, <1>3, <1>5, AttemptsRetired, QuietSteps
<1>6. QED BY <1>4, <1>5

LEMMA FailsInductive == ASSUME IInv, NEW s \in Slots, Fails(s) PROVE IInv'
<1>1. exec[s].quote \in Quotes \ gone BY DEF Fails, IInv, LiveQuotes
<1>2. "error" \in Stages BY DEF Stages
<1>3. QED BY <1>1, <1>2, EndsQuietly DEF Fails, Relays

LEMMA WrongPasswordInductive == ASSUME IInv, NEW s \in Slots, WrongPassword(s) PROVE IInv'
<1>1. "review" \in Stages BY DEF Stages
<1>2. QED BY <1>1, EndsQuietly DEF WrongPassword, Untouched, Relays

LEMMA FollowedInductive == ASSUME IInv, NEW s \in Slots, Followed(s) PROVE IInv'
<1>1. modal' \in Modals /\ modal'.quote = modal.quote
  <2>1. "done" \in Stages BY DEF Stages
  <2>2. CASE Show(s, "done") BY <2>1, <2>2, ShowKeeps DEF IInv
  <2>3. CASE UNCHANGED modal BY <2>3 DEF IInv, TypeOK
  <2>4. QED BY <2>2, <2>3 DEF Followed
<1>2. /\ exec' \in [Slots -> Execs]
      /\ exec'[s].pc = "idle"
      /\ \A r \in Slots \ {s} : exec'[r] = exec[r]
  BY EndsValues DEF Followed, IInv
<1>3. exec'[s].pc \in Quiet /\ ~Relays(s) BY <1>2 DEF PCs, Quiet, Followed, Relays
<1>4. Untouched BY DEF Followed, Untouched
<1>5. QED BY <1>1, <1>2, <1>3, <1>4, AttemptsKept, QuietSteps DEF Followed

LEMMA RecordedInductive == ASSUME IInv, NEW s \in Slots, Recorded(s) PROVE IInv'
<1>1. exec[s].pc # "idle" /\ exec[s].quote \in Quotes \ gone
  BY DEF Recorded, IInv, LiveQuotes
<1>2. /\ exec' \in [Slots -> Execs]
      /\ exec'[s].pc = "follow" /\ exec'[s].quote = exec[s].quote
      /\ \A r \in Slots \ {s} : exec'[r] = exec[r]
  <2>1. "follow" \in PCs BY DEF PCs
  <2>2. QED BY <2>1, BecomesValues DEF Recorded, IInv
<1>3. exec'[s].pc \in Quiet /\ ~Relays(s) BY <1>2 DEF PCs, Quiet, Recorded, Relays
<1>4. modal' \in Modals /\ modal'.quote = modal.quote
  <2>1. "unknown" \in Stages /\ "pending" \in Stages BY DEF Stages
  <2>2. CASE Show(s, "unknown") BY <2>1, <2>2, ShowKeeps DEF IInv
  <2>3. CASE modal' = IF exec[s].screen /\ Busy THEN Stage("pending") ELSE modal
    <3>1. Busy => IsOpen BY DEF Busy, IsOpen
    <3>2. QED BY <2>1, <2>3, <3>1, EmptyValues DEF IInv, TypeOK, Stage, Modals
  <2>4. QED BY <2>2, <2>3 DEF Recorded
<1>5. Untouched BY DEF Recorded, Untouched
<1>6. QED BY <1>1, <1>2, <1>3, <1>4, <1>5, AttemptsKept, QuietSteps DEF Recorded

\* The claim: nobody else signs for a quote the table does not know.
LEMMA ClaimInductive == ASSUME IInv, NEW s \in Slots, Claim(s) PROVE IInv'
<1> DEFINE q == exec[s].quote
<1>1. q \in Quotes \ gone BY DEF Claim, IInv, LiveQuotes
<1>2. CASE Used(q) /\ Show(s, "used") /\ Ends(s) /\ UNCHANGED attempts
  <2>1. "used" \in Stages BY DEF Stages
  <2>2. QED BY <1>2, <2>1, EndsQuietly DEF Claim, Untouched, Relays
<1>3. CASE ~Used(q) /\ Record(q, "claimed") /\ Becomes(s, "sign") /\ UNCHANGED modal
  <2>1. /\ exec' \in [Slots -> Execs]
        /\ exec'[s].pc = "sign" /\ exec'[s].quote = q
        /\ \A r \in Slots \ {s} : exec'[r] = exec[r]
    <3>1. "sign" \in PCs BY DEF PCs
    <3>2. QED BY <1>3, <3>1, BecomesValues DEF IInv
  <2>2. /\ attempts' \in [Quotes -> States]
        /\ attempts'[q] = "claimed"
        /\ \A r \in Quotes \ {q} : attempts'[r] = attempts[r]
    <3>1. "claimed" \in States BY DEF States
    <3>2. QED BY <1>1, <1>3, <3>1, RecordValues DEF IInv
  <2>3. attempts[q] = "none" BY <1>3 DEF Used
  <2>4. \A r \in Slots : Signs(r) => exec[r].quote # q /\ exec[r].quote \in Quotes
    BY <2>3 DEF IInv, SignerIsClaimed, LiveQuotes, Signs
  <2>5. TypeOK' BY <1>3, <2>1, <2>2 DEF Claim, IInv, TypeOK
  <2>6. LiveQuotes' BY <1>1, <1>3, <2>1, <2>2 DEF Claim, IInv, LiveQuotes, TypeOK
  <2>7. OneSigner' BY <2>1, <2>4 DEF IInv, OneSigner, Signs
  <2>8. SignerIsClaimed' BY <2>1, <2>2, <2>4 DEF IInv, SignerIsClaimed, Signs
  <2>9. \A r \in Slots : (Relays(r)' <=> Relays(r)) /\ (Relays(r) => exec'[r] = exec[r])
    BY <2>1 DEF Claim, Relays
  <2>10. RelayedIsOut' BY <2>9 DEF Claim, IInv, RelayedIsOut
  <2>11. Unpaid' BY <2>2, <2>3, <2>9 DEF Claim, IInv, Unpaid, Relayed
  <2>12. PaidOnce' BY DEF Claim, IInv, PaidOnce
  <2>13. QED BY <2>5, <2>6, <2>7, <2>8, <2>10, <2>11, <2>12 DEF IInv
<1>4. QED BY <1>2, <1>3 DEF Claim

\* A deposit at "sign" is the quote's first.
LEMMA SignerIsUnpaid ==
    ASSUME IInv, NEW s \in Slots, exec[s].pc = "sign"
    PROVE  exec[s].quote \in Quotes \ gone /\ sent[exec[s].quote] = 0
<1>1. exec[s].quote \in Quotes \ gone BY DEF IInv, LiveQuotes
<1>2. ~Relayed(exec[s].quote) BY DEF Relayed, Relays, Signs, IInv, OneSigner
<1>3. attempts[exec[s].quote] \in {"claimed", "retired"} BY DEF IInv, SignerIsClaimed, Signs
<1>4. QED BY <1>1, <1>2, <1>3 DEF IInv, Unpaid

LEMMA BroadcastInductive == ASSUME IInv, NEW s \in Slots, Broadcast(s) PROVE IInv'
<1> DEFINE q == exec[s].quote
<1>1. q \in Quotes \ gone /\ sent[q] = 0 BY SignerIsUnpaid DEF Broadcast
<1>2. /\ exec' \in [Slots -> Execs]
      /\ exec'[s].pc = "relay" /\ exec'[s].quote = q
      /\ \A r \in Slots \ {s} : exec'[r] = exec[r]
  <2>1. "relay" \in PCs BY DEF PCs
  <2>2. QED BY <2>1, BecomesValues DEF Broadcast, IInv
<1>3. sent' \in [Quotes -> Nat] /\ sent'[q] = 1 /\ \A r \in Quotes \ {q} : sent'[r] = sent[r]
  BY <1>1 DEF Broadcast, IInv, TypeOK
<1>4. TypeOK' BY <1>2, <1>3 DEF Broadcast, IInv, TypeOK
<1>5. LiveQuotes' BY <1>1, <1>2 DEF Broadcast, IInv, LiveQuotes
<1>6. \A r \in Slots : exec'[r].quote = exec[r].quote /\ (Signs(r)' <=> Signs(r))
  BY <1>2 DEF Broadcast, Signs
<1>7. OneSigner' /\ SignerIsClaimed'
  BY <1>6 DEF Broadcast, IInv, OneSigner, SignerIsClaimed
<1>8. RelayedIsOut'
  <2>1. SUFFICES ASSUME NEW r \in Slots, Relays(r)' PROVE sent'[exec'[r].quote] = 1
    BY DEF RelayedIsOut
  <2>2. CASE r = s BY <1>2, <1>3, <2>2
  <2>3. CASE r # s
    <3>1. Relays(r) /\ exec'[r] = exec[r] BY <1>2, <2>1, <2>3 DEF Relays
    <3>2. exec[r].quote \in Quotes \ {q}
      BY <2>3, <3>1 DEF Broadcast, Relays, Signs, IInv, OneSigner, LiveQuotes
    <3>3. QED BY <1>3, <3>1, <3>2 DEF IInv, RelayedIsOut
  <2>4. QED BY <2>2, <2>3
<1>9. Unpaid'
  <2>1. \A p \in Quotes : p = q => Relayed(p)' BY <1>2 DEF Relayed, Relays
  <2>2. \A p \in Quotes : Relayed(p) => Relayed(p)' BY <1>2 DEF Relayed, Relays, Broadcast
  <2>3. SUFFICES ASSUME NEW p \in Quotes \ gone
                 PROVE  sent'[p] = 0 \/ attempts[p] \in {"broadcast", "unknown"} \/ Relayed(p)'
    BY DEF Broadcast, Unpaid
  <2>4. sent[p] = 0 \/ attempts[p] \in {"broadcast", "unknown"} \/ Relayed(p)
    BY DEF IInv, Unpaid
  <2>5. QED BY <1>3, <2>1, <2>2, <2>4
<1>10. PaidOnce' BY <1>3 DEF IInv, PaidOnce, TypeOK
<1>11. QED BY <1>4, <1>5, <1>7, <1>8, <1>9, <1>10 DEF IInv

LEMMA HashKnownInductive == ASSUME IInv, NEW s \in Slots, HashKnown(s) PROVE IInv'
BY ReportingSteps DEF HashKnown, Signs

LEMMA OutcomeUnknownInductive == ASSUME IInv, NEW s \in Slots, OutcomeUnknown(s) PROVE IInv'
BY ReportingSteps DEF OutcomeUnknown, Signs

\* IInv is an invariant: quotes, modals, claims, payments and restarts.
THEOREM DepositInductive == Spec => []IInv
<1>1. Init => IInv
  BY DepositConstants, EmptyValues
  DEF Init, IInv, TypeOK, LiveQuotes, OneSigner, SignerIsClaimed, RelayedIsOut, Signs, Relays,
      Unpaid, PaidOnce, MaybeQuotes, Modals, Closed, States, NoExec, Execs
<1>2. IInv /\ [Next]_vars => IInv'
  <2>1. SUFFICES ASSUME IInv, [Next]_vars PROVE IInv' OBVIOUS
  <2>2. CASE \E q \in MaybeQuotes : Land(q) BY <2>1, <2>2, LandInductive
  <2>3. CASE Open BY <2>1, <2>3, OpenInductive
  <2>4. CASE Close BY <2>1, <2>4, CloseInductive
  <2>5. CASE SwitchLayout BY <2>1, <2>5, SwitchLayoutInductive
  <2>6. CASE Restart BY <2>1, <2>6, RestartInductive
  <2>7. CASE \E s \in Slots : Step(s)
    <3>1. PICK s \in Slots : Step(s) BY <2>7
    <3>2. QED
      BY <2>1, <3>1, SubmitInductive, WrongPasswordInductive, FailsInductive, ClaimInductive,
         BroadcastInductive, HashKnownInductive, OutcomeUnknownInductive, RecordedInductive,
         FollowedInductive
      DEF Step
  <2>8. CASE \E q \in Quotes : Decide(q) BY <2>1, <2>8, DecideInductive
  <2>9. CASE UNCHANGED vars
    BY <2>1, <2>9 DEF vars, IInv, TypeOK, LiveQuotes, OneSigner, SignerIsClaimed, RelayedIsOut,
       Signs, Relays, Unpaid, Relayed, PaidOnce
  <2>10. QED BY <2>1, <2>2, <2>3, <2>4, <2>5, <2>6, <2>7, <2>8, <2>9 DEF Next
<1>3. QED BY <1>1, <1>2, PTL DEF Spec

\* The variables keep their types; a closed modal is on no quote.
THEOREM DepositTypeCorrect == Spec => []TypeOK
<1>1. IInv => TypeOK BY DEF IInv
<1>2. QED BY <1>1, DepositInductive, PTL

\* No quote is paid twice, whatever is retried, reopened, repeated or restarted.
THEOREM QuotesArePaidOnce == Spec => []PaidOnce
<1>1. IInv => PaidOnce BY DEF IInv
<1>2. QED BY <1>1, DepositInductive, PTL

\* A quote the form or the modal still lets the user deposit for has no deposit,
\* and no submission is on its way to one.
THEOREM OfferedQuotesAreUntouched == Spec => []OfferedIsUntouched
<1>1. ASSUME IInv PROVE OfferedIsUntouched
  <2>1. SUFFICES ASSUME NEW q \in {form, modal.quote} \ {None}, ~Used(q)
                 PROVE  sent[q] = 0 /\ \A s \in Slots : ~Depositing(s, q)
    BY DEF OfferedIsUntouched
  <2>2. modal.quote \in MaybeQuotes
    BY <1>1 DEF IInv, TypeOK, Modals, Closed, MaybeQuotes
  <2>3. q \in Quotes \ gone
    BY <1>1, <2>2 DEF IInv, TypeOK, LiveQuotes, MaybeQuotes
  <2>4. \A s \in Slots : ~Depositing(s, q)
    BY <1>1, <2>1 DEF IInv, SignerIsClaimed, Signs, Depositing, Used
  <2>5. ~Relayed(q) BY <2>4 DEF Relayed, Relays, Depositing
  <2>6. sent[q] = 0 BY <1>1, <2>1, <2>3, <2>5 DEF IInv, Unpaid, Used
  <2>7. QED BY <2>4, <2>6
<1>2. QED BY <1>1, DepositInductive, PTL

-----------------------------------------------------------------------------
(* The refinement of Payments.                                             *)

promised == <<[q \in Quotes |-> Told(q)], sent, [q \in Quotes |-> 0]>>

Signed(q) == \E s \in Slots : Signs(s) /\ exec[s].quote = q

\* What is told of a quote, by cases.
LEMMA ToldValues ==
    ASSUME TypeOK, NEW q \in Quotes
    PROVE  /\ q \in gone => Told(q) = "forgotten"
           /\ q \notin gone /\ Signed(q) => Told(q) = "open"
           /\ q \notin gone /\ ~Signed(q) =>
                /\ attempts[q] = "none" <=> Told(q) = "nothing"
                /\ attempts[q] = "claimed" <=> Told(q) = "open"
                /\ attempts[q] = "broadcast" <=> Told(q) = "paid"
                /\ attempts[q] = "unknown" <=> Told(q) = "unknown"
                /\ attempts[q] = "retired" <=> Told(q) = "unpaid"
<1>1. attempts[q] \in States BY DEF TypeOK
<1>2. /\ attempts[q] = "none" <=> Entry(q) = "nothing"
      /\ attempts[q] = "claimed" <=> Entry(q) = "open"
      /\ attempts[q] = "broadcast" <=> Entry(q) = "paid"
      /\ attempts[q] = "unknown" <=> Entry(q) = "unknown"
      /\ attempts[q] = "retired" <=> Entry(q) = "unpaid"
  BY <1>1 DEF Entry, States
<1>3. Signed(q) <=> (\E s \in Slots : Depositing(s, q)) BY DEF Signed, Signs, Depositing
<1>4. QED BY <1>2, <1>3 DEF Told

\* A quote whose entry and signers stay is told of as before.
LEMMA ToldKept ==
    ASSUME NEW q \in Quotes, gone' = gone, attempts'[q] = attempts[q], Signed(q)' <=> Signed(q)
    PROVE  Told(q)' = Told(q)
BY DEF Told, Entry, Depositing, Signed, Signs

\* Steps that record nothing, pay nothing and sign nothing.
LEMMA NothingTold ==
    ASSUME UNCHANGED <<gone, attempts, sent>>,
           \A s \in Slots : Signs(s)' <=> Signs(s),
           \A s \in Slots : Signs(s) => exec'[s].quote = exec[s].quote
    PROVE  UNCHANGED promised
<1>1. \A q \in Quotes : Signed(q)' <=> Signed(q) BY DEF Signed
<1>2. \A q \in Quotes : Told(q)' = Told(q) BY <1>1, ToldKept
<1>3. QED BY <1>2 DEF promised

\* A quote that is retired is reported unpaid, unless another submission signs
\* for it or it was paid.
LEMMA RetiringReports ==
    ASSUME IInv, IInv', NEW s \in Slots, NEW p \in Quotes \ gone,
           Record(p, Retired(p)), ~Relays(s), ~Signs(s)', Signs(s) => exec[s].quote = p,
           \A r \in Slots \ {s} : exec'[r] = exec[r],
           UNCHANGED <<gone, sent>>
    PROVE  Promise!Report(p) \/ UNCHANGED promised
<1>1. Retired(p) \in States BY RetiredValues DEF IInv
<1>2. attempts'[p] = Retired(p) /\ \A q \in Quotes \ {p} : attempts'[q] = attempts[q]
  BY <1>1, RecordValues DEF IInv
<1>3. \A q \in Quotes \ {p} : Told(q)' = Told(q)
  <2>1. \A q \in Quotes \ {p} : Signed(q)' <=> Signed(q) BY DEF Signed, Signs
  <2>2. QED BY <1>2, <2>1, ToldKept
<1>4. CASE Told(p)' = Told(p) BY <1>3, <1>4 DEF promised
<1>5. CASE Told(p)' # Told(p)
  <2>1. attempts[p] \notin {"broadcast", "unknown"}
    <3>1. SUFFICES ASSUME attempts[p] \in {"broadcast", "unknown"} PROVE FALSE OBVIOUS
    <3>2. attempts'[p] = attempts[p] BY <1>2, <3>1 DEF Retired
    <3>3. ~Signed(p) BY <3>1 DEF IInv, SignerIsClaimed, Signed
    <3>4. ~Signed(p)' BY <3>3 DEF Signed, Signs
    <3>5. QED BY <1>5, <3>2, <3>3, <3>4, ToldKept
  <2>2. attempts'[p] = "retired" BY <1>2, <2>1 DEF Retired
  <2>3. ~Signed(p)'
    <3>1. SUFFICES ASSUME Signed(p)' PROVE FALSE OBVIOUS
    <3>2. Signed(p) BY <3>1 DEF Signed, Signs
    <3>3. Told(p) = "open" BY <3>2, ToldValues DEF IInv
    <3>4. Told(p)' = "open" BY <3>1 DEF Told, Depositing, Signed, Signs
    <3>5. QED BY <1>5, <3>3, <3>4
  <2>4. Told(p)' = "unpaid"
    BY <2>2, <2>3 DEF Told, Entry, Depositing, Signed, Signs
  <2>5. sent[p] = 0
    <3>1. ~Relayed(p)
      BY <2>3 DEF Relayed, Signed, Signs, Relays
    <3>2. QED BY <2>1, <3>1 DEF IInv, Unpaid
  <2>6. Told(p) \in {"nothing", "open"}
    BY <1>5, <2>1, <2>4, ToldValues DEF IInv, TypeOK, States
  <2>7. [q \in Quotes |-> Told(q)]' = [[q \in Quotes |-> Told(q)] EXCEPT ![p] = "unpaid"]
    BY <1>3, <2>4
  <2>8. /\ [q \in Quotes |-> Told(q)][p] \in {"nothing", "open"}
        /\ sent[p] <= [q \in Quotes |-> 0][p]
        /\ "unpaid" \in Promise!Reports \ {"open", "forgotten"}
    BY <2>5, <2>6 DEF Promise!Reports
  <2>9. UNCHANGED <<sent, [q \in Quotes |-> 0]>> OBVIOUS
  <2>10. QED BY <2>7, <2>8, <2>9 DEF Promise!Report
<1>6. QED BY <1>4, <1>5

\* A claim starts a payment.
LEMMA ClaimStarts ==
    ASSUME IInv, NEW s \in Slots, Claim(s)
    PROVE  (\E q \in Quotes : Promise!Start(q)) \/ UNCHANGED promised
<1>1. PICK q \in Quotes \ gone : q = exec[s].quote BY DEF Claim, IInv, LiveQuotes
<1>2. CASE Ends(s) /\ UNCHANGED attempts
  <2>1. /\ ~Signs(s) /\ ~Signs(s)'
        /\ \A r \in Slots \ {s} : exec'[r] = exec[r]
    BY <1>2, EndsValues DEF Claim, IInv, Signs
  <2>2. QED BY <1>2, <2>1, NothingTold DEF Claim, Signs
<1>3. CASE ~Used(q) /\ Record(q, "claimed") /\ Becomes(s, "sign")
  <2>1. /\ exec'[s].pc = "sign" /\ exec'[s].quote = q
        /\ \A r \in Slots \ {s} : exec'[r] = exec[r]
    <3>1. "sign" \in PCs BY DEF PCs
    <3>2. QED BY <1>1, <1>3, <3>1, BecomesValues DEF IInv
  <2>2. \A p \in Quotes \ {q} : attempts'[p] = attempts[p]
    BY <1>3 DEF Record, IInv, TypeOK
  <2>3. attempts[q] = "none" BY <1>3 DEF Used
  <2>4. \A p \in Quotes \ {q} : Signed(p)' <=> Signed(p)
    BY <1>1, <2>1 DEF Signed, Signs, Claim
  <2>5. \A p \in Quotes \ {q} : Told(p)' = Told(p) BY <2>2, <2>4, ToldKept DEF Claim
  <2>6. ~Signed(q) BY <2>3 DEF IInv, SignerIsClaimed, Signed
  <2>7. Told(q) = "nothing" BY <1>1, <2>3, <2>6, ToldValues DEF IInv
  <2>8. Told(q)' = "open" BY <1>1, <2>1, ToldValues DEF Told, Depositing, Claim
  <2>9. sent[q] = 0
    <3>1. ~Relayed(q) BY <2>6 DEF Relayed, Relays, Signed, Signs
    <3>2. QED BY <1>1, <2>3, <3>1 DEF IInv, Unpaid
  <2>10. [p \in Quotes |-> Told(p)]' = [[p \in Quotes |-> Told(p)] EXCEPT ![q] = "open"]
    BY <2>5, <2>8
  <2>11. /\ [p \in Quotes |-> Told(p)][q] = "nothing"
         /\ sent[q] <= [p \in Quotes |-> 0][q]
         /\ [p \in Quotes |-> {}][q] = {}
    BY <2>7, <2>9
  <2>12. UNCHANGED <<sent, [p \in Quotes |-> 0]>> BY DEF Claim
  <2>13. QED BY <2>10, <2>11, <2>12 DEF Promise!Start
<1>4. QED BY <1>1, <1>2, <1>3 DEF Claim

\* The network takes a deposit: its quote is open, and it is the first.
LEMMA DepositPays ==
    ASSUME IInv, NEW s \in Slots, Broadcast(s)
    PROVE  \E q \in Quotes : Promise!Pay(q)
<1>1. PICK q \in Quotes \ gone : q = exec[s].quote /\ sent[q] = 0
  BY SignerIsUnpaid DEF Broadcast
<1>2. \A p \in Quotes : Signed(p)' <=> Signed(p)
  <2>1. "relay" \in PCs BY DEF PCs
  <2>2. \A r \in Slots : exec'[r].quote = exec[r].quote /\ (Signs(r)' <=> Signs(r))
    BY <2>1, BecomesValues DEF Broadcast, IInv, Signs
  <2>3. QED BY <2>2 DEF Signed
<1>3. \A p \in Quotes : Told(p)' = Told(p) BY <1>2, ToldKept DEF Broadcast
<1>4. Told(q) = "open" BY <1>1, ToldValues DEF Broadcast, IInv, Signed, Signs
<1>5. [p \in Quotes |-> Told(p)]' = [p \in Quotes |-> Told(p)] BY <1>3
<1>6. /\ [p \in Quotes |-> Told(p)][q] = "open"
      /\ sent[q] <= [p \in Quotes |-> 0][q]
  BY <1>1, <1>4
<1>7. sent' = [sent EXCEPT ![q] = @ + 1] BY <1>1 DEF Broadcast
<1>8. UNCHANGED [p \in Quotes |-> 0] OBVIOUS
<1>9. Promise!Pay(q) BY <1>5, <1>6, <1>7, <1>8 DEF Promise!Pay
<1>10. QED BY <1>1, <1>9

\* What became of the deposit is reported: its hash, once the network took it, or
\* that nobody knows.
LEMMA DepositReports ==
    ASSUME IInv, NEW s \in Slots, Signs(s), NEW state, NEW pc \in Quiet,
           (state = "broadcast" /\ Relays(s)) \/ state = "unknown",
           Record(exec[s].quote, state), Becomes(s, pc), UNCHANGED <<gone, sent>>
    PROVE  \E q \in Quotes : Promise!Report(q)
<1> DEFINE told == IF state = "broadcast" THEN "paid" ELSE "unknown"
<1>1. PICK q \in Quotes \ gone : q = exec[s].quote BY DEF Signs, IInv, LiveQuotes
<1>2. /\ exec'[s].pc = pc /\ \A r \in Slots \ {s} : exec'[r] = exec[r]
  BY BecomesValues DEF IInv, Quiet
<1>3. /\ attempts'[q] = state
      /\ \A p \in Quotes \ {q} : attempts'[p] = attempts[p]
  BY <1>1 DEF Record, IInv, TypeOK
<1>4. ~Signs(s)' BY <1>2 DEF Signs, Quiet
<1>5. \A p \in Quotes \ {q} : Signed(p)' <=> Signed(p)
  BY <1>1, <1>2, <1>4 DEF Signed, Signs
<1>6. \A p \in Quotes \ {q} : Told(p)' = Told(p) BY <1>3, <1>5, ToldKept
<1>7. Told(q) = "open" BY <1>1, ToldValues DEF IInv, Signed
<1>8. ~Signed(q)' BY <1>1, <1>2, <1>4 DEF IInv, OneSigner, Signed, Signs
<1>9. Told(q)' = told BY <1>1, <1>3, <1>8 DEF Told, Entry, Depositing, Signed, Signs
<1>10. [p \in Quotes |-> Told(p)]' = [[p \in Quotes |-> Told(p)] EXCEPT ![q] = told]
  BY <1>6, <1>9
<1>11. /\ told \in {"paid", "unknown"}
       /\ told = "paid" => sent[q] > 0
  BY <1>1 DEF IInv, RelayedIsOut
<1>12. Promise!Report(q)
  BY <1>1, <1>7, <1>10, <1>11 DEF Promise!Report, Promise!Reports, Promise!Unpaid
<1>13. QED BY <1>1, <1>12

\* A restart forgets the quotes that were begun, and they are not offered again.
LEMMA RestartForgets == ASSUME IInv, Restart PROVE Promise!Forget
<1> DEFINE begun == {q \in Quotes : Used(q)}
<1>1. \A q \in Quotes : ~Signed(q)' BY DEF Restart, Signed, Signs, NoExec
<1>2. \A q \in Quotes : Signed(q) => Used(q)
  BY DEF Signed, IInv, SignerIsClaimed, Used
<1>3. \A q \in begun : Told(q)' = "forgotten" /\ Told(q) # "nothing"
  BY ToldValues DEF Restart, Told, IInv, LiveQuotes, Used
<1>4. \A q \in Quotes \ begun : Told(q)' = Told(q)
  <2>1. SUFFICES ASSUME NEW q \in Quotes \ begun PROVE Told(q)' = Told(q) OBVIOUS
  <2>2. CASE q \in gone BY <2>2 DEF Told, Restart
  <2>3. CASE q \notin gone
    <3>1. q \notin gone' /\ attempts'[q] = "none" BY <2>3 DEF Restart
    <3>2. Told(q)' = "nothing" BY <1>1, <3>1 DEF Told, Entry, Depositing, Signed, Signs
    <3>3. attempts[q] = "none" BY DEF Used
    <3>4. QED BY <1>2, <2>3, <3>2, <3>3, ToldValues DEF IInv
  <2>4. QED BY <2>2, <2>3
<1>5. [q \in Quotes |-> Told(q)]'
        = [q \in Quotes |-> IF q \in begun THEN "forgotten" ELSE [p \in Quotes |-> Told(p)][q]]
  BY <1>3, <1>4
<1>6. begun \in SUBSET {q \in Quotes : [p \in Quotes |-> Told(p)][q] # "nothing"}
  BY <1>3
<1>7. QED BY <1>5, <1>6 DEF Promise!Forget, Restart

\* A submission's step reports, starts or pays, or is nothing to the promise.
LEMMA SubmissionsPay ==
    ASSUME IInv, IInv', NEW s \in Slots, Step(s)
    PROVE  (\E q \in Quotes : Promise!Start(q) \/ Promise!Report(q) \/ Promise!Pay(q))
             \/ UNCHANGED promised
<1>1. CASE Submit(s)
  <2>1. modal.quote \in Quotes \ gone
    BY <1>1, EmptyValues DEF Submit, IInv, IsOpen, LiveQuotes
  <2>2. CASE UNCHANGED <<attempts, exec>>
    BY <1>1, <2>2, NothingTold DEF Submit, Signs
  <2>3. CASE Record(modal.quote, Retired(modal.quote)) /\ UNCHANGED exec
    BY <1>1, <2>1, <2>3, RetiringReports DEF Submit, Idle, Signs, Relays
  <2>4. CASE /\ exec' = [exec EXCEPT ![s] = [pc |-> "unlock", quote |-> modal.quote, screen |-> TRUE]]
             /\ UNCHANGED attempts
    <3>1. ~Signs(s) /\ ~Signs(s)' /\ \A r \in Slots \ {s} : exec'[r] = exec[r]
      BY <1>1, <2>4 DEF Submit, Idle, Signs, IInv, TypeOK
    <3>2. QED BY <1>1, <2>4, <3>1, NothingTold DEF Submit, Signs
  <2>5. QED BY <1>1, <2>2, <2>3, <2>4 DEF Submit
<1>2. CASE WrongPassword(s) \/ Followed(s)
  <2>1. ~Signs(s) /\ ~Signs(s)' /\ \A r \in Slots \ {s} : exec'[r] = exec[r]
    BY <1>2, EndsValues DEF WrongPassword, Followed, Signs, IInv
  <2>2. QED BY <1>2, <2>1, NothingTold DEF WrongPassword, Followed, Signs
<1>3. CASE Fails(s)
  <2>1. ~Relays(s) /\ exec[s].quote \in Quotes \ gone BY <1>3 DEF Fails, IInv, LiveQuotes, Relays
  <2>2. ~Signs(s)' /\ \A r \in Slots \ {s} : exec'[r] = exec[r]
    BY <1>3, EndsValues DEF Fails, Signs, IInv
  <2>3. QED BY <1>3, <2>1, <2>2, RetiringReports DEF Fails
<1>4. CASE Claim(s) BY <1>4, ClaimStarts
<1>5. CASE Broadcast(s) BY <1>5, DepositPays
<1>6. CASE HashKnown(s) \/ OutcomeUnknown(s)
  <2>1. {"record", "recordUnknown"} \subseteq Quiet BY DEF PCs, Quiet
  <2>2. QED BY <1>6, <2>1, DepositReports DEF HashKnown, OutcomeUnknown, Signs, Relays
<1>7. CASE Recorded(s)
  <2>1. "follow" \in PCs BY DEF PCs
  <2>2. exec'[s].pc = "follow" /\ \A r \in Slots \ {s} : exec'[r] = exec[r]
    BY <1>7, <2>1, BecomesValues DEF Recorded, IInv
  <2>3. ~Signs(s) /\ ~Signs(s)' BY <1>7, <2>2 DEF Recorded, Signs
  <2>4. QED BY <1>7, <2>2, <2>3, NothingTold DEF Recorded, Signs
<1>8. QED BY <1>1, <1>2, <1>3, <1>4, <1>5, <1>6, <1>7 DEF Step

\* The form, the modal, the table and the submissions implement the abstract
\* payments, over overlapping submissions and restarts.
THEOREM DepositsArePayments == Spec => ImplementsPayments
<1>1. Init => Promise!Init
  <2>1. SUFFICES ASSUME Init PROVE Promise!Init OBVIOUS
  <2>2. \A q \in Quotes : Told(q) = "nothing"
    BY <2>1 DEF Init, Told, Entry, Depositing, NoExec
  <2>3. QED BY <2>1, <2>2 DEF Init, Promise!Init
<1>2. ASSUME IInv, IInv', [Next]_vars PROVE [Promise!Next]_promised
  <2>1. CASE \E q \in MaybeQuotes : Land(q)
    <3>1. SameSubmissions BY <1>2, <2>1, ScreensKeep DEF Land, IInv, IsOpen
    <3>2. QED BY <2>1, <3>1, NothingTold DEF Land, SameSubmissions, Signs
  <2>2. CASE Close
    <3>1. SameSubmissions BY <1>2, <2>2, ScreensKeep DEF Close, IInv
    <3>2. QED BY <2>2, <3>1, NothingTold DEF Close, SameSubmissions, Signs
  <2>3. CASE SwitchLayout
    <3>1. SameSubmissions BY <1>2, <2>3, ScreensKeep DEF SwitchLayout, IInv
    <3>2. QED BY <2>3, <3>1, NothingTold DEF SwitchLayout, SameSubmissions, Signs
  <2>4. CASE Restart BY <1>2, <2>4, RestartForgets DEF Promise!Next
  <2>5. CASE \E s \in Slots : Step(s)
    BY <1>2, <2>5, SubmissionsPay DEF Promise!Next
  <2>6. CASE Open \/ (\E q \in Quotes : Decide(q)) \/ UNCHANGED vars
    BY <2>6, NothingTold DEF Open, Decide, vars, Signs
  <2>7. QED BY <1>2, <2>1, <2>2, <2>3, <2>4, <2>5, <2>6 DEF Next
<1>3. QED BY <1>1, <1>2, DepositInductive, PTL DEF Spec, ImplementsPayments, Promise!Spec, promised
=============================================================================
