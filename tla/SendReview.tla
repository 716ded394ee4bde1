---------------------------- MODULE SendReview ----------------------------
(***************************************************************************)
(* One opening of the Send modal on a chain whose fee is quoted: the quote *)
(* controller, the React effects that feed it, the one wallet call it may  *)
(* have running, and the press that hands a quote to the send.             *)
(*                                                                         *)
(* "auto" (Xelis): an estimate, priced by a timer, and the send builds its *)
(* own transaction.  "on-request" (Monero, Zephyr): a quote is the signed  *)
(* spend itself; Review builds it and Confirm relays it.                   *)
(*                                                                         *)
(* The generation counter of the code is only ever compared with the one a *)
(* running call started under: here the call carries "current", cleared    *)
(* where the code bumps the counter.                                       *)
(***************************************************************************)
EXTENDS Naturals

CONSTANTS
    Inputs,    \* what the form can hold: recipient, amount and asset
    None       \* a form with nothing quotable in it; no quote, no call

ASSUME ReviewConstants == None \notin Inputs

VARIABLES
    mode,      \* quoteModeFor(adapter)
    open,      \* the modal is mounted, its controller not disposed
    form,      \* what the form holds
    given,     \* what the effect last gave to setInputs
    snap,      \* the controller's snapshot, which the modal renders
    timer,     \* the one timer is armed
    flight,    \* the wallet call running
    rerun,     \* another build is wanted when that call ends
    lastBuild, \* "on-request": the build kept for another review
    sending,   \* "no", or what handleSend is awaiting
    order,     \* what was handed to the send: the form and the quote, at the press
    tried,     \* history: the builds handed to a send
    asked,     \* history: Review was pressed for the inputs that stand
    previous   \* history: the inputs of the latest good build not handed to a send

controller == <<snap, timer, flight, rerun, lastBuild>>
history == <<tried, asked, previous>>
vars == <<mode, open, form, given, controller, sending, order, history>>

Modes == {"auto", "on-request"}
MaybeInputs == Inputs \cup {None}

\* Four builds at most are held at a time; a new one takes a number not held.
Builds == 1 .. 5
NoBuild == 0

NoQuote == [build |-> NoBuild, inputs |-> None]
Quotes == {NoQuote} \cup [build : Builds, inputs : Inputs]

Snapshots == [inputs : MaybeInputs, quote : Quotes, failed : BOOLEAN, pending : BOOLEAN]
Empty == [inputs |-> None, quote |-> NoQuote, failed |-> FALSE, pending |-> FALSE]

\* "kept": no discard() came since the call started.
NoFlight == [build |-> NoBuild, inputs |-> None, current |-> FALSE, kept |-> FALSE]
Flights == {NoFlight} \cup [build : Builds, inputs : Inputs, current : BOOLEAN, kept : BOOLEAN]

TypeOK ==
    /\ mode \in Modes
    /\ open \in BOOLEAN
    /\ form \in MaybeInputs
    /\ given \in MaybeInputs
    /\ snap \in Snapshots
    /\ timer \in BOOLEAN
    /\ flight \in Flights
    /\ rerun \in BOOLEAN
    /\ lastBuild \in Quotes
    /\ sending \in {"no", "refusing", "relaying", "building"}
    /\ order \in Quotes \X MaybeInputs
    /\ tried \subseteq Builds
    /\ asked \in BOOLEAN
    /\ previous \in MaybeInputs

Init ==
    /\ mode \in Modes
    /\ open = TRUE
    /\ form = None
    /\ given = None
    /\ snap = Empty
    /\ timer = FALSE
    /\ flight = NoFlight
    /\ rerun = FALSE
    /\ lastBuild = NoQuote
    /\ sending = "no"
    /\ order = <<NoQuote, None>>
    /\ tried = {}
    /\ asked = FALSE
    /\ previous = None

-----------------------------------------------------------------------------
(* The controller's steps; each sets snap, flight, rerun and the history.  *)

OnRequest == mode = "on-request"
Calling == flight.build # NoBuild

\* Bumping the generation: the call that runs answers for inputs no longer shown.
Answering(current, kept) ==
    [build |-> flight.build, inputs |-> flight.inputs, current |-> current, kept |-> kept]
Superseded == Answering(FALSE, flight.kept)
Forgotten == Answering(FALSE, FALSE)

Held == {snap.quote.build, lastBuild.build, order[1].build, flight.build}
NewBuild == CHOOSE b \in Builds : b \notin Held

Show(quote) == [inputs |-> snap.inputs, quote |-> quote, failed |-> FALSE, pending |-> FALSE]

\* One opts.quote call for what the snapshot shows.
Start ==
    /\ flight' = [build |-> NewBuild, inputs |-> snap.inputs, current |-> TRUE, kept |-> TRUE]
    /\ tried' = tried \ {NewBuild}
    /\ snap' = [snap EXCEPT !.pending = TRUE]

\* Mutant of RunIdle: a queued build starts though the form was cleared.
RunIdleUnguarded(kept) ==
    IF OnRequest /\ kept.inputs = snap.inputs
    THEN flight' = NoFlight /\ snap' = Show(kept) /\ UNCHANGED tried
    ELSE Start

\* run() with no call running, the kept build being "kept".
RunIdle(kept) ==
    IF snap.inputs = None
    THEN flight' = NoFlight /\ UNCHANGED <<snap, tried>>
    ELSE IF OnRequest /\ kept.inputs = snap.inputs
    THEN flight' = NoFlight /\ snap' = Show(kept) /\ UNCHANGED tried
    ELSE Start

\* Mutant of Run: a call already running takes the place of the one asked for.
RunForgets ==
    IF Calling
    THEN UNCHANGED <<snap, flight, rerun, tried>>
    ELSE RunIdle(lastBuild) /\ rerun' = FALSE

\* run(): one call at a time; a build asked for meanwhile waits for its end.
Run ==
    IF ~Calling THEN RunIdle(lastBuild) /\ rerun' = FALSE
    ELSE IF OnRequest /\ flight.inputs = snap.inputs
    THEN UNCHANGED <<snap, flight, rerun, tried>>
    ELSE /\ rerun' = TRUE
         /\ snap' = IF OnRequest THEN [snap EXCEPT !.pending = TRUE] ELSE snap
         /\ UNCHANGED <<flight, tried>>

\* Mutant of Reset: a review queued for other inputs stays queued.
ResetKeepsReview(inputs) ==
    /\ flight' = Superseded
    /\ asked' = FALSE
    /\ snap' = IF inputs = None THEN Empty
               ELSE [inputs |-> inputs, quote |-> NoQuote, failed |-> FALSE,
                     pending |-> ~OnRequest]
    /\ timer' = (inputs # None /\ ~OnRequest)
    /\ UNCHANGED rerun

\* setInputs() with inputs that differ from the snapshot's.
Reset(inputs) ==
    /\ flight' = Superseded
    /\ asked' = FALSE
    /\ snap' = IF inputs = None THEN Empty
               ELSE [inputs |-> inputs, quote |-> NoQuote, failed |-> FALSE,
                     pending |-> ~OnRequest]
    /\ timer' = (inputs # None /\ ~OnRequest)
    /\ rerun' = (rerun /\ ~(OnRequest /\ inputs # None))

-----------------------------------------------------------------------------
(* The modal. *)

\* The user types, pastes, scans or picks an address.
Edit(inputs) ==
    /\ open
    /\ form' = inputs
    /\ UNCHANGED <<mode, open, given, controller, sending, order, history>>

\* What the effect gives the controller: nothing while a send is in flight.
Wanted == IF sending = "no" THEN form ELSE None

\* The effect runs after the render; the form may have moved on, or a press
\* may have come first.
Sync ==
    /\ open
    /\ Wanted # given
    /\ given' = Wanted
    /\ IF Wanted = snap.inputs
       THEN UNCHANGED <<snap, timer, flight, rerun, asked>>
       ELSE Reset(Wanted)
    /\ UNCHANGED <<mode, open, form, lastBuild, sending, order, tried, previous>>

TimerFires ==
    /\ timer
    /\ timer' = FALSE
    /\ Run
    /\ UNCHANGED <<mode, open, form, given, lastBuild, sending, order, asked, previous>>

\* Review, or Retry of a failed review, is enabled and builds.
Review ==
    /\ open /\ OnRequest /\ sending = "no"
    /\ snap.inputs # None /\ snap.quote = NoQuote /\ ~snap.pending
    /\ asked' = TRUE
    /\ Run
    /\ UNCHANGED <<mode, open, form, given, timer, lastBuild, sending, order, previous>>

\* Retry of a failed estimate.
Retry ==
    /\ open /\ ~OnRequest
    /\ snap.failed /\ ~snap.pending
    /\ timer' = FALSE
    /\ IF Calling
       THEN /\ flight' = Superseded /\ rerun' = TRUE
            /\ UNCHANGED <<snap, tried>>
       ELSE RunIdle(lastBuild) /\ rerun' = FALSE
    /\ UNCHANGED <<mode, open, form, given, lastBuild, sending, order, asked, previous>>

\* Mutant of Matches: any quote is taken for one of this send.
AnyQuoteMatches(quote) == quote # NoQuote

\* quoteMatchesSend, without the age, which a reviewed build does not have.
Matches(quote) == quote # NoQuote /\ quote.inputs = form

\* Mutant of Discard: the build stays kept for another review.
DiscardShownOnly ==
    /\ given' = None
    /\ snap' = Empty
    /\ timer' = FALSE
    /\ flight' = Forgotten
    /\ asked' = FALSE
    /\ previous' = None
    /\ UNCHANGED <<lastBuild, rerun>>

\* The effects of "a send is in flight": discard(), then setInputs(null).
Discard ==
    /\ given' = None
    /\ snap' = Empty
    /\ timer' = FALSE
    /\ flight' = Forgotten
    /\ lastBuild' = NoQuote
    /\ asked' = FALSE
    /\ previous' = None
    /\ UNCHANGED rerun

\* Confirm: relay the reviewed build if it is exactly what the form holds.
\* A press is rendered, and its effects run, before anything else happens.
Confirm ==
    /\ open /\ OnRequest /\ sending = "no"
    /\ form # None /\ snap.quote # NoQuote
    /\ Matches(snap.quote)
    /\ sending' = "relaying"
    /\ order' = <<snap.quote, form>>
    /\ tried' = tried \cup {snap.quote.build}
    /\ Discard
    /\ UNCHANGED <<mode, open, form>>

\* Confirm of a quote that is not for what the form holds: the send refuses to build
\* a spend nobody reviewed, but the press has discarded the quote by then.
Refused ==
    /\ open /\ OnRequest /\ sending = "no"
    /\ form # None /\ snap.quote # NoQuote
    /\ ~Matches(snap.quote)
    /\ sending' = "refusing"
    /\ order' = <<NoQuote, form>>
    /\ Discard
    /\ UNCHANGED <<mode, open, form, tried>>

\* Send on an estimate: the send builds its own transaction.
Send ==
    /\ open /\ ~OnRequest /\ sending = "no"
    /\ form # None
    /\ sending' = "building"
    /\ order' = <<NoQuote, form>>
    /\ Discard
    /\ UNCHANGED <<mode, open, form, tried>>

\* The send failed or was refused, and nothing left: the form is the user's again.
SendFails ==
    /\ open /\ sending # "no"
    /\ sending' = "no"
    /\ order' = <<NoQuote, None>>
    /\ UNCHANGED <<mode, open, form, given, controller, history>>

\* Cancel; or the send was made, or may have been: the modal closes.
Close ==
    /\ open
    /\ open' = FALSE
    /\ flight' = Superseded
    /\ timer' = FALSE
    /\ UNCHANGED <<mode, form, given, snap, rerun, lastBuild, sending, order, history>>

-----------------------------------------------------------------------------
(* The wallet call ends. *)

\* Mutant of Settle: an answer for inputs no longer shown is shown.
SettleAnyway(answer, kept) ==
    /\ flight' = NoFlight
    /\ rerun' = FALSE
    /\ UNCHANGED tried
    /\ snap' = [inputs |-> flight.inputs, quote |-> answer,
                failed |-> answer = NoQuote, pending |-> FALSE]
    /\ timer' = ~OnRequest

\* What follows an answer while the modal is open; NoQuote is a failure.
Settle(answer, kept) ==
    IF rerun
    THEN /\ rerun' = FALSE
         /\ RunIdle(kept)
         /\ UNCHANGED timer
    ELSE /\ flight' = NoFlight
         /\ rerun' = FALSE
         /\ UNCHANGED tried
         /\ IF flight.current
            THEN /\ snap' = [inputs |-> flight.inputs, quote |-> answer,
                             failed |-> answer = NoQuote, pending |-> FALSE]
                 /\ timer' = ~OnRequest
            ELSE UNCHANGED <<snap, timer>>

\* Mutant of Kept: a build whose inputs were edited meanwhile is not kept.
KeptIfShown(answer) ==
    IF OnRequest /\ answer # NoQuote /\ flight.current THEN answer ELSE lastBuild

Kept(answer) ==
    IF OnRequest /\ answer # NoQuote /\ flight.kept THEN answer ELSE lastBuild

Answer ==
    /\ Calling
    /\ \E answer \in {NoQuote, [build |-> flight.build, inputs |-> flight.inputs]} :
        /\ lastBuild' = Kept(answer)
        /\ previous' = IF answer # NoQuote /\ flight.kept THEN answer.inputs ELSE previous
        /\ IF open THEN Settle(answer, Kept(answer))
           ELSE flight' = NoFlight /\ UNCHANGED <<snap, timer, rerun, tried>>
    /\ UNCHANGED <<mode, open, form, given, sending, order, asked>>

-----------------------------------------------------------------------------
Next ==
    \/ \E inputs \in MaybeInputs : Edit(inputs)
    \/ Sync \/ TimerFires \/ Answer
    \/ Review \/ Retry
    \/ Confirm \/ Refused \/ Send \/ SendFails \/ Close

Spec == Init /\ [][Next]_vars

\* Effects and timers run, and a wallet call ends.  The user owes nothing.
FairSpec == Spec /\ WF_vars(Sync) /\ WF_vars(TimerFires) /\ WF_vars(Answer)

-----------------------------------------------------------------------------
(* Properties. *)

\* A late answer never changes what the snapshot is about: it describes the
\* inputs last given to it, and a quote it shows was built for exactly those
\* (quoteController.ts, the generation check of run()).
ShownForInputs ==
    open => /\ snap.inputs = given
            /\ snap.quote # NoQuote => snap.quote.inputs = given

\* What is relayed was built for what the form held when Confirm was pressed,
\* whether or not the edit had reached the controller (send-quote.ts,
\* routeQuotedSend).
RelaysWhatWasReviewed ==
    sending = "relaying" => order[1].inputs = order[2]

\* A build that was handed to a send is not offered again when that send fails
\* (useSendQuote.ts, the discard effect).
RelaysOnce ==
    {snap.quote.build, lastBuild.build} \cap tried = {}

Starts == flight'.build \notin {flight.build, NoBuild}

\* On a chain whose quote is the spend, nothing is built for inputs nobody asked
\* to review: not on an edit, not on a timer, and not by a review queued behind
\* a build for other inputs (quoteController.ts, "once per set of inputs, never
\* on a timer").
BuildsOnReview == [][OnRequest /\ Starts => asked']_vars

\* A spend whose last good build nobody has tried to send is not built again:
\* edits and late answers do not lose it.
BuildsOnce == [][OnRequest /\ Starts => flight'.inputs # previous']_vars

\* What is shown as being priced is priced, or its failure shown, while the
\* inputs stand.
PricingSettles ==
    \A i \in Inputs :
        (open /\ given = i /\ snap.pending)
            ~> (~open \/ given # i \/ snap.quote # NoQuote \/ snap.failed)

\* "True while a quote for `inputs` is waiting or in flight": the comment on
\* QuoteSnapshot.pending.
PendingWhileCalling ==
    open /\ Calling /\ flight.inputs = snap.inputs => snap.pending
=============================================================================
