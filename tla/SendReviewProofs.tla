------------------------ MODULE SendReviewProofs ------------------------
(***************************************************************************)
(* The safety properties of SendReview hold for any set of form contents.  *)
(***************************************************************************)
EXTENDS SendReview, TLAPS

\* The snapshot is about what was given, and a call that still counts is too.
ShownOK ==
    open => /\ snap.inputs = given
            /\ snap.quote # NoQuote => snap.quote.inputs = given
            /\ Calling /\ flight.current => flight.inputs = given

\* No build that was handed to a send is held anywhere, and the running call is
\* none of the builds held.
BuildsOK ==
    /\ {snap.quote.build, lastBuild.build, flight.build} \cap tried = {}
    /\ Calling => flight.build \notin {snap.quote.build, lastBuild.build}

\* "on-request" arms no timer, queues a build only after a review of the inputs
\* that stand, and keeps the latest good build that was not handed to a send.
ReviewOK ==
    OnRequest => /\ ~timer
                 /\ rerun /\ snap.inputs # None => asked
                 /\ previous = lastBuild.inputs

IInv == TypeOK /\ ShownOK /\ BuildsOK /\ ReviewOK /\ RelaysWhatWasReviewed

\* There is a number for a new build, and no build held has it.
LEMMA NewBuildFresh ==
    NewBuild \in Builds /\ NewBuild \notin Held
<1>1. \E b \in Builds : b \notin Held
  BY DEF Builds, Held
<1>2. QED BY <1>1 DEF NewBuild

\* The empty values are well formed.
LEMMA EmptyValues == NoQuote \in Quotes /\ NoFlight \in Flights /\ Empty \in Snapshots
<1>1. NoQuote \in Quotes BY DEF Quotes
<1>2. NoFlight \in Flights BY DEF Flights
<1>3. Empty \in Snapshots BY <1>1 DEF Empty, Snapshots, MaybeInputs
<1>4. QED BY <1>1, <1>2, <1>3

\* So are the fields of a snapshot and of a call, and what the steps make of them.
LEMMA SnapValues ==
    ASSUME snap \in Snapshots
    PROVE  /\ snap.inputs \in MaybeInputs
           /\ snap.quote \in Quotes
           /\ [snap EXCEPT !.pending = TRUE] \in Snapshots
           /\ \A quote \in Quotes : Show(quote) \in Snapshots
           /\ \A i \in MaybeInputs, q \in Quotes, f, p \in BOOLEAN :
                [inputs |-> i, quote |-> q, failed |-> f, pending |-> p] \in Snapshots
BY DEF Snapshots, Show

LEMMA FlightValues ==
    ASSUME flight \in Flights
    PROVE  /\ Superseded \in Flights
           /\ Forgotten \in Flights
           /\ flight.inputs \in MaybeInputs
           /\ Calling => [build |-> flight.build, inputs |-> flight.inputs] \in Quotes
<1>1. CASE flight = NoFlight
  <2>1. Superseded = NoFlight /\ Forgotten = NoFlight
    BY <1>1 DEF NoFlight, Answering, Superseded, Forgotten
  <2>2. QED BY <1>1, <2>1, EmptyValues DEF NoFlight, Calling, MaybeInputs
<1>2. CASE flight # NoFlight
  BY <1>2 DEF NoFlight, Flights, Answering, Superseded, Forgotten, Calling, MaybeInputs, Quotes
<1>3. QED BY <1>1, <1>2

\* The call a build starts is a well-formed call.
LEMMA NewFlight ==
    \A b \in Builds, i \in Inputs :
        [build |-> b, inputs |-> i, current |-> TRUE, kept |-> TRUE] \in Flights
BY DEF Flights

\* The initial states satisfy the invariant.
LEMMA InitInv == Init => IInv
<1> SUFFICES ASSUME Init PROVE IInv OBVIOUS
<1>1. TypeOK
  BY EmptyValues DEF Init, TypeOK, MaybeInputs
<1>2. ShownOK /\ BuildsOK /\ ReviewOK /\ RelaysWhatWasReviewed
  BY DEF Init, ShownOK, BuildsOK, ReviewOK, RelaysWhatWasReviewed, Empty, NoQuote,
      NoFlight, Calling
<1>3. QED BY <1>1, <1>2 DEF IInv

\* Every step keeps the types.
LEMMA TypeStep ==
    ASSUME TypeOK, Next
    PROVE  TypeOK'
<1>1. ASSUME NEW inputs \in MaybeInputs, Edit(inputs) PROVE TypeOK'
    BY <1>1, ReviewConstants, EmptyValues, SnapValues, FlightValues,
        NewFlight DEF TypeOK, MaybeInputs, Builds, Edit, controller, history
<1>2. ASSUME Sync PROVE TypeOK'
    BY <1>2, ReviewConstants, EmptyValues, SnapValues, FlightValues,
        NewFlight DEF TypeOK, MaybeInputs, Builds, Sync, Wanted, Reset,
        Answering, Superseded, Empty, OnRequest
<1>3. ASSUME TimerFires PROVE TypeOK'
    BY <1>3, ReviewConstants, NewBuildFresh, EmptyValues, SnapValues,
        FlightValues, NewFlight DEF TypeOK, MaybeInputs, Builds, TimerFires,
        Run, RunIdle, Start, Show, OnRequest, Calling
<1>4. ASSUME Answer PROVE TypeOK'
  <2>1. PICK answer \in {NoQuote, [build |-> flight.build, inputs |-> flight.inputs]} :
            /\ lastBuild' = Kept(answer)
            /\ previous' = IF answer # NoQuote /\ flight.kept THEN answer.inputs ELSE previous
            /\ IF open THEN Settle(answer, Kept(answer))
               ELSE flight' = NoFlight /\ UNCHANGED <<snap, timer, rerun, tried>>
    BY <1>4 DEF Answer
  <2>2. Calling /\ flight.inputs \in MaybeInputs /\ answer \in Quotes
    BY <1>4, <2>1, EmptyValues, FlightValues DEF Answer, TypeOK
  <2>3. Kept(answer) \in Quotes /\ answer.inputs \in MaybeInputs
    BY <2>2 DEF Kept, TypeOK, Quotes, NoQuote, MaybeInputs
  <2>4. lastBuild' \in Quotes /\ previous' \in MaybeInputs
    BY <2>1, <2>3 DEF TypeOK
  <2>5. /\ snap' \in Snapshots /\ timer' \in BOOLEAN
        /\ flight' \in Flights /\ rerun' \in BOOLEAN /\ tried' \subseteq Builds
    <3>1. CASE ~open
      BY <2>1, <3>1, EmptyValues DEF TypeOK
    <3>2. CASE open /\ rerun
      BY <2>1, <2>3, <3>2, NewBuildFresh, EmptyValues, SnapValues, NewFlight
      DEF TypeOK, Settle, RunIdle, Start, MaybeInputs
    <3>3. CASE open /\ ~rerun
      BY <2>1, <2>2, <3>3, EmptyValues, SnapValues DEF TypeOK, Settle
    <3>4. QED BY <3>1, <3>2, <3>3
  <2>6. QED BY <1>4, <2>4, <2>5 DEF Answer, TypeOK
<1>5. ASSUME Review PROVE TypeOK'
    BY <1>5, ReviewConstants, NewBuildFresh, EmptyValues, SnapValues,
        FlightValues, NewFlight DEF TypeOK, MaybeInputs, Builds, Review,
        Run, RunIdle, Start, Show, OnRequest, Calling
<1>6. ASSUME Retry PROVE TypeOK'
  <2>1. CASE Calling
    BY <1>6, <2>1, FlightValues DEF TypeOK, Retry
  <2>2. CASE ~Calling
    BY <1>6, <2>2, NewBuildFresh, EmptyValues, SnapValues, NewFlight
    DEF TypeOK, Retry, RunIdle, Start, MaybeInputs
  <2>3. QED BY <2>1, <2>2
<1>7. ASSUME Confirm PROVE TypeOK'
  <2>1. snap.quote.build \in Builds /\ snap.quote \in Quotes
    BY <1>7, SnapValues DEF Confirm, TypeOK, Quotes
  <2>2. order' \in Quotes \X MaybeInputs /\ tried' \subseteq Builds
    BY <1>7, <2>1 DEF Confirm, TypeOK
  <2>3. QED
    BY <1>7, <2>2, EmptyValues, FlightValues DEF TypeOK, MaybeInputs, Confirm, Discard
<1>8. ASSUME Send PROVE TypeOK'
    BY <1>8, ReviewConstants, EmptyValues, SnapValues, FlightValues,
        NewFlight DEF TypeOK, MaybeInputs, Builds, Send, Discard, Answering, Forgotten,
        Empty, OnRequest
<1>11. ASSUME Refused PROVE TypeOK'
    BY <1>11, ReviewConstants, EmptyValues, SnapValues, FlightValues,
        NewFlight DEF TypeOK, MaybeInputs, Builds, Refused, Discard, Answering, Forgotten,
        Empty, OnRequest
<1>9. ASSUME SendFails PROVE TypeOK'
    BY <1>9, ReviewConstants, EmptyValues, SnapValues, FlightValues,
        NewFlight DEF TypeOK, MaybeInputs, Builds, SendFails, controller,
        history
<1>10. ASSUME Close PROVE TypeOK'
    BY <1>10, ReviewConstants, EmptyValues, SnapValues, FlightValues,
        NewFlight DEF TypeOK, MaybeInputs, Builds, Close, Answering, Superseded,
        history
<1>q. QED BY <1>1, <1>2, <1>3, <1>4, <1>5, <1>6, <1>7, <1>8, <1>9, <1>10, <1>11 DEF Next

\* Every step keeps the snapshot about what was given.
LEMMA ShownStep ==
    ASSUME TypeOK, ShownOK, Next
    PROVE  ShownOK'
<1>1. ASSUME NEW inputs \in MaybeInputs, Edit(inputs) PROVE ShownOK'
    BY <1>1, ReviewConstants DEF TypeOK, Snapshots, Quotes, Flights,
        MaybeInputs, Modes, NoQuote, NoFlight, NoBuild, Builds, ShownOK,
        Calling, Edit, controller, history
<1>2. ASSUME Sync PROVE ShownOK'
    BY <1>2, ReviewConstants DEF TypeOK, Snapshots, Quotes, Flights,
        MaybeInputs, Modes, NoQuote, NoFlight, NoBuild, Builds, ShownOK,
        Calling, Sync, Wanted, Reset, Answering, Superseded, Empty, OnRequest
<1>3. ASSUME TimerFires PROVE ShownOK'
    BY <1>3, ReviewConstants, NewBuildFresh DEF TypeOK, Snapshots, Quotes,
        Flights, MaybeInputs, Modes, NoQuote, NoFlight, NoBuild, Builds,
        ShownOK, Calling, TimerFires, Run, RunIdle, Start, Show, OnRequest
<1>4. ASSUME Answer PROVE ShownOK'
    BY <1>4, ReviewConstants, NewBuildFresh DEF TypeOK, Snapshots, Quotes,
        Flights, MaybeInputs, Modes, NoQuote, NoFlight, NoBuild, Builds,
        ShownOK, Calling, Answer, Settle, Kept, RunIdle, Start, Show,
        OnRequest
<1>5. ASSUME Review PROVE ShownOK'
    BY <1>5, ReviewConstants, NewBuildFresh DEF TypeOK, Snapshots, Quotes,
        Flights, MaybeInputs, Modes, NoQuote, NoFlight, NoBuild, Builds,
        ShownOK, Calling, Review, Run, RunIdle, Start, Show, OnRequest
<1>6. ASSUME Retry PROVE ShownOK'
    BY <1>6, ReviewConstants, NewBuildFresh DEF TypeOK, Snapshots, Quotes,
        Flights, MaybeInputs, Modes, NoQuote, NoFlight, NoBuild, Builds,
        ShownOK, Calling, Retry, Answering, Superseded, RunIdle, Start, Show, OnRequest
<1>7. ASSUME Confirm PROVE ShownOK'
    BY <1>7, ReviewConstants DEF TypeOK, Snapshots, Quotes, Flights,
        MaybeInputs, Modes, NoQuote, NoFlight, NoBuild, Builds, ShownOK,
        Calling, Confirm, Matches, Discard, Answering, Forgotten, Empty, OnRequest
<1>8. ASSUME Send PROVE ShownOK'
    BY <1>8, ReviewConstants DEF TypeOK, Snapshots, Quotes, Flights,
        MaybeInputs, Modes, NoQuote, NoFlight, NoBuild, Builds, ShownOK,
        Calling, Send, Discard, Answering, Forgotten, Empty, OnRequest
<1>11. ASSUME Refused PROVE ShownOK'
    BY <1>11, ReviewConstants DEF TypeOK, Snapshots, Quotes, Flights,
        MaybeInputs, Modes, NoQuote, NoFlight, NoBuild, Builds, ShownOK,
        Calling, Refused, Discard, Answering, Forgotten, Empty, OnRequest
<1>9. ASSUME SendFails PROVE ShownOK'
    BY <1>9, ReviewConstants DEF TypeOK, Snapshots, Quotes, Flights,
        MaybeInputs, Modes, NoQuote, NoFlight, NoBuild, Builds, ShownOK,
        Calling, SendFails, controller, history
<1>10. ASSUME Close PROVE ShownOK'
    BY <1>10, ReviewConstants DEF TypeOK, Snapshots, Quotes, Flights,
        MaybeInputs, Modes, NoQuote, NoFlight, NoBuild, Builds, ShownOK,
        Calling, Close, Answering, Superseded, history
<1>q. QED BY <1>1, <1>2, <1>3, <1>4, <1>5, <1>6, <1>7, <1>8, <1>9, <1>10, <1>11 DEF Next

\* Every step keeps the builds handed to a send out of reach.
LEMMA BuildsStep ==
    ASSUME TypeOK, BuildsOK, Next
    PROVE  BuildsOK'
<1>1. ASSUME NEW inputs \in MaybeInputs, Edit(inputs) PROVE BuildsOK'
    BY <1>1, ReviewConstants DEF TypeOK, Snapshots, Quotes, Flights,
        MaybeInputs, Modes, NoQuote, NoFlight, NoBuild, Builds, BuildsOK,
        Calling, Held, Edit, controller, history
<1>2. ASSUME Sync PROVE BuildsOK'
    BY <1>2, ReviewConstants DEF TypeOK, Snapshots, Quotes, Flights,
        MaybeInputs, Modes, NoQuote, NoFlight, NoBuild, Builds, BuildsOK,
        Calling, Held, Sync, Wanted, Reset, Answering, Superseded, Empty, OnRequest
<1>3. ASSUME TimerFires PROVE BuildsOK'
    BY <1>3, ReviewConstants, NewBuildFresh DEF TypeOK, Snapshots, Quotes,
        Flights, MaybeInputs, Modes, NoQuote, NoFlight, NoBuild, Builds,
        BuildsOK, Calling, Held, TimerFires, Run, RunIdle, Start, Show,
        OnRequest
<1>4. ASSUME Answer PROVE BuildsOK'
    BY <1>4, ReviewConstants, NewBuildFresh DEF TypeOK, Snapshots, Quotes,
        Flights, MaybeInputs, Modes, NoQuote, NoFlight, NoBuild, Builds,
        BuildsOK, Calling, Held, Answer, Settle, Kept, RunIdle, Start, Show,
        OnRequest
<1>5. ASSUME Review PROVE BuildsOK'
    BY <1>5, ReviewConstants, NewBuildFresh DEF TypeOK, Snapshots, Quotes,
        Flights, MaybeInputs, Modes, NoQuote, NoFlight, NoBuild, Builds,
        BuildsOK, Calling, Held, Review, Run, RunIdle, Start, Show,
        OnRequest
<1>6. ASSUME Retry PROVE BuildsOK'
    BY <1>6, ReviewConstants, NewBuildFresh DEF TypeOK, Snapshots, Quotes,
        Flights, MaybeInputs, Modes, NoQuote, NoFlight, NoBuild, Builds,
        BuildsOK, Calling, Held, Retry, Answering, Superseded, RunIdle, Start, Show,
        OnRequest
<1>7. ASSUME Confirm PROVE BuildsOK'
  <2>1. Forgotten.build = flight.build
    BY DEF Answering, Forgotten
  <2>2. NoBuild \notin Builds /\ tried \subseteq Builds
    BY DEF NoBuild, Builds, TypeOK
  <2>3. snap.quote.build \in Builds
    BY <1>7, SnapValues DEF Confirm, TypeOK, Quotes
  <2>4. flight.build # snap.quote.build
    BY <2>2, <2>3 DEF BuildsOK, Calling
  <2>5. QED
    BY <1>7, <2>1, <2>2, <2>3, <2>4
    DEF BuildsOK, Calling, Confirm, Discard, Empty, NoQuote, NoFlight
<1>8. ASSUME Send PROVE BuildsOK'
  <2>1. Forgotten.build = flight.build
    BY DEF Answering, Forgotten
  <2>2. NoBuild \notin Builds /\ tried \subseteq Builds
    BY DEF NoBuild, Builds, TypeOK
  <2>3. QED
    BY <1>8, <2>1, <2>2
    DEF BuildsOK, Calling, Send, Discard, Empty, NoQuote, NoFlight
<1>11. ASSUME Refused PROVE BuildsOK'
  <2>1. Forgotten.build = flight.build
    BY DEF Answering, Forgotten
  <2>2. NoBuild \notin Builds /\ tried \subseteq Builds
    BY DEF NoBuild, Builds, TypeOK
  <2>3. QED
    BY <1>11, <2>1, <2>2
    DEF BuildsOK, Calling, Refused, Discard, Empty, NoQuote, NoFlight
<1>9. ASSUME SendFails PROVE BuildsOK'
    BY <1>9, ReviewConstants DEF TypeOK, Snapshots, Quotes, Flights,
        MaybeInputs, Modes, NoQuote, NoFlight, NoBuild, Builds, BuildsOK,
        Calling, Held, SendFails, controller, history
<1>10. ASSUME Close PROVE BuildsOK'
  <2>1. Superseded.build = flight.build
    BY DEF Answering, Superseded
  <2>2. QED BY <1>10, <2>1 DEF BuildsOK, Calling, Close, history
<1>q. QED BY <1>1, <1>2, <1>3, <1>4, <1>5, <1>6, <1>7, <1>8, <1>9, <1>10, <1>11 DEF Next

\* Every step keeps the queue and the kept build in order.
LEMMA ReviewStep ==
    ASSUME TypeOK, ReviewOK, Next
    PROVE  ReviewOK'
<1>1. ASSUME NEW inputs \in MaybeInputs, Edit(inputs) PROVE ReviewOK'
    BY <1>1, ReviewConstants DEF TypeOK, Snapshots, Quotes, Flights,
        MaybeInputs, Modes, NoQuote, NoFlight, NoBuild, Builds, ReviewOK,
        OnRequest, Edit, controller, history
<1>2. ASSUME Sync PROVE ReviewOK'
    BY <1>2, ReviewConstants DEF TypeOK, Snapshots, Quotes, Flights,
        MaybeInputs, Modes, NoQuote, NoFlight, NoBuild, Builds, ReviewOK,
        OnRequest, Sync, Wanted, Reset, Answering, Superseded, Empty
<1>3. ASSUME TimerFires PROVE ReviewOK'
    BY <1>3, ReviewConstants, NewBuildFresh DEF TypeOK, Snapshots, Quotes,
        Flights, MaybeInputs, Modes, NoQuote, NoFlight, NoBuild, Builds,
        ReviewOK, OnRequest, TimerFires, Run, RunIdle, Start, Show, Calling
<1>4. ASSUME Answer PROVE ReviewOK'
    BY <1>4, ReviewConstants, NewBuildFresh DEF TypeOK, Snapshots, Quotes,
        Flights, MaybeInputs, Modes, NoQuote, NoFlight, NoBuild, Builds,
        ReviewOK, OnRequest, Answer, Settle, Kept, RunIdle, Start, Show,
        Calling
<1>5. ASSUME Review PROVE ReviewOK'
    BY <1>5, ReviewConstants, NewBuildFresh DEF TypeOK, Snapshots, Quotes,
        Flights, MaybeInputs, Modes, NoQuote, NoFlight, NoBuild, Builds,
        ReviewOK, OnRequest, Review, Run, RunIdle, Start, Show, Calling
<1>6. ASSUME Retry PROVE ReviewOK'
    BY <1>6, ReviewConstants, NewBuildFresh DEF TypeOK, Snapshots, Quotes,
        Flights, MaybeInputs, Modes, NoQuote, NoFlight, NoBuild, Builds,
        ReviewOK, OnRequest, Retry, Answering, Superseded, RunIdle, Start, Show,
        Calling
<1>7. ASSUME Confirm PROVE ReviewOK'
    BY <1>7, ReviewConstants DEF TypeOK, Snapshots, Quotes, Flights,
        MaybeInputs, Modes, NoQuote, NoFlight, NoBuild, Builds, ReviewOK,
        OnRequest, Confirm, Matches, Discard, Answering, Forgotten, Empty
<1>8. ASSUME Send PROVE ReviewOK'
    BY <1>8, ReviewConstants DEF TypeOK, Snapshots, Quotes, Flights,
        MaybeInputs, Modes, NoQuote, NoFlight, NoBuild, Builds, ReviewOK,
        OnRequest, Send, Discard, Answering, Forgotten, Empty
<1>11. ASSUME Refused PROVE ReviewOK'
    BY <1>11, ReviewConstants DEF TypeOK, Snapshots, Quotes, Flights,
        MaybeInputs, Modes, NoQuote, NoFlight, NoBuild, Builds, ReviewOK,
        OnRequest, Refused, Discard, Answering, Forgotten, Empty
<1>9. ASSUME SendFails PROVE ReviewOK'
    BY <1>9, ReviewConstants DEF TypeOK, Snapshots, Quotes, Flights,
        MaybeInputs, Modes, NoQuote, NoFlight, NoBuild, Builds, ReviewOK,
        OnRequest, SendFails, controller, history
<1>10. ASSUME Close PROVE ReviewOK'
    BY <1>10, ReviewConstants DEF TypeOK, Snapshots, Quotes, Flights,
        MaybeInputs, Modes, NoQuote, NoFlight, NoBuild, Builds, ReviewOK,
        OnRequest, Close, Answering, Superseded, history
<1>q. QED BY <1>1, <1>2, <1>3, <1>4, <1>5, <1>6, <1>7, <1>8, <1>9, <1>10, <1>11 DEF Next

\* Every step keeps the order what was reviewed.
LEMMA RelayStep ==
    ASSUME TypeOK, RelaysWhatWasReviewed, Next
    PROVE  RelaysWhatWasReviewed'
<1>1. ASSUME NEW inputs \in MaybeInputs, Edit(inputs) PROVE RelaysWhatWasReviewed'
    BY <1>1, ReviewConstants DEF TypeOK, Snapshots, Quotes, Flights,
        MaybeInputs, Modes, NoQuote, NoFlight, NoBuild, Builds,
        RelaysWhatWasReviewed, Edit, controller, history
<1>2. ASSUME Sync PROVE RelaysWhatWasReviewed'
    BY <1>2, ReviewConstants DEF TypeOK, Snapshots, Quotes, Flights,
        MaybeInputs, Modes, NoQuote, NoFlight, NoBuild, Builds,
        RelaysWhatWasReviewed, Sync, Wanted, Reset, Answering, Superseded, Empty,
        OnRequest
<1>3. ASSUME TimerFires PROVE RelaysWhatWasReviewed'
    BY <1>3, ReviewConstants DEF TypeOK, Snapshots, Quotes, Flights,
        MaybeInputs, Modes, NoQuote, NoFlight, NoBuild, Builds,
        RelaysWhatWasReviewed, TimerFires, Run, RunIdle, Start, Show,
        OnRequest, Calling
<1>4. ASSUME Answer PROVE RelaysWhatWasReviewed'
    BY <1>4, ReviewConstants DEF TypeOK, Snapshots, Quotes, Flights,
        MaybeInputs, Modes, NoQuote, NoFlight, NoBuild, Builds,
        RelaysWhatWasReviewed, Answer, Settle, Kept, RunIdle, Start, Show,
        OnRequest, Calling
<1>5. ASSUME Review PROVE RelaysWhatWasReviewed'
    BY <1>5, ReviewConstants DEF TypeOK, Snapshots, Quotes, Flights,
        MaybeInputs, Modes, NoQuote, NoFlight, NoBuild, Builds,
        RelaysWhatWasReviewed, Review, Run, RunIdle, Start, Show, OnRequest,
        Calling
<1>6. ASSUME Retry PROVE RelaysWhatWasReviewed'
    BY <1>6, ReviewConstants DEF TypeOK, Snapshots, Quotes, Flights,
        MaybeInputs, Modes, NoQuote, NoFlight, NoBuild, Builds,
        RelaysWhatWasReviewed, Retry, Answering, Superseded, RunIdle, Start, Show,
        OnRequest, Calling
<1>7. ASSUME Confirm PROVE RelaysWhatWasReviewed'
    BY <1>7, ReviewConstants DEF TypeOK, Snapshots, Quotes, Flights,
        MaybeInputs, Modes, NoQuote, NoFlight, NoBuild, Builds,
        RelaysWhatWasReviewed, Confirm, Matches, Discard, Answering, Forgotten, Empty,
        OnRequest
<1>8. ASSUME Send PROVE RelaysWhatWasReviewed'
    BY <1>8, ReviewConstants DEF TypeOK, Snapshots, Quotes, Flights,
        MaybeInputs, Modes, NoQuote, NoFlight, NoBuild, Builds,
        RelaysWhatWasReviewed, Send, Discard, Answering, Forgotten, Empty, OnRequest
<1>11. ASSUME Refused PROVE RelaysWhatWasReviewed'
    BY <1>11, ReviewConstants DEF TypeOK, Snapshots, Quotes, Flights,
        MaybeInputs, Modes, NoQuote, NoFlight, NoBuild, Builds,
        RelaysWhatWasReviewed, Refused, Discard, Answering, Forgotten, Empty, OnRequest
<1>9. ASSUME SendFails PROVE RelaysWhatWasReviewed'
    BY <1>9, ReviewConstants DEF TypeOK, Snapshots, Quotes, Flights,
        MaybeInputs, Modes, NoQuote, NoFlight, NoBuild, Builds,
        RelaysWhatWasReviewed, SendFails, controller, history
<1>10. ASSUME Close PROVE RelaysWhatWasReviewed'
    BY <1>10, ReviewConstants DEF TypeOK, Snapshots, Quotes, Flights,
        MaybeInputs, Modes, NoQuote, NoFlight, NoBuild, Builds,
        RelaysWhatWasReviewed, Close, Answering, Superseded, history
<1>q. QED BY <1>1, <1>2, <1>3, <1>4, <1>5, <1>6, <1>7, <1>8, <1>9, <1>10, <1>11 DEF Next

\* The invariant is inductive.
LEMMA InvStep == IInv /\ [Next]_vars => IInv'
<1> SUFFICES ASSUME IInv, [Next]_vars PROVE IInv' OBVIOUS
<1>1. CASE Next
  BY <1>1, TypeStep, ShownStep, BuildsStep, ReviewStep, RelayStep DEF IInv
<1>2. CASE UNCHANGED vars
  BY <1>2 DEF IInv, TypeOK, ShownOK, BuildsOK, ReviewOK, RelaysWhatWasReviewed, vars,
      controller, history, Calling, OnRequest
<1>3. QED BY <1>1, <1>2

\* The inductive invariant of the modal holds for every set of form contents.
THEOREM ReviewInductive == Spec => []IInv
BY InitInv, InvStep, PTL DEF Spec

\* Type correctness: the calls and the quotes stay well formed; in particular no
\* call is made for a form with nothing quotable in it.
THEOREM ReviewTypeCorrect == Spec => []TypeOK
<1>1. IInv => TypeOK BY DEF IInv
<1>2. QED BY <1>1, ReviewInductive, PTL

\* A late answer never changes what the snapshot is about.
THEOREM AnswersKeepInputs == Spec => []ShownForInputs
<1>1. IInv => ShownForInputs BY DEF IInv, ShownOK, ShownForInputs
<1>2. QED BY <1>1, ReviewInductive, PTL

\* What is relayed was built for what the form held at the press.
THEOREM RelaysTheReviewedBuild == Spec => []RelaysWhatWasReviewed
<1>1. IInv => RelaysWhatWasReviewed BY DEF IInv
<1>2. QED BY <1>1, ReviewInductive, PTL

\* A build handed to a send is neither shown nor kept again.
THEOREM RelaysTheBuildOnce == Spec => []RelaysOnce
<1>1. IInv => RelaysOnce BY DEF IInv, BuildsOK, RelaysOnce
<1>2. QED BY <1>1, ReviewInductive, PTL

\* A step that starts a build of a spend does so for a review of the inputs that
\* stand, and not for inputs whose good build is kept.
LEMMA StartsWhenAsked ==
    ASSUME IInv, [Next]_vars
    PROVE  /\ [OnRequest /\ Starts => asked']_vars
           /\ [OnRequest /\ Starts => flight'.inputs # previous']_vars
<1>1. ASSUME IInv, Next, OnRequest, Starts
      PROVE  asked' /\ flight'.inputs # previous'
  <2>1. ASSUME NEW inputs \in MaybeInputs, Edit(inputs)
       PROVE asked' /\ flight'.inputs # previous'
    BY <1>1, <2>1, ReviewConstants DEF IInv, ReviewOK, Starts, TypeOK,
        Snapshots, Quotes, Flights, MaybeInputs, Modes, NoQuote, NoFlight,
        NoBuild, Builds, Edit, controller, history
  <2>2. CASE Sync
    BY <1>1, <2>2, ReviewConstants DEF IInv, ReviewOK, Starts, TypeOK,
        Snapshots, Quotes, Flights, MaybeInputs, Modes, NoQuote, NoFlight,
        NoBuild, Builds, Sync, Wanted, Reset, Answering, Superseded, Empty, OnRequest
  <2>3. CASE TimerFires
    BY <1>1, <2>3, ReviewConstants, NewBuildFresh DEF IInv, ReviewOK,
        Starts, TypeOK, Snapshots, Quotes, Flights, MaybeInputs, Modes,
        NoQuote, NoFlight, NoBuild, Builds, TimerFires, Run, RunIdle, Start,
        Show, OnRequest, Calling
  <2>4. CASE Answer
    BY <1>1, <2>4, ReviewConstants, NewBuildFresh DEF IInv, ReviewOK,
        Starts, TypeOK, Snapshots, Quotes, Flights, MaybeInputs, Modes,
        NoQuote, NoFlight, NoBuild, Builds, Answer, Settle, Kept, RunIdle,
        Start, Show, OnRequest, Calling
  <2>5. CASE Review
    BY <1>1, <2>5, ReviewConstants, NewBuildFresh DEF IInv, ReviewOK,
        Starts, TypeOK, Snapshots, Quotes, Flights, MaybeInputs, Modes,
        NoQuote, NoFlight, NoBuild, Builds, Review, Run, RunIdle, Start,
        Show, OnRequest, Calling
  <2>6. CASE Retry
    BY <1>1, <2>6, ReviewConstants, NewBuildFresh DEF IInv, ReviewOK,
        Starts, TypeOK, Snapshots, Quotes, Flights, MaybeInputs, Modes,
        NoQuote, NoFlight, NoBuild, Builds, Retry, Answering, Superseded, RunIdle,
        Start, Show, OnRequest, Calling
  <2>7. CASE Confirm
    BY <1>1, <2>7, ReviewConstants DEF IInv, ReviewOK, Starts, TypeOK,
        Snapshots, Quotes, Flights, MaybeInputs, Modes, NoQuote, NoFlight,
        NoBuild, Builds, Confirm, Matches, Discard, Answering, Forgotten, Empty,
        OnRequest
  <2>8. CASE Send
    BY <1>1, <2>8, ReviewConstants DEF IInv, ReviewOK, Starts, TypeOK,
        Snapshots, Quotes, Flights, MaybeInputs, Modes, NoQuote, NoFlight,
        NoBuild, Builds, Send, Discard, Answering, Forgotten, Empty, OnRequest
  <2>11. CASE Refused
    BY <1>1, <2>11, ReviewConstants DEF IInv, ReviewOK, Starts, TypeOK,
        Snapshots, Quotes, Flights, MaybeInputs, Modes, NoQuote, NoFlight,
        NoBuild, Builds, Refused, Discard, Answering, Forgotten, Empty, OnRequest
  <2>9. CASE SendFails
    BY <1>1, <2>9, ReviewConstants DEF IInv, ReviewOK, Starts, TypeOK,
        Snapshots, Quotes, Flights, MaybeInputs, Modes, NoQuote, NoFlight,
        NoBuild, Builds, SendFails, controller, history
  <2>10. CASE Close
    BY <1>1, <2>10, ReviewConstants DEF IInv, ReviewOK, Starts, TypeOK,
        Snapshots, Quotes, Flights, MaybeInputs, Modes, NoQuote, NoFlight,
        NoBuild, Builds, Close, Answering, Superseded, history
  <2>q. QED BY <1>1, <2>1, <2>2, <2>3, <2>4, <2>5, <2>6, <2>7, <2>8, <2>9, <2>10, <2>11 DEF Next
<1>2. QED BY <1>1

\* A spend is built only for a review of the inputs that stand.
THEOREM BuildsForReviews == Spec => BuildsOnReview
<1>1. QED BY StartsWhenAsked, ReviewInductive, PTL DEF Spec, BuildsOnReview

\* A spend whose last good build nobody has tried to send is not built again.
THEOREM BuildsSpendsOnce == Spec => BuildsOnce
<1>1. QED BY StartsWhenAsked, ReviewInductive, PTL DEF Spec, BuildsOnce
=============================================================================
