------------------------- MODULE SessionSendProofs -------------------------
(***************************************************************************)
(* Proofs about SessionSend, for every set of presses, every pool of       *)
(* servers and every margin that covers the pool's spread.                 *)
(***************************************************************************)
EXTENDS SessionSend, TLAPS

-----------------------------------------------------------------------------
(* The inductive invariant, in parts. *)

\* Ledgers are in the past, and a Stellar ledger respects the time limit.
LedgersInOrder ==
    /\ \A s \in Servers : seen[s] =< now
    /\ \A i \in Sends :
        /\ included[i] =< now
        /\ chain = "stellar" => included[i] =< send[i].maxTime

\* A transaction is waiting or included, not both; only an included one pays.
OneFate ==
    \A i \in Sends :
        /\ i \in pool => included[i] = 0
        /\ i \in paid => included[i] # 0

\* Nothing is on the network before the submit.
NotYetSubmitted ==
    \A i \in Sends :
        send[i].pc \in {"idle", "preparing", "ready", "signed"} =>
            i \notin pool /\ included[i] = 0

\* The pool is together, and no server is further behind a clock reading than that.
PoolTogether ==
    \A t \in Servers :
        /\ \A s \in Servers : seen[s] =< seen[t] + Spread
        /\ \A i \in Sends : send[i].closedAt =< seen[t] + Spread

Decided(i) == send[i].pc \in {"closing", "locking", "done"}

\* No ledger to come can hold i's transaction.
Dead(i) == i \notin pool \/ (chain = "stellar" /\ send[i].maxTime =< now)

VerdictsTrue ==
    \A i \in Sends :
        /\ send[i].verdict # "none" => Decided(i)
        /\ send[i].verdict \in Safe => i \notin paid /\ Dead(i)
        /\ send[i].verdict = "success" => i \in paid

Over(i) == send[i].pc = "done" /\ send[i].verdict \in Safe

\* Of two presses one has not happened, or one is over without a payment.
OneAtATime ==
    \A i, j \in Sends :
        i # j => send[i].pc = "idle" \/ send[j].pc = "idle" \/ Over(i) \/ Over(j)

SendInv ==
    /\ TypeOK
    /\ LedgersInOrder
    /\ OneFate
    /\ NotYetSubmitted
    /\ PoolTogether
    /\ VerdictsTrue
    /\ OneAtATime
    /\ SessionNotLeftOpen

-----------------------------------------------------------------------------
LEMMA InitSend == Init => SendInv
  BY SendConstants
     DEF Init, SendInv, TypeOK, LedgersInOrder, OneFate, NotYetSubmitted, PoolTogether,
         VerdictsTrue, OneAtATime, SessionNotLeftOpen, Decided, Dead, Over, SendState,
         Steps, Chains, Times, Verdicts, Safe

\* Steps of the network, the pool and the session's other users leave every send alone.
LEMMA TickInv == SendInv /\ Tick => SendInv'
<1> SUFFICES ASSUME SendInv, Tick PROVE SendInv'
  OBVIOUS
<1> USE SendConstants DEF SendInv, Tick
<1>1. PICK chosen \in SUBSET {i \in pool : Includable(i)} :
        /\ pool' = pool \ chosen
        /\ included' = [i \in Sends |-> IF i \in chosen THEN now + 1 ELSE included[i]]
        /\ \E won \in SUBSET chosen : paid' = paid \cup won
  OBVIOUS
<1>2. PICK won \in SUBSET chosen : paid' = paid \cup won
  BY <1>1
<1>3. /\ now \in Nat /\ now' = now + 1 /\ now' \in Times
      /\ \A i \in Sends : included[i] \in Nat /\ send[i].maxTime \in Nat
      /\ \A s \in Servers : seen[s] \in Nat
      /\ send' = send /\ seen' = seen /\ chain' = chain /\ session' = session
  BY DEF TypeOK, Times, SendState
<1>4. \A i \in chosen : i \in pool /\ i \in Sends /\ (chain = "stellar" => now < send[i].maxTime)
  BY <1>1 DEF Includable, TypeOK
<1>5. TypeOK'
  BY <1>1, <1>2, <1>3, <1>4 DEF TypeOK, Times
<1>6. LedgersInOrder'
  BY <1>1, <1>3, <1>4 DEF LedgersInOrder
<1>7. OneFate'
  BY <1>1, <1>2, <1>3, <1>4 DEF OneFate
<1>8. NotYetSubmitted'
  BY <1>1, <1>3, <1>4 DEF NotYetSubmitted
<1>9. PoolTogether'
  BY <1>3 DEF PoolTogether
<1>10. VerdictsTrue'
  BY <1>1, <1>2, <1>3, <1>4 DEF VerdictsTrue, Dead, Decided, Safe
<1>11. OneAtATime' /\ SessionNotLeftOpen'
  BY <1>3 DEF OneAtATime, SessionNotLeftOpen, Over
<1> QED
  BY <1>5, <1>6, <1>7, <1>8, <1>9, <1>10, <1>11

LEMMA IngestInv == ASSUME NEW s \in Servers, SendInv, Ingest(s) PROVE SendInv'
<1> USE SendConstants DEF SendInv, Ingest, Network
<1>1. PICK h \in (seen[s] + 1) .. now :
        /\ \A t \in Servers : h =< seen[t] + Spread
        /\ seen' = [seen EXCEPT ![s] = h]
  OBVIOUS
<1>2. /\ seen \in [Servers -> Nat] /\ now \in Nat /\ now \in Times
      /\ \A t \in Servers : seen[t] \in Times
      /\ \A i \in Sends : send[i].closedAt \in Nat
  BY DEF TypeOK, Times, SendState
<1>3. h \in Nat /\ h > seen[s] /\ h =< now /\ h \in Times
  BY <1>2 DEF Times
<1>4. \A t \in Servers : seen'[t] = (IF t = s THEN h ELSE seen[t]) /\ seen[t] =< seen'[t]
  BY <1>1, <1>2, <1>3
<1>5. TypeOK'
  BY <1>1, <1>2, <1>3 DEF TypeOK
<1>6. LedgersInOrder'
  BY <1>1, <1>2, <1>3, <1>4 DEF LedgersInOrder
<1>7. PoolTogether'
  <2>1. \A t, u \in Servers : seen'[u] =< seen'[t] + Spread
    BY <1>1, <1>2, <1>3, <1>4 DEF PoolTogether
  <2>2. \A t \in Servers, i \in Sends : send[i].closedAt =< seen'[t] + Spread
    <3> TAKE t \in Servers, i \in Sends
    <3>1. send[i].closedAt =< seen[t] + Spread /\ seen[t] =< seen'[t]
      BY <1>4 DEF PoolTogether
    <3>2. seen[t] \in Nat /\ seen'[t] \in Nat /\ send[i].closedAt \in Nat
      BY <1>2, <1>3, <1>4
    <3> QED
      BY <3>1, <3>2
  <2> QED
    BY <2>1, <2>2 DEF PoolTogether
<1>8. OneFate' /\ NotYetSubmitted' /\ VerdictsTrue' /\ OneAtATime' /\ SessionNotLeftOpen'
  BY DEF OneFate, NotYetSubmitted, VerdictsTrue, OneAtATime, SessionNotLeftOpen, Dead,
         Decided, Over
<1> QED
  BY <1>5, <1>6, <1>7, <1>8

LEMMA SessionInv ==
    ASSUME SendInv, UNCHANGED <<Network, seen, send>>, session' \in {"swap", "none"}
    PROVE  SendInv'
  BY SendConstants
     DEF SendInv, TypeOK, LedgersInOrder, OneFate, NotYetSubmitted, PoolTogether,
         VerdictsTrue, OneAtATime, SessionNotLeftOpen, Decided, Dead, Over, Network

LEMMA StutterInv == SendInv /\ UNCHANGED vars => SendInv'
  BY DEF SendInv, TypeOK, LedgersInOrder, OneFate, NotYetSubmitted, PoolTogether, vars,
         VerdictsTrue, OneAtATime, SessionNotLeftOpen, Decided, Dead, Over

-----------------------------------------------------------------------------
(* A step of one send's task. *)

\* What a step that touches only send i, and perhaps the session, must respect.
LEMMA OneSend ==
    ASSUME SendInv, NEW i \in Sends,
           send' \in [Sends -> SendState],
           \A j \in Sends \ {i} : send'[j] = send[j],
           UNCHANGED <<Network, seen>>,
           session' \in {session, "none"},
           send[i].pc \notin {"idle", "done"}, send'[i].pc # "idle",
           send'[i].pc \in {"preparing", "ready", "signed"} =>
               send[i].pc \in {"preparing", "ready", "signed"},
           chain = "stellar" => included[i] =< send'[i].maxTime,
           \A t \in Servers : send'[i].closedAt =< seen[t] + Spread,
           send'[i].verdict # "none" => Decided(i)',
           send'[i].verdict \in Safe => i \notin paid /\ Dead(i)',
           send'[i].verdict = "success" => i \in paid,
           send'[i].pc = "done" => session' # i
    PROVE  SendInv'
<1> USE DEF SendInv, Network
<1>1. TypeOK'
  BY DEF TypeOK
<1>2. LedgersInOrder' /\ OneFate'
  BY DEF LedgersInOrder, OneFate
<1>3. NotYetSubmitted'
  BY DEF NotYetSubmitted
<1>4. PoolTogether'
  BY DEF PoolTogether
<1>5. VerdictsTrue'
  BY DEF VerdictsTrue, Dead, Decided
<1>6. OneAtATime'
  <2> SUFFICES ASSUME NEW j \in Sends, NEW k \in Sends, j # k
               PROVE  (send[j].pc = "idle" \/ send[k].pc = "idle" \/ Over(j) \/ Over(k))'
    BY DEF OneAtATime
  <2>1. \A m \in Sends \ {i} : Over(m)' <=> Over(m)
    BY DEF Over
  <2>2. ~Over(i) /\ send[i].pc # "idle"
    BY DEF Over
  <2>3. send[j].pc = "idle" \/ send[k].pc = "idle" \/ Over(j) \/ Over(k)
    BY DEF OneAtATime
  <2> QED
    BY <2>1, <2>2, <2>3
<1>7. SessionNotLeftOpen'
  BY SendConstants DEF SessionNotLeftOpen, TypeOK
<1> QED
  BY <1>1, <1>2, <1>3, <1>4, <1>5, <1>6, <1>7

\* What is known of a send at work, in the form its steps need.
LEMMA AtWork ==
    ASSUME SendInv, NEW i \in Sends
    PROVE  /\ send \in [Sends -> SendState] /\ send[i] \in SendState
           /\ now \in Nat /\ \A t \in Servers : seen[t] \in Nat
           /\ chain = "stellar" => included[i] =< send[i].maxTime
           /\ \A t \in Servers : send[i].closedAt =< seen[t] + Spread
           /\ send[i].verdict # "none" => Decided(i)
           /\ \A t \in Servers : 0 =< seen[t] + Spread
  BY SendConstants
     DEF SendInv, TypeOK, LedgersInOrder, PoolTogether, VerdictsTrue, Times

\* Moving on without a verdict is always in order.
LEMMA GotoInv ==
    ASSUME SendInv, NEW i \in Sends, NEW pc \in Steps, Goto(i, pc),
           UNCHANGED <<Network, seen>>, session' = session,
           send[i].pc \notin {"idle", "closing", "locking", "done"},
           pc \notin {"idle", "preparing", "ready", "done"},
           pc = "signed" => send[i].pc = "ready"
    PROVE  SendInv'
<1>1. /\ send' \in [Sends -> SendState]
      /\ \A j \in Sends \ {i} : send'[j] = send[j]
      /\ send'[i].pc = pc /\ send'[i].maxTime = send[i].maxTime
      /\ send'[i].closedAt = send[i].closedAt /\ send'[i].verdict = send[i].verdict
  BY AtWork DEF Goto, SendState
<1>2. send[i].verdict = "none"
  BY AtWork DEF Decided
<1> QED
  BY <1>1, <1>2, AtWork, OneSend DEF Safe

\* A verdict that is true may be given.
LEMMA DecideInv ==
    ASSUME SendInv, NEW i \in Sends, NEW v \in Verdicts, Decide(i, v),
           UNCHANGED <<Network, seen>>, session' = session,
           send[i].pc \notin {"idle", "closing", "locking", "done"},
           v \in Safe => i \notin paid /\ Dead(i),
           v = "success" => i \in paid
    PROVE  SendInv'
<1>1. /\ send' \in [Sends -> SendState]
      /\ \A j \in Sends \ {i} : send'[j] = send[j]
      /\ send'[i].pc = "closing" /\ send'[i].maxTime = send[i].maxTime
      /\ send'[i].closedAt = 0 /\ send'[i].verdict = v
  <2>1. send \in [Sends -> SendState] /\ send[i] \in SendState
    BY AtWork
  <2>2. send' = [send EXCEPT ![i] = [pc |-> "closing", maxTime |-> send[i].maxTime,
                                    closedAt |-> 0, late |-> FALSE, verdict |-> v]]
    BY DEF Decide
  <2>3. 0 \in Times
    BY SendConstants DEF Times
  <2>4. [pc |-> "closing", maxTime |-> send[i].maxTime, closedAt |-> 0,
         late |-> FALSE, verdict |-> v] \in SendState
    BY <2>1, <2>3 DEF SendState, Steps
  <2> QED
    BY <2>1, <2>2, <2>4
<1>2. Decided(i)' /\ (Dead(i) => Dead(i)')
  BY <1>1 DEF Decided, Dead, Network
<1> QED
  BY <1>1, <1>2, AtWork, OneSend

LEMMA PressInv == ASSUME SendInv, NEW i \in Sends, Press(i) PROVE SendInv'
<1> USE DEF SendInv, Press, Network
<1>1. /\ send \in [Sends -> SendState] /\ send' \in [Sends -> SendState]
      /\ \A j \in Sends \ {i} : send'[j] = send[j]
      /\ send[i].pc = "idle" /\ send'[i].pc = "preparing"
      /\ send'[i].maxTime = send[i].maxTime /\ send'[i].closedAt = send[i].closedAt
      /\ send'[i].verdict = send[i].verdict
  BY AtWork DEF Goto, MayPress, SendState, Steps
<1>2. send[i].verdict = "none"
  BY <1>1, AtWork DEF Decided
<1>3. TypeOK'
  BY <1>1 DEF TypeOK
<1>4. LedgersInOrder' /\ OneFate' /\ NotYetSubmitted' /\ PoolTogether'
  BY <1>1 DEF LedgersInOrder, OneFate, NotYetSubmitted, PoolTogether
<1>5. VerdictsTrue'
  BY <1>1, <1>2 DEF VerdictsTrue, Dead, Decided, Safe
<1>6. OneAtATime'
  <2>1. \A j \in Sends \ {i} : send[j].pc = "idle" \/ Over(j)
    BY DEF MayPress, Over
  <2>2. \A j \in Sends \ {i} : send'[j].pc = "idle" \/ Over(j)'
    BY <1>1, <2>1 DEF Over
  <2> QED
    BY <2>2 DEF OneAtATime
<1>7. SessionNotLeftOpen'
  BY <1>1 DEF SessionNotLeftOpen
<1> QED
  BY <1>3, <1>4, <1>5, <1>6, <1>7

\* Before the submit a refusal is true: nothing is on the network.
LEMMA RefuseInv ==
    ASSUME SendInv, NEW i \in Sends, send[i].pc \in {"preparing", "ready", "signed"},
           Decide(i, "refused"), UNCHANGED <<Network, seen>>, session' = session
    PROVE  SendInv'
<1>1. i \notin pool /\ i \notin paid
  BY DEF SendInv, NotYetSubmitted, OneFate
<1> QED
  BY <1>1, DecideInv DEF Dead, Verdicts, Safe

LEMMA PrepareInv == ASSUME SendInv, NEW i \in Sends, Prepare(i) PROVE SendInv'
<1>1. CASE Decide(i, "refused")
  BY <1>1, RefuseInv DEF Prepare
<1>2. CASE \E limit \in Times \ {0} :
              send' = [send EXCEPT ![i].pc = "ready", ![i].maxTime = limit]
  <2>1. PICK limit \in Times \ {0} :
              send' = [send EXCEPT ![i].pc = "ready", ![i].maxTime = limit]
    BY <1>2
  <2>2. send \in [Sends -> SendState] /\ send[i] \in SendState
    BY AtWork
  <2>3. /\ send' \in [Sends -> SendState]
        /\ \A j \in Sends \ {i} : send'[j] = send[j]
        /\ send'[i].pc = "ready" /\ send'[i].maxTime = limit
        /\ send'[i].closedAt = send[i].closedAt /\ send'[i].verdict = send[i].verdict
    BY <2>1, <2>2 DEF SendState, Steps
  <2>4. included[i] = 0 /\ limit \in Nat /\ send[i].verdict = "none"
        /\ send[i].pc = "preparing"
    BY AtWork DEF Prepare, SendInv, NotYetSubmitted, Times, Decided
  <2> QED
    BY <2>3, <2>4, AtWork, OneSend DEF Prepare, Safe, Network
<1> QED
  BY <1>1, <1>2 DEF Prepare

LEMMA SignInv == ASSUME SendInv, NEW i \in Sends, Sign(i) PROVE SendInv'
<1>1. CASE Decide(i, "refused")
  BY <1>1, RefuseInv DEF Sign
<1>2. CASE Goto(i, "signed")
  BY <1>2, GotoInv DEF Sign, Steps
<1> QED
  BY <1>1, <1>2 DEF Sign

LEMMA SubmitInv == ASSUME SendInv, NEW i \in Sends, Submit(i) PROVE SendInv'
<1> USE DEF SendInv
<1>1. PICK pc \in {"lookup", "posted", "clock"} :
        Goto(i, pc) /\ (pool' = pool \cup {i} \/ pool' = pool)
  BY DEF Submit, AfterPost, SettleFrom
<1>2. /\ send \in [Sends -> SendState] /\ send' \in [Sends -> SendState]
      /\ \A j \in Sends \ {i} : send'[j] = send[j]
      /\ send[i].pc = "signed" /\ send'[i].pc = pc
      /\ send'[i].maxTime = send[i].maxTime /\ send'[i].closedAt = send[i].closedAt
      /\ send'[i].verdict = send[i].verdict
  BY <1>1, AtWork DEF Goto, Submit, SendState, Steps
<1>3. send[i].verdict = "none" /\ included[i] = 0
  BY <1>2, AtWork DEF Decided, NotYetSubmitted
<1>4. /\ UNCHANGED <<now, included, paid, seen, session, chain>>
      /\ \A j \in Sends \ {i} : j \in pool' <=> j \in pool
  BY <1>1 DEF Submit
<1>5. TypeOK'
  BY <1>1, <1>2, <1>4 DEF TypeOK
<1>6. LedgersInOrder' /\ OneFate' /\ NotYetSubmitted' /\ PoolTogether'
  BY <1>1, <1>2, <1>3, <1>4 DEF LedgersInOrder, OneFate, NotYetSubmitted, PoolTogether
<1>7. VerdictsTrue'
  BY <1>1, <1>2, <1>3, <1>4 DEF VerdictsTrue, Dead, Decided, Safe
<1>8. OneAtATime'
  <2>1. \A j \in Sends : Over(j)' <=> Over(j)
    BY <1>1, <1>2 DEF Over
  <2> QED
    BY <2>1, <1>1, <1>2 DEF OneAtATime
<1>9. SessionNotLeftOpen'
  BY <1>1, <1>2, <1>4 DEF SessionNotLeftOpen
<1> QED
  BY <1>5, <1>6, <1>7, <1>8, <1>9

LEMMA RejectInv == ASSUME SendInv, NEW i \in Sends, Reject(i) PROVE SendInv'
  BY RefuseInv DEF Reject

\* An included transaction's outcome is final.
LEMMA OutcomeInv ==
    ASSUME SendInv, NEW i \in Sends, send[i].pc \in {"posted", "lookup"}, included[i] # 0,
           Decide(i, Outcome(i)), UNCHANGED <<Network, seen>>, session' = session
    PROVE  SendInv'
<1>1. i \notin pool
  BY DEF SendInv, OneFate
<1>2. CASE i \in paid
  BY <1>2, DecideInv DEF Outcome, Verdicts, Safe
<1>3. CASE i \notin paid
  BY <1>1, <1>3, DecideInv DEF Outcome, Verdicts, Safe, Dead
<1> QED
  BY <1>2, <1>3

LEMMA UnsettledInv ==
    ASSUME SendInv, NEW i \in Sends, send[i].pc = "lookup", StillUnsettled(i),
           UNCHANGED <<Network, seen>>, session' = session
    PROVE  SendInv'
<1>1. CASE Decide(i, "unknown")
  BY <1>1, DecideInv DEF Verdicts, Safe
<1>2. CASE Goto(i, "clock") \/ Goto(i, "lookup")
  BY <1>2, GotoInv DEF Steps
<1> QED
  BY <1>1, <1>2 DEF StillUnsettled, SettleFrom

LEMMA ReadClockInv == ASSUME SendInv, NEW i \in Sends, ReadClock(i) PROVE SendInv'
<1>1. PICK c \in {seen[s] : s \in Servers} \cup {0} :
        send' = [send EXCEPT ![i].pc = "lookup", ![i].closedAt = c]
  BY DEF ReadClock
<1>2. c \in Times /\ \A t \in Servers : c =< seen[t] + Spread
  BY <1>1, AtWork, SendConstants DEF SendInv, TypeOK, PoolTogether, Times
<1>3. /\ send' \in [Sends -> SendState]
      /\ \A j \in Sends \ {i} : send'[j] = send[j]
      /\ send'[i].pc = "lookup" /\ send'[i].maxTime = send[i].maxTime
      /\ send'[i].closedAt = c /\ send'[i].verdict = send[i].verdict
  <2>1. send \in [Sends -> SendState] /\ send[i] \in SendState
    BY AtWork
  <2> QED
    BY <1>1, <1>2, <2>1 DEF SendState, Steps
<1>4. send[i].verdict = "none"
  BY AtWork DEF ReadClock, Decided
<1> QED
  BY <1>2, <1>3, <1>4, AtWork, OneSend DEF ReadClock, Safe

\* The heart of the matter: the clock was read at some server before the lookup, no
\* server is further behind than Spread, and Margin covers Spread; so the server that
\* misses the transaction has every ledger that could hold it.
LEMMA ExpiredIsDead ==
    ASSUME SendInv, NEW i \in Sends, NEW s \in Servers, ~Found(i, s), Expired(i)
    PROVE  i \notin paid /\ Dead(i)
<1> USE SendConstants DEF SendInv
<1>1. /\ send[i].maxTime \in Nat /\ send[i].closedAt \in Nat /\ seen[s] \in Nat
      /\ now \in Nat /\ included[i] \in Nat
  BY AtWork DEF TypeOK, SendState, Times
<1>2. send[i].closedAt =< seen[s] + Spread
  BY DEF PoolTogether
<1>3. send[i].maxTime =< seen[s]
  BY <1>1, <1>2 DEF Expired
<1>4. included[i] = 0
  BY <1>1, <1>3 DEF Found, Expired, LedgersInOrder
<1>5. send[i].maxTime =< now
  BY <1>1, <1>3 DEF LedgersInOrder
<1> QED
  BY <1>4, <1>5 DEF OneFate, Dead, Expired

LEMMA LookupInv == ASSUME SendInv, NEW i \in Sends, Lookup(i) PROVE SendInv'
<1>1. PICK s \in Servers :
        \/ Found(i, s) /\ Decide(i, Outcome(i))
        \/ ~Found(i, s) /\ Expired(i) /\ Decide(i, "expired")
        \/ ~Found(i, s) /\ ~Expired(i) /\ StillUnsettled(i)
  BY DEF Lookup
<1>2. send[i].pc = "lookup" /\ UNCHANGED <<Network, seen>> /\ session' = session
  BY DEF Lookup
<1>3. CASE Found(i, s) /\ Decide(i, Outcome(i))
  BY <1>2, <1>3, OutcomeInv DEF Found
<1>4. CASE ~Found(i, s) /\ Expired(i) /\ Decide(i, "expired")
  BY <1>2, <1>4, ExpiredIsDead, DecideInv DEF Verdicts, Safe
<1>5. CASE StillUnsettled(i)
  BY <1>2, <1>5, UnsettledInv
<1> QED
  BY <1>1, <1>3, <1>4, <1>5

LEMMA DeadlineInv == ASSUME SendInv, NEW i \in Sends, Deadline(i) PROVE SendInv'
<1>1. /\ send' \in [Sends -> SendState]
      /\ \A j \in Sends \ {i} : send'[j] = send[j]
      /\ send'[i].pc = send[i].pc /\ send'[i].maxTime = send[i].maxTime
      /\ send'[i].closedAt = send[i].closedAt /\ send'[i].verdict = send[i].verdict
  BY AtWork DEF Deadline, SendState
<1>2. send[i].verdict = "none"
  BY AtWork DEF Deadline, Decided
<1> QED
  BY <1>1, <1>2, AtWork, OneSend DEF Deadline, Safe

\* Closing keeps the verdict and leaves the session to others.
LEMMA CloseInv ==
    ASSUME SendInv, NEW i \in Sends, NEW pc \in {"locking", "done"}, Goto(i, pc),
           send[i].pc \in {"closing", "locking"}, UNCHANGED <<Network, seen>>,
           session' \in {session, "none"}, pc = "done" => session' # i
    PROVE  SendInv'
<1>1. /\ send' \in [Sends -> SendState]
      /\ \A j \in Sends \ {i} : send'[j] = send[j]
      /\ send'[i].pc = pc /\ send'[i].maxTime = send[i].maxTime
      /\ send'[i].closedAt = send[i].closedAt /\ send'[i].verdict = send[i].verdict
  BY AtWork DEF Goto, SendState, Steps
<1>2. Decided(i)' /\ (Dead(i) => Dead(i)')
  BY <1>1 DEF Decided, Dead, Network
<1>3. /\ send[i].verdict \in Safe => i \notin paid /\ Dead(i)
      /\ send[i].verdict = "success" => i \in paid
  BY DEF SendInv, VerdictsTrue
<1> QED
  BY <1>1, <1>2, <1>3, AtWork, OneSend

LEMMA SendStepInv == ASSUME SendInv, NEW i \in Sends, SendStep(i) PROVE SendInv'
<1>1. CASE Answered(i)
  BY <1>1, OutcomeInv DEF Answered
<1>2. CASE Unanswered(i)
  BY <1>2, GotoInv DEF Unanswered, SettleFrom, Steps
<1>3. CASE LookupFails(i)
  BY <1>3, UnsettledInv DEF LookupFails
<1>4. CASE CheckSession(i)
  BY <1>4, CloseInv DEF CheckSession
<1>5. CASE LockSession(i)
  <2>1. session' # i
    BY <1>5, SendConstants DEF LockSession
  <2> QED
    BY <1>5, <2>1, CloseInv DEF LockSession
<1> QED
  BY <1>1, <1>2, <1>3, <1>4, <1>5, PrepareInv, SignInv, SubmitInv, RejectInv,
     ReadClockInv, LookupInv DEF SendStep

\* The inductive invariant of the sends: types, one send at a time, and what each
\* send, verdict and clock reading says of the network.
THEOREM SendInductive == Spec => []SendInv
<1>1. SendInv /\ [Next]_vars => SendInv'
  <2> SUFFICES ASSUME SendInv, [Next]_vars PROVE SendInv'
    OBVIOUS
  <2>1. CASE SwapUnlock \/ SweepReset \/ Expire
    BY <2>1, SessionInv DEF SwapUnlock, SweepReset, Expire
  <2>2. CASE UNCHANGED vars
    BY <2>2, StutterInv
  <2> QED
    BY <2>1, <2>2, TickInv, IngestInv, PressInv, SendStepInv, DeadlineInv DEF Next
<1> QED
  BY <1>1, InitSend, PTL DEF Spec

-----------------------------------------------------------------------------
(* The results. *)

\* Every variable keeps its type.
THEOREM SendTypeCorrect == Spec => []TypeOK
<1>1. SendInv => TypeOK
  BY DEF SendInv
<1> QED
  BY <1>1, SendInductive, PTL

\* A send reported as not made is never paid, whatever server answered which question.
THEOREM SafeVerdictHolds == Spec => []SafeVerdictIsFinal
<1>1. SendInv => SafeVerdictIsFinal
  BY DEF SendInv, VerdictsTrue, SafeVerdictIsFinal
<1> QED
  BY <1>1, SendInductive, PTL

\* However often the user presses after such a report, one payment is made at most.
THEOREM PaysOnce == Spec => []PaidAtMostOnce
<1>1. SendInv => PaidAtMostOnce
  <2> SUFFICES ASSUME SendInv, NEW i \in paid, NEW j \in paid, i # j PROVE FALSE
    BY DEF PaidAtMostOnce
  <2>1. i \in Sends /\ j \in Sends /\ send[i].pc # "idle" /\ send[j].pc # "idle"
    BY DEF SendInv, TypeOK, OneFate, NotYetSubmitted
  <2> QED
    BY <2>1 DEF SendInv, OneAtATime, Over, VerdictsTrue
<1> QED
  BY <1>1, SendInductive, PTL

\* A send reported as sent was paid.
THEOREM SuccessHolds == Spec => []SuccessIsPaid
<1>1. SendInv => SuccessIsPaid
  BY DEF SendInv, VerdictsTrue, SuccessIsPaid
<1> QED
  BY <1>1, SendInductive, PTL

\* A send that is over has not left its session open.
THEOREM SessionsAreClosed == Spec => []SessionNotLeftOpen
<1>1. SendInv => SessionNotLeftOpen
  BY DEF SendInv
<1> QED
  BY <1>1, SendInductive, PTL
-----------------------------------------------------------------------------
(* The refinement of Payments. *)

promised == <<[i \in Sends |-> Told(i)], [i \in Sends |-> IF i \in paid THEN 1 ELSE 0],
              [i \in Sends |-> 0]>>

\* What is told of a send, by its step and its verdict.
LEMMA ToldValues ==
    ASSUME SendInv, NEW i \in Sends
    PROVE  /\ Told(i) = "nothing" <=> send[i].pc = "idle"
           /\ Told(i) = "unpaid" <=> send[i].verdict \in Safe
           /\ Told(i) = "paid" <=> send[i].verdict = "success"
           /\ Told(i) = "unknown" <=> send[i].verdict = "unknown"
           /\ Told(i) = "open" <=> send[i].pc # "idle" /\ send[i].verdict = "none"
           /\ Told(i) \in {"nothing", "open", "paid", "unpaid", "unknown"}
<1>1. send[i] \in SendState
  BY DEF SendInv, TypeOK
<1>2. send[i].verdict \in Verdicts /\ (send[i].verdict # "none" => send[i].pc # "idle")
  BY <1>1 DEF SendInv, VerdictsTrue, Decided, SendState
<1> QED
  BY <1>2 DEF Told, Verdicts, Safe

\* A step that moves no send, and no payment, is none of the abstract specification.
LEMMA NothingTold ==
    ASSUME send' = send, paid' = paid PROVE UNCHANGED promised
<1>1. \A i \in Sends : Told(i)' = Told(i)
  BY DEF Told
<1> QED
  BY <1>1 DEF promised

\* A step of a send that was begun leaves what is told alone, or reports a verdict.
LEMMA BegunReports ==
    ASSUME SendInv, SendInv', NEW i \in Sends, paid' = paid,
           \A j \in Sends \ {i} : send'[j] = send[j],
           send[i].pc # "idle", send'[i].pc # "idle",
           send[i].verdict \in {"none", send'[i].verdict}
    PROVE  Promise!Report(i) \/ UNCHANGED promised
<1>1. \A j \in Sends \ {i} : Told(j)' = Told(j)
  BY DEF Told
<1>2. CASE Told(i)' = Told(i)
  BY <1>1, <1>2 DEF promised
<1>3. CASE Told(i)' # Told(i)
  <2>1. send[i].verdict = "none" /\ send'[i].verdict # "none"
    BY <1>3 DEF Told
  <2>2. Told(i) = "open"
    BY <2>1, ToldValues
  <2>3. /\ Told(i)' \in {"paid", "unpaid", "unknown"}
        /\ Told(i)' = "unpaid" => i \notin paid
        /\ Told(i)' = "paid" => i \in paid
    <3>1. send'[i].verdict \in Verdicts
      BY DEF SendInv, TypeOK, SendState
    <3>2. /\ send'[i].verdict \in Safe => i \notin paid
          /\ send'[i].verdict = "success" => i \in paid
      BY DEF SendInv, VerdictsTrue
    <3> QED
      BY <2>1, <3>1, <3>2 DEF Told, Verdicts, Safe
  <2>4. [j \in Sends |-> Told(j)]' = [[j \in Sends |-> Told(j)] EXCEPT ![i] = Told(i)']
    BY <1>1
  <2> QED
    <3>1. PICK r \in {"paid", "unpaid", "unknown"} : r = Told(i)'
      BY <2>3
    <3>2. r = "unpaid" => i \notin paid
      BY <2>3, <3>1
    <3>3. r = "paid" => i \in paid
      BY <2>3, <3>1
    <3>4. [j \in Sends |-> Told(j)]' = [[j \in Sends |-> Told(j)] EXCEPT ![i] = r]
      BY <2>4, <3>1
    <3>5. [j \in Sends |-> Told(j)][i] = "open"
      BY <2>2
    <3>6. /\ r \in Promise!Unpaid => [j \in Sends |-> IF j \in paid THEN 1 ELSE 0][i]
                                       <= [j \in Sends |-> 0][i]
          /\ r = "paid" => [j \in Sends |-> IF j \in paid THEN 1 ELSE 0][i] > 0
          /\ r \in Promise!Reports \ {"open", "forgotten"}
      BY <3>1, <3>2, <3>3 DEF Promise!Reports, Promise!Unpaid
    <3>7. UNCHANGED <<[j \in Sends |-> IF j \in paid THEN 1 ELSE 0], [j \in Sends |-> 0]>>
      OBVIOUS
    <3> QED
      BY <3>4, <3>5, <3>6, <3>7 DEF Promise!Report
<1> QED
  BY <1>2, <1>3

\* A press starts a payment whose rivals are over.
LEMMA PressStarts ==
    ASSUME SendInv, SendInv', NEW i \in Sends, Press(i) PROVE Promise!Start(i)
<1>1. /\ send[i].pc = "idle" /\ send' = [send EXCEPT ![i].pc = "preparing"]
      /\ paid' = paid /\ send \in [Sends -> SendState]
  BY DEF Press, MayPress, Goto, Network, SendInv, TypeOK
<1>2. send'[i].pc = "preparing" /\ send'[i].verdict = "none"
  BY <1>1 DEF SendInv, VerdictsTrue, Decided, SendState
<1>3. Told(i) = "nothing" /\ Told(i)' = "open"
  BY <1>1, <1>2 DEF Told, Safe
<1>4. \A j \in Sends \ {i} : Told(j)' = Told(j)
  BY <1>1 DEF Told
<1>5. \A j \in Sends \ {i} : Told(j) \in {"nothing", "unpaid"}
  BY ToldValues DEF Press, MayPress
<1>6. i \notin paid
  BY <1>1 DEF SendInv, OneFate, NotYetSubmitted
<1>7. [j \in Sends |-> Told(j)]' = [[j \in Sends |-> Told(j)] EXCEPT ![i] = "open"]
  BY <1>3, <1>4
<1> QED
  BY <1>1, <1>3, <1>5, <1>6, <1>7 DEF Promise!Start, Promise!Unpaid

\* A ledger pays one send at most, and that one is open or unknown.
LEMMA TickPays ==
    ASSUME SendInv, Tick
    PROVE  (\E i \in Sends : Promise!Pay(i)) \/ UNCHANGED promised
<1>1. PICK chosen \in SUBSET {i \in pool : Includable(i)} :
        \E won \in SUBSET chosen : paid' = paid \cup won
  BY DEF Tick
<1>2. PICK won \in SUBSET chosen : paid' = paid \cup won
  BY <1>1
<1>3. send' = send
  BY DEF Tick
<1>4. \A i \in won : i \in Sends /\ send[i].pc # "idle" /\ ~Dead(i) /\ i \notin paid
  BY DEF Includable, SendInv, TypeOK, OneFate, NotYetSubmitted, Dead, SendState, Times
<1>5. \A i, j \in won : i = j
  BY <1>4 DEF SendInv, OneAtATime, Over, VerdictsTrue
<1>6. CASE won = {}
  BY <1>2, <1>3, <1>6, NothingTold
<1>7. CASE won # {}
  <2>1. PICK i \in won : won = {i}
    BY <1>5, <1>7
  <2>2. i \in Sends /\ send[i].verdict \notin Safe \cup {"success"}
    BY <1>4, <2>1 DEF SendInv, VerdictsTrue
  <2>3. Told(i) \in {"open", "unknown"}
    BY <1>4, <2>1, <2>2, ToldValues
  <2>4. \A j \in Sends : Told(j)' = Told(j)
    BY <1>3 DEF Told
  <2>5. [j \in Sends |-> IF j \in paid THEN 1 ELSE 0]'
          = [[j \in Sends |-> IF j \in paid THEN 1 ELSE 0] EXCEPT ![i] = @ + 1]
    <3>1. \A j \in Sends : j \in paid' <=> j = i \/ j \in paid
      BY <1>2, <2>1
    <3>2. i \notin paid
      BY <1>4, <2>1
    <3>3. /\ [j \in Sends |-> IF j \in paid THEN 1 ELSE 0][i] + 1 = 1
          /\ \A j \in Sends \ {i} : j \in paid' <=> j \in paid
          /\ i \in paid'
      BY <2>2, <3>1, <3>2
    <3> QED
      BY <2>2, <3>3
  <2>6. Promise!Pay(i)
    BY <1>4, <2>1, <2>2, <2>3, <2>4, <2>5 DEF Promise!Pay
  <2> QED
    BY <2>2, <2>6
<1> QED
  BY <1>6, <1>7

\* A step of a send's task keeps it begun, and a verdict once given.
LEMMA StepsOfBegun ==
    ASSUME SendInv, NEW i \in Sends, SendStep(i) \/ Deadline(i)
    PROVE  /\ paid' = paid
           /\ \A j \in Sends \ {i} : send'[j] = send[j]
           /\ send[i].pc # "idle" /\ send'[i].pc # "idle"
           /\ send[i].verdict \in {"none", send'[i].verdict}
<1>1. /\ send \in [Sends -> SendState]
      /\ send[i].pc \notin {"closing", "locking", "done"} => send[i].verdict = "none"
  BY DEF SendInv, TypeOK, VerdictsTrue, Decided
<1>2. ASSUME NEW v, Decide(i, v), send[i].pc \notin {"idle", "closing", "locking", "done"}
      PROVE  /\ \A j \in Sends \ {i} : send'[j] = send[j]
             /\ send[i].pc # "idle" /\ send'[i].pc # "idle"
             /\ send[i].verdict \in {"none", send'[i].verdict}
  BY <1>1, <1>2 DEF Decide
<1>3. ASSUME NEW p, Goto(i, p), p # "idle", send[i].pc # "idle"
      PROVE  /\ \A j \in Sends \ {i} : send'[j] = send[j]
             /\ send[i].pc # "idle" /\ send'[i].pc # "idle"
             /\ send[i].verdict \in {"none", send'[i].verdict}
  BY <1>1, <1>3 DEF Goto, SendState
<1>4. SettleFrom(i) # "idle" /\ AfterPost(i) # "idle"
  BY DEF SettleFrom, AfterPost
<1> USE DEF Network
<1>5. CASE Prepare(i)
  BY <1>1, <1>2, <1>5 DEF Prepare, SendState
<1>6. CASE Sign(i)
  BY <1>2, <1>3, <1>6 DEF Sign
<1>7. CASE Submit(i)
  BY <1>3, <1>4, <1>7 DEF Submit
<1>8. CASE Reject(i)
  BY <1>2, <1>8 DEF Reject
<1>9. CASE Answered(i)
  BY <1>2, <1>9 DEF Answered
<1>10. CASE Unanswered(i)
  BY <1>3, <1>4, <1>10 DEF Unanswered
<1>11. CASE ReadClock(i)
  BY <1>1, <1>11 DEF ReadClock, SendState
<1>12. CASE Lookup(i)
  BY <1>2, <1>3, <1>4, <1>12 DEF Lookup, StillUnsettled
<1>13. CASE LookupFails(i)
  BY <1>2, <1>3, <1>4, <1>13 DEF LookupFails, StillUnsettled
<1>14. CASE CheckSession(i)
  BY <1>3, <1>14 DEF CheckSession
<1>15. CASE LockSession(i)
  BY <1>3, <1>15 DEF LockSession
<1>16. CASE Deadline(i)
  BY <1>1, <1>16 DEF Deadline, SendState
<1> QED
  BY <1>5, <1>6, <1>7, <1>8, <1>9, <1>10, <1>11, <1>12, <1>13, <1>14, <1>15, <1>16
     DEF SendStep

\* The presses of one payment, their settling by hash and the network implement the
\* abstract payments, each press a rival of every other.
THEOREM SendsArePayments == Spec => ImplementsPayments
<1>1. Init => Promise!Init
  <2> SUFFICES ASSUME Init PROVE Promise!Init
    OBVIOUS
  <2>1. \A i \in Sends : Told(i) = "nothing" /\ i \notin paid
    BY DEF Init, Told, Safe
  <2> QED
    BY <2>1 DEF Promise!Init
<1>2. ASSUME SendInv, SendInv', [Next]_vars
      PROVE  [Promise!Next]_promised
  <2>1. CASE Tick
    BY <1>2, <2>1, TickPays DEF Promise!Next
  <2>2. ASSUME NEW s \in Servers, Ingest(s) PROVE UNCHANGED promised
    BY <2>2, NothingTold DEF Ingest, Network
  <2>3. CASE SwapUnlock \/ SweepReset \/ Expire
    BY <2>3, NothingTold DEF SwapUnlock, SweepReset, Expire, Network
  <2>4. ASSUME NEW i \in Sends, Press(i) PROVE Promise!Next
    BY <1>2, <2>4, PressStarts DEF Promise!Next
  <2>5. ASSUME NEW i \in Sends, SendStep(i) \/ Deadline(i) PROVE [Promise!Next]_promised
    BY <1>2, <2>5, StepsOfBegun, BegunReports DEF Promise!Next
  <2>6. CASE UNCHANGED vars
    BY <2>6, NothingTold DEF vars
  <2> QED
    BY <1>2, <2>1, <2>2, <2>3, <2>4, <2>5, <2>6 DEF Next
<1> QED
  BY <1>1, <1>2, SendInductive, PTL DEF Spec, ImplementsPayments, Promise!Spec, promised
=============================================================================
