---------------------------- MODULE SessionSend ----------------------------
(***************************************************************************)
(* A dashboard send on Stellar, Sui or NEAR: the press of the button, the  *)
(* one signing session Rust holds, the single submit, and the settling of  *)
(* an uncertain submit by looking the transaction up by its hash.          *)
(*                                                                         *)
(* Time is the network's: a ledger closes at every instant.  Horizon is a  *)
(* pool of servers, each of which has ingested the ledgers up to some      *)
(* instant.  The wallet's own clock only fixes a Stellar transaction's     *)
(* time limit and the end of its patience; both are arbitrary here.  The   *)
(* sequence number (Stellar), the object versions (Sui) and the nonce      *)
(* (NEAR) are left out: they only make fewer payments possible.            *)
(***************************************************************************)
EXTENDS Naturals, FiniteSets

CONSTANTS
    Sends,       \* the presses of Send for one payment the user means to make
    Servers,     \* Horizon's pool, or the RPC nodes
    Spread,      \* how far apart two servers of the pool may be
    Margin,      \* stellarLedgerMarginSecs
    EndOfTime    \* bound on the network's clock

ASSUME SendConstants ==
    /\ Spread \in Nat
    /\ Margin \in Nat
    /\ Spread =< Margin + 1
    /\ EndOfTime \in Nat
    /\ Sends \cap {"swap", "none"} = {}

VARIABLES
    now,       \* close time of the latest ledger
    seen,      \* seen[s]: the latest ledger server s has ingested
    pool,      \* transactions the network holds and has not included
    included,  \* included[i]: the ledger that included i's transaction, 0 if none
    paid,      \* the sends whose payment was made
    session,   \* whose session Rust holds
    chain,     \* the chain the payment is on
    send       \* the state of each send's task

vars == <<now, seen, pool, included, paid, session, chain, send>>

Times == 0 .. EndOfTime
Chains == {"stellar", "sui", "near"}
Steps == {"idle", "preparing", "ready", "signed", "posted", "clock", "lookup",
          "closing", "locking", "done"}

\* The verdicts that tell the user nothing left, and that sending again is safe.
Safe == {"refused", "failed", "expired"}
Verdicts == Safe \cup {"none", "success", "unknown"}

SendState == [pc : Steps, maxTime : Times, closedAt : Times, late : BOOLEAN,
              verdict : Verdicts]

TypeOK ==
    /\ now \in Times
    /\ seen \in [Servers -> Times]
    /\ pool \subseteq Sends
    /\ included \in [Sends -> Times]
    /\ paid \subseteq Sends
    /\ session \in Sends \cup {"swap", "none"}
    /\ chain \in Chains
    /\ send \in [Sends -> SendState]

Init ==
    /\ now = 0
    /\ seen = [s \in Servers |-> 0]
    /\ pool = {}
    /\ included = [i \in Sends |-> 0]
    /\ paid = {}
    /\ session = "none"
    /\ chain \in Chains
    /\ send = [i \in Sends |-> [pc |-> "idle", maxTime |-> 0, closedAt |-> 0,
                                late |-> FALSE, verdict |-> "none"]]

-----------------------------------------------------------------------------
(* The network. *)

Network == <<now, pool, included, paid, chain>>

\* The network can still put i's transaction in a ledger after now.
Includable(i) ==
    /\ i \in pool
    /\ chain = "stellar" => now < send[i].maxTime

\* A ledger closes with some of the waiting transactions; each runs or fails.
Tick ==
    /\ now < EndOfTime
    /\ now' = now + 1
    /\ \E chosen \in SUBSET {i \in pool : Includable(i)} :
        /\ pool' = pool \ chosen
        /\ included' = [i \in Sends |-> IF i \in chosen THEN now + 1 ELSE included[i]]
        /\ \E won \in SUBSET chosen : paid' = paid \cup won
    /\ UNCHANGED <<seen, session, chain, send>>

\* A server ingests ledgers; the servers of the pool stay within Spread.
Ingest(s) ==
    /\ \E h \in (seen[s] + 1) .. now :
        /\ \A t \in Servers : h =< seen[t] + Spread
        /\ seen' = [seen EXCEPT ![s] = h]
    /\ UNCHANGED <<Network, session, send>>

-----------------------------------------------------------------------------
(* The other users of the session, and its time to live. *)

\* The swap modal unlocks for its own signatures; it never locks again.
SwapUnlock ==
    /\ session' = "swap"
    /\ UNCHANGED <<Network, seen, send>>

\* The sweep-back card is cancelled or done: it locks whatever session is open.
SweepReset ==
    /\ session' = "none"
    /\ UNCHANGED <<Network, seen, send>>

\* A send's session runs out.  (What ends a swap's session is not asked here.)
Expire ==
    /\ session \in Sends
    /\ session' = "none"
    /\ UNCHANGED <<Network, seen, send>>

-----------------------------------------------------------------------------
(* One send. *)

Goto(i, pc) == send' = [send EXCEPT ![i].pc = pc]

\* The send is decided; what the settle loop held is gone, and the session is
\* closed in the "finally" that follows.
Decide(i, verdict) ==
    send' = [send EXCEPT ![i] = [pc |-> "closing", maxTime |-> send[i].maxTime,
                                 closedAt |-> 0, late |-> FALSE, verdict |-> verdict]]

\* The form is open, nothing is being sent, and the user knows of no payment:
\* one that ended "success" or "unknown" is not repeated.
MayPress(i) ==
    /\ send[i].pc = "idle"
    /\ \A j \in Sends \ {i} :
        \/ send[j].pc = "idle"
        \/ send[j].pc = "done" /\ send[j].verdict \in Safe

\* handleSend calls the override, which opens a session of its own.
Press(i) ==
    /\ MayPress(i)
    /\ Goto(i, "preparing")
    /\ session' = i
    /\ UNCHANGED <<Network, seen>>

\* The signer's address is the wallet's, the account and the recipient are read,
\* the transaction is built with its time limit; any check may refuse.
Prepare(i) ==
    /\ send[i].pc = "preparing"
    /\ \/ /\ session = i
          /\ \E limit \in Times \ {0} :
              send' = [send EXCEPT ![i].pc = "ready", ![i].maxTime = limit]
       \/ Decide(i, "refused")
    /\ UNCHANGED <<Network, seen, session>>

Sign(i) ==
    /\ send[i].pc = "ready"
    /\ \/ session = i /\ Goto(i, "signed")
       \/ Decide(i, "refused")
    /\ UNCHANGED <<Network, seen, session>>

\* NEAR's broadcast answers before anything is validated: only the lookup counts.
AfterPost(i) == IF chain = "near" THEN "lookup" ELSE "posted"

\* A Stellar settle reads the ledger clock before it looks the hash up.
SettleFrom(i) == IF chain = "stellar" THEN "clock" ELSE "lookup"

\* The submit reaches the network, or is lost on the way.
Submit(i) ==
    /\ send[i].pc = "signed"
    /\ \/ pool' = pool \cup {i} /\ Goto(i, AfterPost(i))
       \/ pool' = pool /\ Goto(i, SettleFrom(i))
    /\ UNCHANGED <<now, included, paid, seen, session, chain>>

\* Horizon's JSON 400: the network never took the transaction.
Reject(i) ==
    /\ send[i].pc = "signed"
    /\ chain = "stellar"
    /\ Decide(i, "refused")
    /\ UNCHANGED <<Network, seen, session>>

Outcome(i) == IF i \in paid THEN "success" ELSE "failed"

\* The submit's answer names the outcome ...
Answered(i) ==
    /\ send[i].pc = "posted"
    /\ included[i] # 0
    /\ Decide(i, Outcome(i))
    /\ UNCHANGED <<Network, seen, session>>

\* ... or a time-out, a gateway's page, a dropped connection names none.
Unanswered(i) ==
    /\ send[i].pc = "posted"
    /\ Goto(i, SettleFrom(i))
    /\ UNCHANGED <<Network, seen, session>>

\* Mutant of ReadClock: the wallet's own clock stands for the ledger's.
ReadOwnClock(i) ==
    /\ send[i].pc = "clock"
    /\ send' = [send EXCEPT ![i].pc = "lookup", ![i].closedAt = now + 1]
    /\ UNCHANGED <<Network, seen, session>>

\* The ledger clock first: the close time some server knows, or no answer (0).
ReadClock(i) ==
    /\ send[i].pc = "clock"
    /\ \E c \in {seen[s] : s \in Servers} \cup {0} :
        send' = [send EXCEPT ![i].pc = "lookup", ![i].closedAt = c]
    /\ UNCHANGED <<Network, seen, session>>

Found(i, s) == included[i] # 0 /\ included[i] =< seen[s]

\* Mutant of Expired: the pool is taken for one server.
ExpiredNoMargin(i) ==
    /\ chain = "stellar"
    /\ send[i].closedAt > send[i].maxTime

\* No ledger the pool may still be missing can hold the transaction.
Expired(i) ==
    /\ chain = "stellar"
    /\ send[i].closedAt > send[i].maxTime + Margin

\* Mutants of StillUnsettled: an uncertain send is a failed one; no deadline.
UncertainIsFailed(i) ==
    IF send[i].late THEN Decide(i, "failed") ELSE Goto(i, SettleFrom(i))
AsksForEver(i) == Goto(i, SettleFrom(i))

\* Neither found nor expired: ask again, until the patience ends.
StillUnsettled(i) ==
    IF send[i].late THEN Decide(i, "unknown") ELSE Goto(i, SettleFrom(i))

\* The lookup by hash goes to any server of the pool.
Lookup(i) ==
    /\ send[i].pc = "lookup"
    /\ \E s \in Servers :
        \/ Found(i, s) /\ Decide(i, Outcome(i))
        \/ ~Found(i, s) /\ Expired(i) /\ Decide(i, "expired")
        \/ ~Found(i, s) /\ ~Expired(i) /\ StillUnsettled(i)
    /\ UNCHANGED <<Network, seen, session>>

LookupFails(i) ==
    /\ send[i].pc = "lookup"
    /\ StillUnsettled(i)
    /\ UNCHANGED <<Network, seen, session>>

\* The wallet's clock passes the deadline of the settle loop.
Deadline(i) ==
    /\ send[i].pc \in {"clock", "lookup"}
    /\ ~send[i].late
    /\ send' = [send EXCEPT ![i].late = TRUE]
    /\ UNCHANGED <<Network, seen, session>>

\* Mutant of CheckSession: the session is left to its time to live.
LeavesSessionOpen(i) ==
    /\ send[i].pc = "closing"
    /\ Goto(i, "done")
    /\ UNCHANGED <<Network, seen, session>>

\* closeSendSession: a read gated on our session, then the lock of any session.
CheckSession(i) ==
    /\ send[i].pc = "closing"
    /\ Goto(i, IF session = i THEN "locking" ELSE "done")
    /\ UNCHANGED <<Network, seen, session>>

LockSession(i) ==
    /\ send[i].pc = "locking"
    /\ session' = "none"
    /\ Goto(i, "done")
    /\ UNCHANGED <<Network, seen>>

SendStep(i) ==
    \/ Prepare(i) \/ Sign(i) \/ Submit(i) \/ Reject(i)
    \/ Answered(i) \/ Unanswered(i)
    \/ ReadClock(i) \/ Lookup(i) \/ LookupFails(i)
    \/ CheckSession(i) \/ LockSession(i)

-----------------------------------------------------------------------------
Next ==
    \/ Tick
    \/ \E s \in Servers : Ingest(s)
    \/ SwapUnlock \/ SweepReset \/ Expire
    \/ \E i \in Sends : Press(i) \/ SendStep(i) \/ Deadline(i)

Spec == Init /\ [][Next]_vars

\* The webview runs every task whose call has ended, each call ends, and the
\* wallet's clock runs.  The network owes nothing.
Fairness == \A i \in Sends : WF_vars(SendStep(i)) /\ WF_vars(Deadline(i))

FairSpec == Spec /\ Fairness

-----------------------------------------------------------------------------
(* Properties. *)

\* What the user was told did not happen never happens: a send reported as
\* refused, failed or expired is not paid, now or later (session-send.ts,
\* submitStellar and settleStellarByHash).
SafeVerdictIsFinal ==
    \A i \in Sends : send[i].verdict \in Safe => i \notin paid

\* A user who presses again only after such a report pays once, whatever the
\* network, the pool and the clocks do.
PaidAtMostOnce ==
    \A i, j \in paid : i = j

\* A send reported as sent was paid.
SuccessIsPaid ==
    \A i \in Sends : send[i].verdict = "success" => i \in paid

\* When a send is over, the session it opened is not left open (App.tsx, the
\* "finally" of sessionSignedSendOverride).
SessionNotLeftOpen ==
    \A i \in Sends : send[i].pc = "done" => session # i

\* Every press ends with a verdict: success, a safe failure, or "unknown".
SendSettles ==
    \A i \in Sends : send[i].pc # "idle" ~> send[i].pc = "done"

\* A swap that unlocked loses its session to another unlock, never to somebody
\* else's lock (the comment on closeSendSession).
SwapKeepsSession == [][session = "swap" => session' # "none"]_vars

\* What the user knows of a press.
Told(i) ==
    CASE send[i].pc = "idle" -> "nothing"
      [] send[i].verdict \in Safe -> "unpaid"
      [] send[i].verdict = "success" -> "paid"
      [] send[i].verdict = "unknown" -> "unknown"
      [] OTHER -> "open"

Promise == INSTANCE Payments WITH
    Items <- Sends,
    Rivals <- [i \in Sends |-> Sends \ {i}],
    told <- [i \in Sends |-> Told(i)],
    paid <- [i \in Sends |-> IF i \in paid THEN 1 ELSE 0],
    lapses <- [i \in Sends |-> 0]

\* The presses of one payment are rivals of which one is paid, a report of
\* success was paid and one of failure never will be, over lost submits, stale
\* servers and the wallet's own deadline.
ImplementsPayments == Promise!Spec
=============================================================================
