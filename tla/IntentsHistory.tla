-------------------------- MODULE IntentsHistory --------------------------
(***************************************************************************)
(* What follows a NEAR Intents deposit: its row in the swap history, the   *)
(* queue through which every row is written, and the pollers that settle   *)
(* it from 1Click's answers: the confirm modal's, the resume pass's and    *)
(* the details view's.                                                     *)
(*                                                                         *)
(* A swap stands for its quote and its id too: IntentsDeposit lets one     *)
(* submission at most pay a quote.                                         *)
(***************************************************************************)
EXTENDS Naturals, Sequences

CONSTANTS
    Swaps,     \* deposits the wallet makes
    AddressOf, \* where each is made; some addresses are shared
    Detailed   \* the swaps whose details the user looks at

ASSUME HistoryConstants == DOMAIN AddressOf = Swaps /\ Detailed \subseteq Swaps

VARIABLES
    exec,    \* the submission of each swap
    queue,   \* history writes waiting
    writing, \* history writes that have read the list, with what they read
    rows,    \* the stored list: the status of each row
    polls,   \* the pollers of each swap
    resume,  \* the session's resume pass: to come, with the list read, begun; or skipped
    loaded,  \* the pending rows of the list it read
    final    \* external: what 1Click says of each swap

vars == <<exec, queue, writing, rows, polls, resume, loaded, final>>

Terminal == {"success", "refunded", "failed"}
Statuses == Terminal \cup {"none", "pending"}
Pollers == {"modal", "resume", "details"}

\* "written": historyWritten.
NoExec == [pc |-> "idle", written |-> FALSE]

\* A write: the submission's row, or the status a poller read.
Jobs == [swap : Swaps, by : Pollers \cup {"exec"}, status : Terminal \cup {"pending"}]

TypeOK ==
    /\ exec \in [Swaps -> [pc : {"idle", "row", "follow"}, written : BOOLEAN]]
    /\ queue \in Seq(Jobs)
    /\ writing \subseteq [job : Jobs, read : [Swaps -> Statuses]]
    /\ rows \in [Swaps -> Statuses]
    /\ polls \in [Swaps -> [Pollers -> {"no", "asking", "writing", "over"}]]
    /\ resume \in {"no", "loaded", "begun", "skipped"}
    /\ loaded \subseteq Swaps
    /\ final \in [Swaps -> Terminal \cup {"open"}]

NoPolls == [s \in Swaps |-> [k \in Pollers |-> "no"]]

Init ==
    /\ exec = [s \in Swaps |-> NoExec]
    /\ queue = <<>>
    /\ writing = {}
    /\ rows = [s \in Swaps |-> "none"]
    /\ polls = NoPolls
    /\ resume = "no"
    /\ loaded = {}
    /\ final = [s \in Swaps |-> "open"]

-----------------------------------------------------------------------------
(* The submission.                                                         *)

Enqueue(s, by, status) == queue' = Append(queue, [swap |-> s, by |-> by, status |-> status])
Moves(s, k, state) == polls' = [polls EXCEPT ![s][k] = state]

\* The deposit has a hash, or an unknown outcome: its row is written first.
Deposited(s) ==
    /\ exec[s] = NoExec
    /\ rows[s] = "none"
    /\ final[s] = "open"
    /\ exec' = [exec EXCEPT ![s].pc = "row"]
    /\ Enqueue(s, "exec", "pending")
    /\ UNCHANGED <<writing, rows, polls, resume, loaded, final>>

-----------------------------------------------------------------------------
(* The history: each write reads the list, changes it and stores it back.  *)

\* An append, or an update, which leaves a list without the row as it is.
Write(job, list) ==
    IF job.by = "exec" \/ list[job.swap] # "none"
    THEN [list EXCEPT ![job.swap] = job.status]
    ELSE list

BeginAtOnce ==
    /\ queue # <<>>
    /\ writing' = writing \cup {[job |-> Head(queue), read |-> rows]}
    /\ queue' = Tail(queue)
    /\ UNCHANGED <<exec, rows, polls, resume, loaded, final>>

\* One write at a time.
Begin ==
    /\ queue # <<>>
    /\ writing = {}
    /\ writing' = {[job |-> Head(queue), read |-> rows]}
    /\ queue' = Tail(queue)
    /\ UNCHANGED <<exec, rows, polls, resume, loaded, final>>

\* What the writer does when its write is over.  The submission also tells
\* 1Click the hash, which may fail, and then follows the deposit.
Resolved(job, ok) ==
    LET s == job.swap IN
    \/ /\ job.by = "exec"
       /\ exec' = [exec EXCEPT ![s] = [pc |-> "follow", written |-> ok]]
       /\ Moves(s, "modal", "asking")
    \/ /\ job.by \in {"modal", "resume"}
       /\ Moves(s, job.by, "over")
       /\ UNCHANGED exec
    \/ /\ job.by = "details"
       /\ polls' = [polls EXCEPT ![s]["details"] =
                       IF @ = "writing" THEN (IF ok THEN "no" ELSE "asking") ELSE @]
       /\ UNCHANGED exec

Commit ==
    /\ \E w \in writing :
       /\ writing' = writing \ {w}
       /\ rows' = Write(w.job, w.read)
       /\ Resolved(w.job, TRUE)
    /\ UNCHANGED <<queue, resume, loaded, final>>

\* The store refused; the queue goes on.
Rejected ==
    /\ \E w \in writing :
       /\ writing' = writing \ {w}
       /\ Resolved(w.job, FALSE)
    /\ UNCHANGED <<queue, rows, resume, loaded, final>>

-----------------------------------------------------------------------------
(* Pollers.                                                                *)

AtAddress(s) == {r \in Swaps : AddressOf[r] = AddressOf[s]}

DescribesAny(s, r) == r \in AtAddress(s)

\* pollIntentsToTerminal asks with the memo and drops an answer that echoes
\* another deposit: what it goes on with is about r only if r is its own.
Describes(s, r) == r = s
AnswerOfAnyStatus(s, r) == Describes(s, r)
Answer(s, r) == Describes(s, r) /\ final[r] \in Terminal

\* followIntents: a row whose first write failed is not updated.
ModalAnswer(s) ==
    /\ polls[s]["modal"] = "asking"
    /\ \E r \in AtAddress(s) :
       /\ Answer(s, r)
       /\ \/ /\ exec[s].written
             /\ Enqueue(s, "modal", final[r])
             /\ Moves(s, "modal", "writing")
          \/ /\ ~exec[s].written
             /\ Moves(s, "modal", "over")
             /\ UNCHANGED queue
    /\ UNCHANGED <<exec, writing, rows, resume, loaded, final>>

\* Once per session: the list is read, and the rows of before 2026-09-29 are
\* settled while it waits; then the rows pending in that list are asked about
\* that no poller of the session is watching by then.
Load ==
    /\ resume = "no"
    /\ resume' = "loaded"
    /\ loaded' = {s \in Swaps : rows[s] = "pending"}
    /\ UNCHANGED <<exec, queue, writing, rows, polls, final>>

\* The list cannot be read: there is no resume pass in this session.
LoadFails ==
    /\ resume = "no"
    /\ resume' = "skipped"
    /\ UNCHANGED <<exec, queue, writing, rows, polls, loaded, final>>

ActiveByAddress(s) == \E r \in AtAddress(s) : polls[r]["modal"] = "asking"
IsActive(s) == polls[s]["modal"] = "asking"
ToResumeOfThisSession == {s \in loaded : exec[s].written /\ ~IsActive(s)}
ToResume == {s \in loaded : ~IsActive(s)}

Resume ==
    /\ resume = "loaded"
    /\ resume' = "begun"
    /\ loaded' = {}
    /\ polls' = [s \in Swaps |->
          IF s \in ToResume THEN [polls[s] EXCEPT !["resume"] = "asking"] ELSE polls[s]]
    /\ UNCHANGED <<exec, queue, writing, rows, final>>

ResumeAnswer(s) ==
    /\ polls[s]["resume"] = "asking"
    /\ \E r \in AtAddress(s) : Answer(s, r) /\ Enqueue(s, "resume", final[r])
    /\ Moves(s, "resume", "writing")
    /\ UNCHANGED <<exec, writing, rows, resume, loaded, final>>

TimesOut(s) ==
    /\ \E k \in {"modal", "resume"} : polls[s][k] = "asking" /\ Moves(s, k, "over")
    /\ UNCHANGED <<exec, queue, writing, rows, resume, loaded, final>>

\* Bound: details are opened again once their last write is over.
QuietDetails(s) ==
    /\ \A i \in DOMAIN queue : queue[i].swap # s \/ queue[i].by # "details"
    /\ \A w \in writing : w.job.swap # s \/ w.job.by # "details"

OpenDetails(s) ==
    /\ s \in Detailed
    /\ rows[s] = "pending"
    /\ polls[s]["details"] = "no"
    /\ QuietDetails(s)
    /\ Moves(s, "details", "asking")
    /\ UNCHANGED <<exec, queue, writing, rows, resume, loaded, final>>

CloseDetails(s) ==
    /\ polls[s]["details"] # "no"
    /\ Moves(s, "details", "no")
    /\ UNCHANGED <<exec, queue, writing, rows, resume, loaded, final>>

\* watchIntentsSwap asks by the address alone, takes the answer as it is, and
\* patches the row if it is stored as pending when the answer comes.
DetailsAnswer(s) ==
    /\ polls[s]["details"] = "asking"
    /\ \/ /\ rows[s] = "pending"
          /\ \E r \in AtAddress(s) :
             /\ final[r] \in Terminal
             /\ Enqueue(s, "details", final[r])
          /\ Moves(s, "details", "writing")
       \/ /\ rows[s] # "pending"
          /\ Moves(s, "details", "no")
          /\ UNCHANGED queue
    /\ UNCHANGED <<exec, writing, rows, resume, loaded, final>>

-----------------------------------------------------------------------------

\* External: 1Click settles a deposit once; one that never arrived lapses.
Decide(s) ==
    /\ exec[s].pc # "idle" \/ rows[s] # "none"
    /\ final[s] = "open"
    /\ \E f \in Terminal : final' = [final EXCEPT ![s] = f]
    /\ UNCHANGED <<exec, queue, writing, rows, polls, resume, loaded>>

\* The list is on disk; the writes under way, the pollers and the rest are not.
Restart ==
    /\ exec' = [s \in Swaps |-> NoExec]
    /\ queue' = <<>>
    /\ writing' = {}
    /\ polls' = NoPolls
    /\ resume' = "no"
    /\ loaded' = {}
    /\ UNCHANGED <<rows, final>>

Wallet(s) == Deposited(s) \/ ModalAnswer(s) \/ ResumeAnswer(s) \/ TimesOut(s)
Details(s) == OpenDetails(s) \/ CloseDetails(s) \/ DetailsAnswer(s)

Next ==
    \/ \E s \in Swaps : Wallet(s) \/ Details(s) \/ Decide(s)
    \/ Begin \/ Commit \/ Rejected \/ Load \/ LoadFails \/ Resume \/ Restart

Spec == Init /\ [][Next]_vars

\* The store answers every call, if only with an error, the resume pass goes on and
\* a poller that asks on is answered.  Nobody owes a restart, an open details view or a decision.
Fairness ==
    /\ WF_vars(Begin)
    /\ WF_vars(Commit \/ Rejected)
    /\ WF_vars(Load \/ LoadFails) /\ WF_vars(Resume)
    /\ \A s \in Swaps : WF_vars(ModalAnswer(s)) /\ WF_vars(ResumeAnswer(s))

FairSpec == Spec /\ Fairness

-----------------------------------------------------------------------------
(* Properties.                                                             *)

\* A row the modal counts as written is in the history: no write of another
\* swap, and no other writer, drops it (enqueueWrite, swap-history-store.ts).
WrittenIsKept == \A s \in Swaps : exec[s].written => rows[s] # "none"

\* A settled row says what 1Click said of that swap, not of another at the same
\* address.  Rows whose details are looked at are left to DetailsTellOwn.
SettledByOwn == \A s \in Swaps \ Detailed : rows[s] \in Terminal => rows[s] = final[s]

\* A row appears pending and settles once, by its own swap's answer: no writer
\* drops it, takes it back or settles it anew, whoever read the list before
\* whom.  A row whose details are looked at may be given another settlement.
RowsMoveForward ==
    [][\A s \in Swaps : rows'[s] # rows[s] =>
          \/ rows[s] = "none" /\ rows'[s] = "pending"
          \/ rows[s] = "pending" /\ rows'[s] = final[s]
          \/ s \in Detailed /\ rows[s] # "none" /\ rows'[s] \in Terminal]_vars

\* Once the resume pass has run, a pending row has, or had, a poller of this
\* session: no row is left that nobody ever asks about (rowsToResume).
PendingIsFollowed ==
    \A s \in Swaps :
        rows[s] = "pending" /\ resume = "begun" =>
            \E k \in {"modal", "resume"} : polls[s][k] # "no"

GaveUp(s) == \E k \in {"modal", "resume"} : polls[s][k] = "over"

\* A pending row that 1Click has settled is settled here, unless its poller
\* ran out of time, its write was refused, the session ended, or it is a row of
\* an earlier session and this one could not read the list
\* (pollIntentsToTerminal, resumePendingIntentsSwaps).
RowSettles ==
    \A s \in Swaps :
        (rows[s] = "pending" /\ final[s] # "open") ~>
            (\/ rows[s] # "pending" \/ GaveUp(s) \/ resume = "no"
             \/ resume = "skipped" /\ polls[s]["modal"] = "no")

\* "the address alone does not name this swap: status is looked up by address
\* AND memo" (swap-history-store.ts:97): of every settled row, whoever wrote it.
DetailsTellOwn == \A s \in Swaps : rows[s] \in Terminal => rows[s] = final[s]
=============================================================================
