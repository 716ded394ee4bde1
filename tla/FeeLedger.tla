---------------------------- MODULE FeeLedger ----------------------------
(***************************************************************************)
(* The fee watcher of the swap sidecar (sidecar_fees): one record per bid  *)
(* on disk, a pass that sweeps the node's bids, resolves the open records  *)
(* and charges a settled swap by a withdrawal on the node, and the start   *)
(* that reconciles what a kill left.  Nothing spans a withdrawal and its   *)
(* record; a record is written in two steps.                               *)
(*                                                                         *)
(* The fee's arithmetic, the balance gate's numbers and the watcher's      *)
(* sleeps are data: a gate proceeds or defers, a pass may start any time.  *)
(***************************************************************************)
EXTENDS Naturals

CONSTANTS
    Bids,       \* the taker's bids on the node
    Chargeable, \* those decide() charges for once they are completed
    MaxTries,   \* MAX_DEFER_TRIES
    MaxFaults   \* bound: kills, writes torn in two and replies cut in their body

ASSUME FeeConstants ==
    /\ Chargeable \subseteq Bids
    /\ MaxTries \in Nat \ {0}

VARIABLES
    bid,     \* external: the node's bids
    old,     \* external: the bids made before the baseline
    charged, \* external: withdrawals the node made, per bid
    rec,     \* disk: the record's state, per bid
    tries,   \* disk: the tries of a deferred record
    waits,   \* disk and clock: the deferred records inside their backoff
    began,   \* disk: the baseline is set
    mode,    \* PWNDA_SIDECAR_FEES of a debug build, SHIPPED_MODE of a release
    pc,      \* the watcher; "off" while there is none
    todo,    \* the bids left in its loop
    job,     \* what it is writing or has written
    lost,    \* records lost in a write and replies cut, per bid
    faults   \* the faults so far

node == <<bid, old>>
disk == <<rec, tries, waits>>
vars == <<bid, old, charged, rec, tries, waits, began, mode, pc, todo, job, lost, faults>>

Open == {"watching", "deferred"}
Unpaid == Open \cup {"noFee", "observed"}
States == Unpaid \cup {"none", "attempting", "paid", "indeterminate"}
NoJob == [bid |-> "none", state |-> "none", tries |-> 0, back |-> "off"]
Jobs == [bid : Bids, state : States, tries : 0..MaxTries,
         back : {"reconcile", "resolve", "withdraw"}]

TypeOK ==
    /\ bid \in [Bids -> {"none", "moving", "completed", "ended"}]
    /\ old \subseteq Bids
    /\ charged \in [Bids -> Nat]
    /\ rec \in [Bids -> States]
    /\ tries \in [Bids -> 0..MaxTries]
    /\ waits \subseteq Bids
    /\ began \in BOOLEAN
    /\ mode \in {"dark", "live"}
    /\ pc \in {"off", "reconcile", "sleep", "sweep", "resolve", "write", "rename", "withdraw"}
    /\ todo \subseteq Bids
    /\ job \in Jobs \cup {NoJob}
    /\ lost \in [Bids -> Nat]
    /\ faults \in Nat

Init ==
    /\ bid = [b \in Bids |-> "none"]
    /\ old = {}
    /\ charged = [b \in Bids |-> 0]
    /\ rec = [b \in Bids |-> "none"]
    /\ tries = [b \in Bids |-> 0]
    /\ waits = {}
    /\ began = FALSE
    /\ mode = "live"
    /\ pc = "off"
    /\ todo = {}
    /\ job = NoJob
    /\ lost = [b \in Bids |-> 0]
    /\ faults = 0

-----------------------------------------------------------------------------
(* External: the node's bids, and the clock.                               *)

Place(b) ==
    /\ bid[b] = "none"
    /\ bid' = [bid EXCEPT ![b] = "moving"]
    /\ old' = IF began THEN old ELSE old \cup {b}
    /\ UNCHANGED <<charged, disk, began, mode, pc, todo, job, lost, faults>>

End(b) ==
    /\ bid[b] = "moving"
    /\ \E s \in {"completed", "ended"} : bid' = [bid EXCEPT ![b] = s]
    /\ UNCHANGED <<old, charged, disk, began, mode, pc, todo, job, lost, faults>>

BackoffEnds(b) ==
    /\ b \in waits
    /\ waits' = waits \ {b}
    /\ UNCHANGED <<node, charged, rec, tries, began, mode, pc, todo, job, lost, faults>>

-----------------------------------------------------------------------------
(* Writing one record: the file is removed, then the new one renamed into  *)
(* its place.                                                              *)

Writes(b, state, t, back) ==
    /\ job' = [bid |-> b, state |-> state, tries |-> t, back |-> back]
    /\ pc' = "write"

\* An error ends the pass; in the reconciliation, the watcher.
OnError == IF job.back = "reconcile" THEN "off" ELSE "sleep"

Stops(next) ==
    /\ pc' = next
    /\ todo' = {}
    /\ job' = NoJob

\* The temporary file cannot be written.
WriteFails ==
    /\ pc = "write"
    /\ Stops(OnError)
    /\ UNCHANGED <<node, charged, disk, began, mode, lost, faults>>

Unlink ==
    /\ pc = "write"
    /\ pc' = "rename"
    /\ rec' = [rec EXCEPT ![job.bid] = "none"]
    /\ tries' = [tries EXCEPT ![job.bid] = 0]
    /\ waits' = waits \ {job.bid}
    /\ UNCHANGED <<node, charged, began, mode, todo, job, lost, faults>>

Rename ==
    /\ pc = "rename"
    /\ rec' = [rec EXCEPT ![job.bid] = job.state]
    /\ IF job.state = "deferred"
         THEN /\ tries' = [tries EXCEPT ![job.bid] = job.tries]
              /\ waits' = waits \cup {job.bid}
         ELSE UNCHANGED <<tries, waits>>
    /\ pc' = job.back
    /\ job' = IF job.back = "withdraw" THEN job ELSE NoJob
    /\ UNCHANGED <<node, charged, began, mode, todo, lost, faults>>

Fault ==
    /\ faults < MaxFaults
    /\ faults' = faults + 1

Lose(b) == lost' = [lost EXCEPT ![b] = @ + 1]

\* A kill, or a rename that fails, between the two: no record is left.
Torn ==
    /\ pc = "rename"
    /\ Fault
    /\ Lose(job.bid)
    /\ \E next \in {"off", OnError} : Stops(next)
    /\ UNCHANGED <<node, charged, disk, began, mode>>

Crash ==
    /\ pc \notin {"off", "rename"}
    /\ Fault
    /\ Stops("off")
    /\ UNCHANGED <<node, charged, disk, began, mode, lost>>

-----------------------------------------------------------------------------
(* The start of the watcher.                                               *)

\* The watcher is spawned with the wallet, and reads the records.
Launch ==
    /\ pc = "off"
    /\ mode' \in {"dark", "live"}
    /\ pc' = "reconcile"
    /\ todo' = {b \in Bids : rec[b] = "attempting"}
    /\ UNCHANGED <<node, charged, disk, began, job, lost, faults>>

InterruptedIsRetried == "watching"

\* What a withdrawal becomes that a kill left without an outcome.
Interrupted == "indeterminate"

Reconcile(b) ==
    /\ pc = "reconcile"
    /\ b \in todo
    /\ todo' = todo \ {b}
    /\ Writes(b, Interrupted, 0, "reconcile")
    /\ UNCHANGED <<node, charged, disk, began, mode, lost, faults>>

Begin ==
    /\ pc = "reconcile"
    /\ todo = {}
    /\ began' = TRUE
    /\ pc' = "sleep"
    /\ UNCHANGED <<node, charged, disk, mode, todo, job, lost, faults>>

-----------------------------------------------------------------------------
(* One pass.                                                               *)

\* The node lists every bid, or answers with something that is no list.  A
\* node that is down or locked leaves the watcher asleep.
Sweep(rows) ==
    /\ pc = "sleep"
    /\ pc' = "sweep"
    /\ todo' = {b \in rows : rec[b] = "none"}
    /\ UNCHANGED <<node, charged, disk, began, mode, job, lost, faults>>

Listed == {b \in Bids : bid[b] # "none"}

\* A record is opened for a row without one: there is no file to remove.
OpenRecord(b) ==
    /\ pc = "sweep"
    /\ b \in todo
    /\ todo' = todo \ {b}
    /\ rec' = [rec EXCEPT ![b] = "watching"]
    /\ UNCHANGED <<node, charged, tries, waits, began, mode, pc, job, lost, faults>>

OpenFails(b) ==
    /\ pc = "sweep"
    /\ b \in todo
    /\ Stops("sleep")
    /\ UNCHANGED <<node, charged, disk, began, mode, lost, faults>>

Load ==
    /\ pc = "sweep"
    /\ todo = {}
    /\ pc' = "resolve"
    /\ todo' = {b \in Bids : rec[b] \in Open /\ b \notin waits}
    /\ UNCHANGED <<node, charged, disk, began, mode, job, lost, faults>>

\* The bid's details cannot be had, or not be read.
Unread(b) ==
    /\ pc = "resolve"
    /\ b \in todo
    /\ todo' = todo \ {b}
    /\ UNCHANGED <<node, charged, disk, began, mode, pc, job, lost, faults>>

NeverPreexisting(b) == FALSE
Preexisting(b) == b \in old

OverOnlyCompleted(b) == bid[b] = "completed" /\ b \notin Chargeable

\* Nothing is owed, and nothing will be.
Over(b) == bid[b] = "ended" \/ (bid[b] = "completed" /\ b \notin Chargeable)

Charges(b) == bid[b] = "completed" /\ b \in Chargeable

NeverExpires(t) == FALSE
Expires(t) == t + 1 >= MaxTries

\* The balance, or the swaps in flight, forbid it for now.
Defers(b) ==
    IF Expires(tries[b]) THEN Writes(b, "noFee", 0, "resolve")
                         ELSE Writes(b, "deferred", tries[b] + 1, "resolve")

\* The details lack the time the bid was made.
Undated(b) ==
    /\ pc = "resolve"
    /\ b \in todo
    /\ todo' = todo \ {b}
    /\ Writes(b, "noFee", 0, "resolve")
    /\ UNCHANGED <<node, charged, disk, began, mode, lost, faults>>

\* One bid's details are read and acted on.
Act(b) ==
    /\ pc = "resolve"
    /\ b \in todo
    /\ todo' = todo \ {b}
    /\ \/ /\ Preexisting(b) \/ Over(b)
          /\ Writes(b, "noFee", 0, "resolve")
       \/ /\ ~Preexisting(b) /\ ~Over(b) /\ ~Charges(b)
          /\ UNCHANGED <<pc, job>>
       \/ /\ ~Preexisting(b) /\ Charges(b)
          /\ \/ mode = "dark" /\ Writes(b, "observed", 0, "resolve")
             \/ mode = "live" /\ Defers(b)
             \/ mode = "live" /\ Writes(b, "attempting", tries[b], "withdraw")
    /\ UNCHANGED <<node, charged, disk, began, mode, lost, faults>>

EndPass ==
    /\ pc = "resolve"
    /\ todo = {}
    /\ pc' = "sleep"
    /\ UNCHANGED <<node, charged, disk, began, mode, todo, job, lost, faults>>

-----------------------------------------------------------------------------
(* The withdrawal, with the marker on disk.                                *)

Pays(n) == charged' = [charged EXCEPT ![job.bid] = @ + n]

Paid ==
    /\ pc = "withdraw"
    /\ Pays(1)
    /\ Writes(job.bid, "paid", 0, "resolve")
    /\ UNCHANGED <<node, disk, began, mode, todo, lost, faults>>

\* A refusal is deferred whatever the tries; counting stops at MaxTries.
Again == IF job.tries < MaxTries THEN job.tries + 1 ELSE MaxTries

\* The node says no, or cannot be reached.
Refused ==
    /\ pc = "withdraw"
    /\ Writes(job.bid, "deferred", Again, "resolve")
    /\ UNCHANGED <<node, charged, disk, began, mode, todo, lost, faults>>

\* A time-out or a reset before the reply's head: a transport failure.
ReplyLost ==
    /\ pc = "withdraw"
    /\ \E n \in {0, 1} : Pays(n)
    /\ Writes(job.bid, "indeterminate", 0, "resolve")
    /\ UNCHANGED <<node, disk, began, mode, todo, lost, faults>>

\* A time-out or a reset within the reply's body: an error like a refusal.
ReplyCut ==
    /\ pc = "withdraw"
    /\ Fault
    /\ Lose(job.bid)
    /\ \E n \in {0, 1} : Pays(n)
    /\ Writes(job.bid, "deferred", Again, "resolve")
    /\ UNCHANGED <<node, disk, began, mode, todo>>

-----------------------------------------------------------------------------

World == \E b \in Bids : Place(b) \/ End(b) \/ BackoffEnds(b)
Write == WriteFails \/ Unlink \/ Rename \/ Torn
Start == Launch \/ Begin \/ \E b \in Bids : Reconcile(b)
Pass ==
    \/ Sweep(Listed) \/ Sweep({}) \/ Load \/ EndPass
    \/ \E b \in Bids : OpenRecord(b) \/ OpenFails(b) \/ Unread(b) \/ Undated(b) \/ Act(b)
Withdraw == Paid \/ Refused \/ ReplyLost \/ ReplyCut

Next == World \/ Write \/ Crash \/ Start \/ Pass \/ Withdraw

Spec == Init /\ [][Next]_vars

\* The watcher goes on, and the user starts the wallet again; the disk, the
\* node's list, its details and its withdrawals do not fail every time.
Fairness ==
    /\ WF_vars(Start \/ Write \/ Pass \/ Withdraw)
    /\ SF_vars(Unlink) /\ SF_vars(Sweep(Listed)) /\ SF_vars(Paid)
    /\ \A b \in Bids :
         /\ WF_vars(BackoffEnds(b)) /\ SF_vars(OpenRecord(b)) /\ SF_vars(Act(b))

FairSpec == Spec /\ Fairness

-----------------------------------------------------------------------------
(* Properties.                                                             *)

\* "A missed fee is a rounding error; a double charge takes a user's money
\* twice": at most once, on purpose (ledger.rs:14-26).
ChargedOnce == \A b \in Bids : charged[b] <= 1

\* A bid whose record is open or closed without payment was not charged, and
\* any other at most once, over kills, refusals and lost replies; each record
\* lost in a write, and each reply cut in its body, costs at most one more.
ChargedOnceUnlessLost ==
    \A b \in Bids :
        charged[b] <= lost[b] + (IF rec[b] \in Unpaid THEN 0 ELSE 1)

\* Only a swap that was completed, is chargeable and was made after this wallet
\* first watched is charged, in whatever modes and after whatever faults
\* (engine.rs, decide; mod.rs, classify_age).
OnlySettledIsCharged ==
    \A b \in Bids :
        charged[b] > 0 => bid[b] = "completed" /\ b \in Chargeable \ old

\* A swap that is over leaves the set of open records for good; until
\* 2026-09-05 an expired bid was polled for ever (engine.rs:19-29).
RecordCloses ==
    \A b \in Bids :
        bid[b] \in {"completed", "ended"} ~> [](rec[b] \notin Open \cup {"none"})

\* What a record says of its fee.
Says(state) ==
    CASE state \in {"none", "watching", "deferred"} -> "nothing"
      [] state \in {"noFee", "observed"} -> "unpaid"
      [] state = "attempting" -> "open"
      [] state = "paid" -> "paid"
      [] state = "indeterminate" -> "unknown"

\* Between the two halves of a write the new record is what counts.
Told(b) == Says(IF pc = "rename" /\ job.bid = b THEN job.state ELSE rec[b])

Promise == INSTANCE Payments WITH
    Items <- Bids,
    Rivals <- [b \in Bids |-> {}],
    told <- [b \in Bids |-> Told(b)],
    paid <- charged,
    lapses <- lost

\* A fee is withdrawn only under its marker, each record tells the truth, and
\* over kills, refusals and lost replies no bid is charged once its record is
\* closed (ledger.rs:14-26, "at most once, on purpose").
ImplementsPayments == Promise!Spec
=============================================================================
