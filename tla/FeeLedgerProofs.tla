------------------------- MODULE FeeLedgerProofs -------------------------
(***************************************************************************)
(* ChargedOnceUnlessLost and OnlySettledIsCharged, for any number of bids  *)
(* and faults.  They are inductive with what ties the job in hand to the   *)
(* disk and to the node: a withdrawal runs under its marker, only a        *)
(* settled bid is marked, the rest of a pass stays open and untouched, and *)
(* what is written without a payment was not charged.                      *)
(***************************************************************************)
EXTENDS FeeLedger, TLAPS

Busy == pc \in {"write", "rename", "withdraw"}

JobGiven ==
    /\ Busy => job \in Jobs
    /\ Busy /\ job.back = "withdraw" => job.state = "attempting"
    /\ pc = "withdraw" => job.back = "withdraw" /\ rec[job.bid] = "attempting"
    /\ pc = "rename" => rec[job.bid] = "none"

\* The bids a pass has still to visit are as it found them.
TodoIsFresh ==
    /\ pc = "sweep" => \A b \in todo : rec[b] = "none"
    /\ pc = "resolve" => \A b \in todo : rec[b] \in Open
    /\ Busy /\ job.back # "reconcile" => \A b \in todo : rec[b] \in Open /\ b # job.bid

Due(b) == Charges(b) /\ b \notin old
MarkedIsDue == Busy /\ job.state = "attempting" => Due(job.bid)

AtMostOne == \A b \in Bids : charged[b] <= lost[b] + 1

\* A record that is being replaced says nothing.
Replaced(b) == pc = "rename" /\ job.bid = b
OpenIsUncharged ==
    \A b \in Bids :
        rec[b] \in Unpaid \cup {"none"} /\ ~Replaced(b) => charged[b] <= lost[b]

Before == Unpaid \cup {"none", "attempting"}
JobIsUncharged == Busy /\ job.state \in Before => charged[job.bid] <= lost[job.bid]

IInv ==
    /\ TypeOK /\ JobGiven /\ TodoIsFresh /\ MarkedIsDue
    /\ AtMostOne /\ OpenIsUncharged /\ JobIsUncharged /\ OnlySettledIsCharged

PCs == {"off", "reconcile", "sleep", "sweep", "resolve", "write", "rename", "withdraw"}

\* The watcher's own part of the state is well formed.
WatcherTypeOK ==
    /\ began \in BOOLEAN /\ mode \in {"dark", "live"} /\ pc \in PCs
    /\ todo \subseteq Bids /\ job \in Jobs \cup {NoJob} /\ faults \in Nat

LEMMA InitHolds == Init => IInv
<1>1. Init => TypeOK
  <2>1. 0 \in 0..MaxTries /\ "none" \in States BY FeeConstants DEF States
  <2>2. Init => rec \in [Bids -> States] /\ tries \in [Bids -> 0..MaxTries] BY <2>1 DEF Init
  <2>3. Init => /\ bid \in [Bids -> {"none", "moving", "completed", "ended"}]
                /\ charged \in [Bids -> Nat] /\ lost \in [Bids -> Nat]
    BY DEF Init
  <2>4. Init => job \in Jobs \cup {NoJob} /\ faults \in Nat BY DEF Init
  <2>5. Init => old \subseteq Bids /\ waits \subseteq Bids /\ todo \subseteq Bids
    BY DEF Init
  <2>6. Init => /\ began \in BOOLEAN /\ mode \in {"dark", "live"}
                /\ pc \in {"off", "reconcile", "sleep", "sweep", "resolve", "write", "rename",
                            "withdraw"}
    BY DEF Init
  <2>7. QED BY <2>2, <2>3, <2>4, <2>5, <2>6 DEF TypeOK
<1>2. Init => JobGiven /\ TodoIsFresh /\ MarkedIsDue /\ JobIsUncharged
  BY DEF Init, JobGiven, TodoIsFresh, MarkedIsDue, JobIsUncharged, Busy
<1>3. Init => AtMostOne /\ OpenIsUncharged /\ OnlySettledIsCharged
  BY DEF Init, AtMostOne, OpenIsUncharged, OnlySettledIsCharged
<1>4. QED BY <1>1, <1>2, <1>3 DEF IInv

\* A job begun on a record of the running loop.
LEMMA WritesValues ==
    ASSUME NEW b \in Bids, NEW state \in States, NEW t \in 0..MaxTries,
           NEW back \in {"reconcile", "resolve", "withdraw"}, Writes(b, state, t, back)
    PROVE  /\ job' \in Jobs /\ pc' = "write"
           /\ job'.bid = b /\ job'.state = state /\ job'.tries = t /\ job'.back = back
BY DEF Writes, Jobs

\* The states a job may ask for are states of a record.
LEMMA StateNames ==
    /\ Open \subseteq Unpaid /\ Unpaid \subseteq States
    /\ {"none", "attempting", "paid", "indeterminate"} \subseteq States
    /\ {"paid", "indeterminate"} \cap Before = {}
    /\ "attempting" \notin Unpaid \cup {"none"}
BY DEF Open, Unpaid, States, Before

\* The tries a job may ask for.
LEMMA TriesValues ==
    ASSUME TypeOK
    PROVE  /\ 0 \in 0..MaxTries
           /\ \A b \in Bids : tries[b] \in 0..MaxTries
           /\ \A b \in Bids : ~Expires(tries[b]) => tries[b] + 1 \in 0..MaxTries
           /\ job \in Jobs => Again \in 0..MaxTries
BY FeeConstants DEF TypeOK, Expires, Again, Jobs

-----------------------------------------------------------------------------
(* Steps.                                                                  *)

\* Steps that touch neither records nor charges, and leave no job in hand.
LEMMA IdleSteps ==
    ASSUME IInv, UNCHANGED <<node, charged, disk, lost>>, WatcherTypeOK', ~Busy',
           pc # "rename",
           pc' = "sweep" => \A b \in todo' : rec[b] = "none",
           pc' = "resolve" => \A b \in todo' : rec[b] \in Open
    PROVE  IInv'
<1> USE DEF node, disk
<1>1. TypeOK' BY DEF IInv, TypeOK, WatcherTypeOK, PCs
<1>2. JobGiven' /\ TodoIsFresh' /\ MarkedIsDue' /\ JobIsUncharged'
  BY DEF JobGiven, TodoIsFresh, MarkedIsDue, JobIsUncharged, Busy
<1>3. AtMostOne' /\ OnlySettledIsCharged' BY DEF IInv, AtMostOne, OnlySettledIsCharged
<1>4. OpenIsUncharged' BY DEF IInv, OpenIsUncharged, Replaced, Busy
<1>5. QED BY <1>1, <1>2, <1>3, <1>4 DEF IInv

\* A job begun by the loop, for a record that is open, or by the start.
LEMMA JobSteps ==
    ASSUME IInv, UNCHANGED <<node, charged, disk, began, mode, lost, faults>>,
           NEW b \in todo, NEW state \in States, NEW t \in 0..MaxTries,
           NEW back \in {"reconcile", "resolve", "withdraw"},
           pc \in {"resolve", "reconcile"}, todo' = todo \ {b}, Writes(b, state, t, back),
           back = "reconcile" => state = "indeterminate",
           back # "reconcile" => pc = "resolve",
           back = "withdraw" => state = "attempting",
           state = "attempting" => Due(b)
    PROVE  IInv'
<1> USE DEF node, disk
<1>b. b \in Bids BY DEF IInv, TypeOK
<1>1. /\ job' \in Jobs /\ pc' = "write"
      /\ job'.bid = b /\ job'.state = state /\ job'.back = back
  BY <1>b, WritesValues
<1>2. TypeOK' BY <1>1 DEF IInv, TypeOK
<1>3. JobGiven' BY <1>1 DEF JobGiven
<1>4. TodoIsFresh' BY <1>1 DEF IInv, TodoIsFresh
<1>5. MarkedIsDue' BY <1>1 DEF MarkedIsDue, Due, Charges
<1>6. AtMostOne' /\ OnlySettledIsCharged' BY DEF IInv, AtMostOne, OnlySettledIsCharged
<1>7. OpenIsUncharged' BY <1>1 DEF IInv, OpenIsUncharged, Replaced
<1>8. JobIsUncharged'
  <2>1. CASE back = "reconcile" BY <1>1, <2>1, StateNames DEF JobIsUncharged
  <2>2. CASE back # "reconcile"
    <3>1. rec[b] \in Open BY <2>2 DEF IInv, TodoIsFresh
    <3>2. charged[b] <= lost[b]
      BY <1>b, <2>2, <3>1, StateNames DEF IInv, OpenIsUncharged, Replaced
    <3>3. QED BY <1>1, <3>2 DEF JobIsUncharged
  <2>3. QED BY <2>1, <2>2
<1>9. QED BY <1>2, <1>3, <1>4, <1>5, <1>6, <1>7, <1>8 DEF IInv

\* The outcome of a withdrawal of n, for which m faults are counted.
LEMMA WithdrawSteps ==
    ASSUME IInv, pc = "withdraw", UNCHANGED <<node, disk, began, mode, todo>>,
           NEW n \in {0, 1}, Pays(n), NEW m \in {0, 1}, faults' \in Nat,
           lost' = [lost EXCEPT ![job.bid] = @ + m],
           NEW state \in States \ {"attempting"}, NEW t \in 0..MaxTries,
           Writes(job.bid, state, t, "resolve"), state \in Before => n <= m
    PROVE  IInv'
<1> USE DEF node, disk
<1>0. job \in Jobs /\ job.bid \in Bids BY DEF IInv, JobGiven, Busy, Jobs
<1>1. /\ job' \in Jobs /\ pc' = "write"
      /\ job'.bid = job.bid /\ job'.state = state /\ job'.back = "resolve"
  BY <1>0, WritesValues
<1>2. charged[job.bid] \in Nat /\ lost[job.bid] \in Nat BY <1>0 DEF IInv, TypeOK
<1>3. /\ charged' \in [Bids -> Nat] /\ lost' \in [Bids -> Nat]
      /\ charged'[job.bid] = charged[job.bid] + n /\ lost'[job.bid] = lost[job.bid] + m
      /\ \A b \in Bids \ {job.bid} : charged'[b] = charged[b] /\ lost'[b] = lost[b]
  BY <1>0, <1>2 DEF Pays, IInv, TypeOK
<1>4. rec[job.bid] = "attempting" /\ Due(job.bid) /\ charged[job.bid] <= lost[job.bid]
  BY StateNames DEF IInv, JobGiven, MarkedIsDue, JobIsUncharged, Busy, Before
<1>5. TypeOK' BY <1>1, <1>3 DEF IInv, TypeOK
<1>6. JobGiven' BY <1>1 DEF JobGiven
<1>7. TodoIsFresh'
  <2>1. job.back # "reconcile" BY DEF IInv, JobGiven
  <2>2. \A b \in todo : rec[b] \in Open /\ b # job.bid
    BY <2>1 DEF IInv, TodoIsFresh, Busy
  <2>3. QED BY <1>1, <2>2 DEF TodoIsFresh
<1>8. MarkedIsDue' BY <1>1 DEF MarkedIsDue
<1>9. AtMostOne' BY <1>2, <1>3, <1>4 DEF IInv, AtMostOne
<1>10. OpenIsUncharged'
  BY <1>3, <1>4, StateNames DEF IInv, OpenIsUncharged, Replaced
<1>11. JobIsUncharged' BY <1>1, <1>2, <1>3, <1>4 DEF JobIsUncharged
<1>12. OnlySettledIsCharged'
  BY <1>3, <1>4 DEF IInv, OnlySettledIsCharged, Due, Charges
<1>13. QED BY <1>5, <1>6, <1>7, <1>8, <1>9, <1>10, <1>11, <1>12 DEF IInv

\* The node's bids go on, and backoffs end.
LEMMA WorldSteps ==
    ASSUME IInv, World
    PROVE  IInv'
<1> USE DEF node, disk
<1>0. PICK b \in Bids : Place(b) \/ End(b) \/ BackoffEnds(b) BY DEF World
<1>1. UNCHANGED <<charged, rec, tries, began, mode, pc, todo, job, lost, faults>>
  BY <1>0 DEF Place, End, BackoffEnds
<1>2. TypeOK' BY <1>0, <1>1 DEF Place, End, BackoffEnds, IInv, TypeOK
<1>3. \A c \in Bids : Due(c) => Due(c)'
  BY <1>0, <1>1 DEF Place, End, BackoffEnds, Due, Charges, IInv, TypeOK
<1>4. JobGiven' /\ TodoIsFresh' /\ JobIsUncharged'
  BY <1>1 DEF IInv, JobGiven, TodoIsFresh, JobIsUncharged, Busy
<1>5. MarkedIsDue'
  <2>1. Busy => job.bid \in Bids BY DEF IInv, JobGiven, Jobs
  <2>2. QED BY <1>1, <1>3, <2>1 DEF IInv, MarkedIsDue, Busy
<1>6. AtMostOne' /\ OpenIsUncharged'
  BY <1>1 DEF IInv, AtMostOne, OpenIsUncharged, Replaced
<1>7. OnlySettledIsCharged'
  BY <1>1, <1>3 DEF IInv, OnlySettledIsCharged, Due, Charges
<1>8. QED BY <1>2, <1>4, <1>5, <1>6, <1>7 DEF IInv

\* The two steps of a write, and a fault between them.
LEMMA UnlinkStep ==
    ASSUME IInv, Unlink
    PROVE  IInv'
<1> USE DEF node, disk
<1>0. job \in Jobs /\ job.bid \in Bids BY DEF Unlink, IInv, JobGiven, Busy, Jobs
<1>1. TypeOK'
  <2>1. 0 \in 0..MaxTries /\ "none" \in States BY TriesValues, StateNames DEF IInv
  <2>2. QED BY <1>0, <2>1 DEF Unlink, IInv, TypeOK
<1>2. JobGiven' BY <1>0 DEF Unlink, IInv, TypeOK, JobGiven, Busy
<1>3. TodoIsFresh'
  BY <1>0 DEF Unlink, IInv, TypeOK, TodoIsFresh, Busy
<1>4. MarkedIsDue' /\ AtMostOne' /\ OnlySettledIsCharged' /\ JobIsUncharged'
  BY DEF Unlink, IInv, MarkedIsDue, Due, Charges, AtMostOne, OnlySettledIsCharged,
         JobIsUncharged, Busy
<1>5. OpenIsUncharged'
  BY <1>0 DEF Unlink, IInv, TypeOK, OpenIsUncharged, Replaced
<1>6. QED BY <1>1, <1>2, <1>3, <1>4, <1>5 DEF IInv

LEMMA RenameStep ==
    ASSUME IInv, Rename
    PROVE  IInv'
<1> USE DEF node, disk
<1>0. job \in Jobs /\ job.bid \in Bids /\ job.state \in States /\ job.tries \in 0..MaxTries
      /\ job.back \in {"reconcile", "resolve", "withdraw"}
  BY DEF Rename, IInv, JobGiven, Busy, Jobs
<1>1. TypeOK' BY <1>0 DEF Rename, IInv, TypeOK
<1>2. /\ rec'[job.bid] = job.state
      /\ \A b \in Bids \ {job.bid} : rec'[b] = rec[b]
  BY <1>0 DEF Rename, IInv, TypeOK
<1>3. JobGiven' BY <1>0, <1>2 DEF Rename, IInv, JobGiven, Busy
<1>4. TodoIsFresh'
  BY <1>0, <1>2 DEF Rename, IInv, TypeOK, TodoIsFresh, Busy
<1>5. MarkedIsDue' /\ JobIsUncharged'
  BY <1>0 DEF Rename, IInv, MarkedIsDue, Due, Charges, JobIsUncharged, Busy
<1>6. AtMostOne' /\ OnlySettledIsCharged'
  BY DEF Rename, IInv, AtMostOne, OnlySettledIsCharged
<1>7. OpenIsUncharged'
  <2>1. job.state \in Unpaid \cup {"none"} => charged[job.bid] <= lost[job.bid]
    BY DEF Rename, IInv, JobIsUncharged, Busy, Before
  <2>2. QED BY <1>0, <1>2, <2>1 DEF Rename, IInv, OpenIsUncharged, Replaced
<1>8. QED BY <1>1, <1>3, <1>4, <1>5, <1>6, <1>7 DEF IInv

LEMMA TornStep ==
    ASSUME IInv, Torn
    PROVE  IInv'
<1> USE DEF node, disk
<1>0. job \in Jobs /\ job.bid \in Bids BY DEF Torn, IInv, JobGiven, Busy, Jobs
<1>1. pc' \in {"off", "sleep"} /\ job' = NoJob /\ todo' = {}
  BY DEF Torn, Stops, OnError
<1>2. /\ lost' \in [Bids -> Nat] /\ lost'[job.bid] = lost[job.bid] + 1
      /\ \A b \in Bids \ {job.bid} : lost'[b] = lost[b]
  BY <1>0 DEF Torn, Lose, IInv, TypeOK
<1>3. TypeOK' BY <1>1, <1>2 DEF Torn, Fault, IInv, TypeOK
<1>4. JobGiven' /\ TodoIsFresh' /\ MarkedIsDue' /\ JobIsUncharged'
  BY <1>1 DEF JobGiven, TodoIsFresh, MarkedIsDue, JobIsUncharged, Busy
<1>5. AtMostOne' /\ OnlySettledIsCharged'
  BY <1>0, <1>2 DEF Torn, IInv, TypeOK, AtMostOne, OnlySettledIsCharged
<1>6. OpenIsUncharged'
  BY <1>0, <1>1, <1>2 DEF Torn, IInv, TypeOK, OpenIsUncharged, AtMostOne, Replaced
<1>7. QED BY <1>3, <1>4, <1>5, <1>6 DEF IInv

\* A sweep opens a record, for a bid that has none and was not charged.
LEMMA OpenStep ==
    ASSUME IInv, NEW b \in Bids, OpenRecord(b)
    PROVE  IInv'
<1> USE DEF node, disk
<1>1. TypeOK' BY DEF OpenRecord, IInv, TypeOK, States, Unpaid, Open
<1>2. JobGiven' /\ MarkedIsDue' /\ JobIsUncharged'
  BY DEF OpenRecord, JobGiven, MarkedIsDue, JobIsUncharged, Busy
<1>3. TodoIsFresh' BY DEF OpenRecord, IInv, TypeOK, TodoIsFresh, Busy
<1>4. AtMostOne' /\ OnlySettledIsCharged'
  BY DEF OpenRecord, IInv, AtMostOne, OnlySettledIsCharged
<1>5. OpenIsUncharged'
  <2>1. charged[b] <= lost[b]
    BY DEF OpenRecord, IInv, TodoIsFresh, OpenIsUncharged, Replaced
  <2>2. QED BY <2>1 DEF OpenRecord, IInv, TypeOK, OpenIsUncharged, Replaced
<1>6. QED BY <1>1, <1>2, <1>3, <1>4, <1>5 DEF IInv

\* Every other step of the watcher: it stops, starts, goes on or begins a job.
LEMMA WatcherSteps ==
    ASSUME IInv, WriteFails \/ Crash \/ Start \/ Pass
    PROVE  IInv'
<1> USE DEF node, disk
<1>t. TypeOK /\ WatcherTypeOK BY DEF IInv, TypeOK, WatcherTypeOK, PCs
<1>1. CASE WriteFails
  <2>1. pc' \in {"off", "sleep"} /\ todo' = {} /\ job' = NoJob
    BY <1>1 DEF WriteFails, Stops, OnError
  <2>2. QED BY <1>1, <1>t, <2>1, IdleSteps DEF WriteFails, WatcherTypeOK, PCs, Busy
<1>2. CASE Crash
  <2>1. WatcherTypeOK' BY <1>2, <1>t DEF Crash, Stops, Fault, WatcherTypeOK, PCs
  <2>2. QED BY <1>2, <2>1, IdleSteps DEF Crash, Stops, Busy
<1>3. CASE Launch
  <2>1. WatcherTypeOK' BY <1>3, <1>t DEF Launch, WatcherTypeOK, PCs
  <2>2. QED BY <1>3, <2>1, IdleSteps DEF Launch, Busy
<1>4. CASE Begin
  <2>1. WatcherTypeOK' BY <1>4, <1>t DEF Begin, WatcherTypeOK, PCs
  <2>2. QED BY <1>4, <2>1, IdleSteps DEF Begin, Busy
<1>5. ASSUME NEW b \in Bids, Reconcile(b) PROVE IInv'
  <2>1. 0 \in 0..MaxTries /\ "indeterminate" \in States
    BY <1>t, TriesValues, StateNames
  <2>2. QED BY <1>5, <2>1, JobSteps DEF Reconcile, Interrupted
<1>6. ASSUME NEW rows \in SUBSET Bids, Sweep(rows) PROVE IInv'
  <2>1. WatcherTypeOK' BY <1>6, <1>t DEF Sweep, WatcherTypeOK, PCs
  <2>2. QED BY <1>6, <2>1, IdleSteps DEF Sweep, Busy
<1>7. CASE Load
  <2>1. WatcherTypeOK' BY <1>7, <1>t DEF Load, WatcherTypeOK, PCs
  <2>2. QED BY <1>7, <2>1, IdleSteps DEF Load, Busy
<1>8. CASE EndPass
  <2>1. WatcherTypeOK' BY <1>8, <1>t DEF EndPass, WatcherTypeOK, PCs
  <2>2. QED BY <1>8, <2>1, IdleSteps DEF EndPass, Busy
<1>9. ASSUME NEW b \in Bids, OpenFails(b) PROVE IInv'
  <2>1. WatcherTypeOK' BY <1>9, <1>t DEF OpenFails, Stops, WatcherTypeOK, PCs
  <2>2. QED BY <1>9, <2>1, IdleSteps DEF OpenFails, Stops, Busy
<1>10. ASSUME NEW b \in Bids, Unread(b) PROVE IInv'
  <2>1. WatcherTypeOK' BY <1>10, <1>t DEF Unread, WatcherTypeOK, PCs
  <2>2. \A c \in todo' : rec[c] \in Open BY <1>10 DEF Unread, IInv, TodoIsFresh
  <2>3. QED BY <1>10, <2>1, <2>2, IdleSteps DEF Unread, Busy
<1>11. ASSUME NEW b \in Bids, Undated(b) PROVE IInv'
  <2>1. 0 \in 0..MaxTries /\ "noFee" \in States
    BY <1>t, TriesValues DEF States, Unpaid
  <2>2. QED BY <1>11, <2>1, JobSteps DEF Undated
<1>12. ASSUME NEW b \in Bids, Act(b) PROVE IInv'
  <2>0. /\ b \in todo /\ pc = "resolve" /\ todo' = todo \ {b}
        /\ UNCHANGED <<node, charged, disk, began, mode, lost, faults>>
    BY <1>12 DEF Act
  <2>1. /\ 0 \in 0..MaxTries /\ tries[b] \in 0..MaxTries
        /\ ~Expires(tries[b]) => tries[b] + 1 \in 0..MaxTries
        /\ {"noFee", "observed", "deferred", "attempting"} \subseteq States
    BY <1>t, TriesValues DEF States, Unpaid, Open
  <2>2. CASE UNCHANGED <<pc, job>>
    <3>1. WatcherTypeOK' BY <1>t, <2>0, <2>2 DEF WatcherTypeOK
    <3>2. \A c \in todo' : rec[c] \in Open BY <2>0 DEF IInv, TodoIsFresh
    <3>3. QED BY <2>0, <2>2, <3>1, <3>2, IdleSteps DEF Busy
  <2>3. CASE Writes(b, "noFee", 0, "resolve") BY <2>0, <2>1, <2>3, JobSteps
  <2>4. CASE Writes(b, "observed", 0, "resolve") BY <2>0, <2>1, <2>4, JobSteps
  <2>5. CASE Defers(b)
    <3>1. CASE Expires(tries[b]) BY <2>3, <2>5, <3>1 DEF Defers
    <3>2. CASE ~Expires(tries[b])
      <4>1. Writes(b, "deferred", tries[b] + 1, "resolve") BY <2>5, <3>2 DEF Defers
      <4>2. QED BY <2>0, <2>1, <3>2, <4>1, JobSteps
    <3>3. QED BY <3>1, <3>2
  <2>6. CASE ~Preexisting(b) /\ Charges(b) /\ Writes(b, "attempting", tries[b], "withdraw")
    BY <2>0, <2>1, <2>6, JobSteps DEF Due, Preexisting
  <2>7. QED BY <1>12, <2>2, <2>3, <2>4, <2>5, <2>6 DEF Act
<1>13. ASSUME NEW b \in Bids, OpenRecord(b) PROVE IInv' BY <1>13, OpenStep
<1>14. Listed \in SUBSET Bids /\ {} \in SUBSET Bids BY DEF Listed
<1>15. QED
  BY <1>1, <1>2, <1>3, <1>4, <1>5, <1>6, <1>7, <1>8, <1>9, <1>10, <1>11, <1>12, <1>13, <1>14
  DEF Start, Pass

\* A withdrawal, whatever its outcome.
LEMMA OutcomeSteps ==
    ASSUME IInv, Withdraw
    PROVE  IInv'
<1> USE DEF node, disk
<1>0. /\ pc = "withdraw" /\ UNCHANGED <<node, disk, began, mode, todo>>
      /\ 0 \in {0, 1} /\ 1 \in {0, 1}
  BY DEF Withdraw, Paid, Refused, ReplyLost, ReplyCut
<1>1. job \in Jobs /\ job.bid \in Bids BY <1>0 DEF IInv, JobGiven, Busy, Jobs
<1>2. 0 \in 0..MaxTries /\ Again \in 0..MaxTries BY <1>1, TriesValues DEF IInv
<1>3. /\ {"paid", "indeterminate", "deferred"} \subseteq States \ {"attempting"}
      /\ {"paid", "indeterminate"} \cap Before = {}
  BY StateNames DEF States, Unpaid, Open
<1>4. /\ faults \in Nat
      /\ lost[job.bid] \in Nat /\ lost = [lost EXCEPT ![job.bid] = @ + 0]
      /\ charged[job.bid] \in Nat /\ charged = [charged EXCEPT ![job.bid] = @ + 0]
  BY <1>1 DEF IInv, TypeOK
<1>5. CASE Paid BY <1>0, <1>2, <1>3, <1>4, <1>5, WithdrawSteps DEF Paid
<1>6. CASE Refused
  <2>1. Pays(0) BY <1>4, <1>6 DEF Refused, Pays
  <2>2. QED BY <1>0, <1>2, <1>3, <1>4, <1>6, <2>1, WithdrawSteps DEF Refused
<1>7. CASE ReplyLost
  <2>1. PICK n \in {0, 1} : Pays(n) BY <1>7 DEF ReplyLost
  <2>2. QED BY <1>0, <1>2, <1>3, <1>4, <1>7, <2>1, WithdrawSteps DEF ReplyLost
<1>8. CASE ReplyCut
  <2>1. PICK n \in {0, 1} : Pays(n) BY <1>8 DEF ReplyCut
  <2>2. faults' \in Nat /\ lost' = [lost EXCEPT ![job.bid] = @ + 1]
    BY <1>4, <1>8 DEF ReplyCut, Fault, Lose
  <2>3. n <= 1 BY <2>1
  <2>4. QED BY <1>0, <1>2, <1>3, <1>8, <2>1, <2>2, <2>3, WithdrawSteps DEF ReplyCut
<1>9. QED BY <1>5, <1>6, <1>7, <1>8 DEF Withdraw

LEMMA StepHolds == IInv /\ [Next]_vars => IInv'
<1> SUFFICES ASSUME IInv, [Next]_vars PROVE IInv' OBVIOUS
<1>1. CASE World BY <1>1, WorldSteps
<1>2. CASE Write
  BY <1>2, WatcherSteps, UnlinkStep, RenameStep, TornStep DEF Write
<1>3. CASE Crash \/ Start \/ Pass BY <1>3, WatcherSteps
<1>4. CASE Withdraw BY <1>4, OutcomeSteps
<1>5. CASE UNCHANGED vars
  BY <1>5 DEF vars, node, disk, IInv, TypeOK, JobGiven, TodoIsFresh, MarkedIsDue, Due, Charges,
              AtMostOne, OpenIsUncharged, Replaced, JobIsUncharged, OnlySettledIsCharged, Busy
<1>6. QED BY <1>1, <1>2, <1>3, <1>4, <1>5 DEF Next

-----------------------------------------------------------------------------

\* The strengthening is inductive, for every bid, retry limit and bound.
THEOREM FeeInductive == Spec => []IInv
<1>1. QED BY InitHolds, StepHolds, PTL DEF Spec

\* Every variable of the watcher, its disk and the node keeps its type.
THEOREM FeeTypeCorrect == Spec => []TypeOK
<1>1. IInv => TypeOK BY DEF IInv
<1>2. QED BY <1>1, FeeInductive, PTL

\* A fee is charged once, and not for a record closed without it, but for each
\* record lost in ledger::write and each reply cut in its body.
THEOREM FeeIsChargedOnceUnlessLost == Spec => []ChargedOnceUnlessLost
<1>1. IInv => ChargedOnceUnlessLost
  <2> SUFFICES ASSUME IInv, NEW b \in Bids
               PROVE  charged[b] <= lost[b] + (IF rec[b] \in Unpaid THEN 0 ELSE 1)
    BY DEF ChargedOnceUnlessLost
  <2>0. charged[b] \in Nat /\ lost[b] \in Nat BY DEF IInv, TypeOK
  <2>1. CASE rec[b] \notin Unpaid BY <2>0, <2>1 DEF IInv, AtMostOne
  <2>2. CASE rec[b] \in Unpaid /\ ~Replaced(b)
    BY <2>0, <2>2 DEF IInv, OpenIsUncharged
  <2>3. CASE rec[b] \in Unpaid /\ Replaced(b)
    BY <2>3, StateNames DEF IInv, JobGiven, Replaced, Unpaid, Open
  <2>4. QED BY <2>1, <2>2, <2>3
<1>2. QED BY <1>1, FeeInductive, PTL

\* At most once, as ledger.rs has it: while no record was lost in a write and
\* no reply cut, over any number of kills, refusals and lost replies.
THEOREM FeeIsChargedOnce == Spec => []((\A b \in Bids : lost[b] = 0) => ChargedOnce)
<1>1. IInv => ((\A b \in Bids : lost[b] = 0) => ChargedOnce)
  <2> SUFFICES ASSUME IInv, NEW b \in Bids, lost[b] = 0 PROVE charged[b] <= 1
    BY DEF ChargedOnce
  <2>1. QED BY DEF IInv, AtMostOne
<1>2. QED BY <1>1, FeeInductive, PTL

\* Only a completed, chargeable bid made after the baseline is charged.
THEOREM FeeIsForSettled == Spec => []OnlySettledIsCharged
<1>1. IInv => OnlySettledIsCharged BY DEF IInv
<1>2. QED BY <1>1, FeeInductive, PTL
-----------------------------------------------------------------------------
(* The refinement of Payments.                                             *)

promised == <<[b \in Bids |-> Told(b)], charged, lost>>

\* The start visits the records a kill left at "attempting", and no other.
StartIsFresh ==
    pc = "reconcile" \/ (Busy /\ job.back = "reconcile") =>
        \A b \in todo : rec[b] = "attempting" /\ (Busy => b # job.bid)

\* What a job may make of the record it is about to replace.
JobFollows ==
    pc = "write" =>
        \/ /\ rec[job.bid] = "attempting"
           /\ job.state \in {"paid", "indeterminate", "deferred"}
        \/ /\ rec[job.bid] \in Open
           /\ job.state \in {"noFee", "deferred", "observed", "attempting"}

JobIsPaid == Busy /\ job.state = "paid" => charged[job.bid] > 0

LedgerInv == IInv /\ StartIsFresh /\ JobFollows /\ JobIsPaid

\* A job begun leaves the rest of the start's loop alone.
LEMMA JobFollowsSteps ==
    ASSUME LedgerInv, NEW b \in Bids, NEW state \in States, NEW t \in 0..MaxTries,
           NEW back \in {"reconcile", "resolve", "withdraw"}, Writes(b, state, t, back),
           UNCHANGED rec, todo' \subseteq todo \ {b},
           back = "reconcile" => pc = "reconcile",
           state = "paid" => charged'[b] > 0,
           \/ rec[b] = "attempting" /\ state \in {"paid", "indeterminate", "deferred"}
           \/ rec[b] \in Open /\ state \in {"noFee", "deferred", "observed", "attempting"}
    PROVE  StartIsFresh' /\ JobFollows' /\ JobIsPaid'
<1>1. /\ pc' = "write" /\ job'.bid = b /\ job'.state = state /\ job'.back = back
  BY WritesValues
<1>2. StartIsFresh' BY <1>1 DEF LedgerInv, StartIsFresh
<1>3. JobFollows' /\ JobIsPaid' BY <1>1 DEF JobFollows, JobIsPaid
<1>4. QED BY <1>2, <1>3

LEMMA WorldFollows == ASSUME LedgerInv, World PROVE StartIsFresh' /\ JobFollows' /\ JobIsPaid'
<1>1. UNCHANGED <<charged, rec, pc, todo, job>>
  BY DEF World, Place, End, BackoffEnds, disk, node
<1>2. QED BY <1>1 DEF LedgerInv, StartIsFresh, JobFollows, JobIsPaid, Busy

LEMMA WriteFollows == ASSUME LedgerInv, Write PROVE StartIsFresh' /\ JobFollows' /\ JobIsPaid'
<1>0. job \in Jobs /\ job.bid \in Bids /\ rec \in [Bids -> States] /\ todo \subseteq Bids
      /\ job.back \in {"reconcile", "resolve", "withdraw"}
  BY DEF Write, WriteFails, Unlink, Rename, Torn, LedgerInv, IInv, JobGiven, Busy, Jobs, TypeOK
<1>1. CASE WriteFails \/ Torn
  <2>1. pc' \in {"off", "sleep"} BY <1>1 DEF WriteFails, Torn, Stops, OnError
  <2>2. QED BY <2>1 DEF StartIsFresh, JobFollows, JobIsPaid, Busy
<1>2. CASE Unlink
  BY <1>0, <1>2 DEF Unlink, LedgerInv, StartIsFresh, JobFollows, JobIsPaid, Busy
<1>3. CASE Rename
  <2>1. \A b \in Bids \ {job.bid} : rec'[b] = rec[b] BY <1>0, <1>3 DEF Rename
  <2>2. StartIsFresh'
    BY <1>0, <1>3, <2>1 DEF Rename, LedgerInv, IInv, JobGiven, StartIsFresh, Busy
  <2>3. JobFollows' BY <1>0, <1>3 DEF Rename, JobFollows
  <2>4. JobIsPaid'
    BY <1>0, <1>3 DEF Rename, LedgerInv, JobIsPaid, Busy
  <2>5. QED BY <2>2, <2>3, <2>4
<1>4. QED BY <1>1, <1>2, <1>3 DEF Write

LEMMA WatcherFollows ==
    ASSUME LedgerInv, Crash \/ Start \/ Pass PROVE StartIsFresh' /\ JobFollows' /\ JobIsPaid'
<1> USE DEF disk
<1>t. TypeOK BY DEF LedgerInv, IInv
<1>0. "noFee" \in States /\ "deferred" \in States /\ "observed" \in States
      /\ "attempting" \in States /\ "indeterminate" \in States
  BY DEF States, Unpaid, Open
<1>1. CASE Crash BY <1>1 DEF Crash, Stops, StartIsFresh, JobFollows, JobIsPaid, Busy
<1>2. CASE Launch BY <1>2 DEF Launch, StartIsFresh, JobFollows, JobIsPaid, Busy
<1>3. CASE Begin BY <1>3 DEF Begin, StartIsFresh, JobFollows, JobIsPaid, Busy
<1>4. ASSUME NEW b \in Bids, Reconcile(b) PROVE StartIsFresh' /\ JobFollows' /\ JobIsPaid'
  <2>1. rec[b] = "attempting" BY <1>4 DEF Reconcile, LedgerInv, StartIsFresh
  <2>2. Writes(b, "indeterminate", 0, "reconcile") BY <1>4 DEF Reconcile, Interrupted
  <2>3. QED BY <1>0, <1>4, <1>t, <2>1, <2>2, TriesValues, JobFollowsSteps DEF Reconcile
<1>5. CASE Sweep(Listed) \/ Sweep({}) \/ Load \/ EndPass
  BY <1>5 DEF Sweep, Load, EndPass, StartIsFresh, JobFollows, JobIsPaid, Busy
<1>6. ASSUME NEW b \in Bids, OpenRecord(b) \/ OpenFails(b) \/ Unread(b)
      PROVE  StartIsFresh' /\ JobFollows' /\ JobIsPaid'
  BY <1>6 DEF OpenRecord, OpenFails, Stops, Unread, StartIsFresh, JobFollows, JobIsPaid, Busy
<1>7. ASSUME NEW b \in Bids, Undated(b) PROVE StartIsFresh' /\ JobFollows' /\ JobIsPaid'
  <2>1. rec[b] \in Open BY <1>7 DEF Undated, LedgerInv, IInv, TodoIsFresh
  <2>2. QED BY <1>0, <1>7, <1>t, <2>1, TriesValues, JobFollowsSteps DEF Undated
<1>8. ASSUME NEW b \in Bids, Act(b) PROVE StartIsFresh' /\ JobFollows' /\ JobIsPaid'
  <2>1. rec[b] \in Open BY <1>8 DEF Act, LedgerInv, IInv, TodoIsFresh
  <2>2. CASE UNCHANGED <<pc, job>>
    BY <1>8, <2>2 DEF Act, StartIsFresh, JobFollows, JobIsPaid, Busy
  <2>3. CASE Writes(b, "noFee", 0, "resolve") \/ Writes(b, "observed", 0, "resolve")
    BY <1>0, <1>8, <1>t, <2>1, <2>3, TriesValues, JobFollowsSteps DEF Act
  <2>4. CASE Defers(b)
    BY <1>0, <1>8, <1>t, <2>1, <2>4, TriesValues, JobFollowsSteps DEF Act, Defers
  <2>5. CASE Writes(b, "attempting", tries[b], "withdraw")
    BY <1>0, <1>8, <1>t, <2>1, <2>5, TriesValues, JobFollowsSteps DEF Act
  <2>6. QED BY <1>8, <2>2, <2>3, <2>4, <2>5 DEF Act
<1>9. QED BY <1>1, <1>2, <1>3, <1>4, <1>5, <1>6, <1>7, <1>8 DEF Start, Pass

LEMMA WithdrawFollows ==
    ASSUME LedgerInv, Withdraw PROVE StartIsFresh' /\ JobFollows' /\ JobIsPaid'
<1> USE DEF disk
<1>1. PICK b \in Bids : b = job.bid /\ rec[b] = "attempting" /\ job \in Jobs
  BY DEF Withdraw, Paid, Refused, ReplyLost, ReplyCut, LedgerInv, IInv, JobGiven, Busy, Jobs
<1>2. /\ "paid" \in States /\ "deferred" \in States /\ "indeterminate" \in States
      /\ 0 \in 0..MaxTries /\ Again \in 0..MaxTries /\ TypeOK
  BY <1>1, TriesValues DEF States, Unpaid, Open, LedgerInv, IInv
<1>3. todo \subseteq todo \ {b}
  BY <1>1 DEF Withdraw, Paid, Refused, ReplyLost, ReplyCut, LedgerInv, IInv, JobGiven, TodoIsFresh, Busy
<1>4. CASE Paid
  <2>1. charged'[b] > 0 BY <1>1, <1>2, <1>4 DEF Paid, Pays, TypeOK
  <2>2. QED BY <1>1, <1>2, <1>3, <1>4, <2>1, JobFollowsSteps DEF Paid
<1>5. CASE Refused BY <1>1, <1>2, <1>3, <1>5, JobFollowsSteps DEF Refused
<1>6. CASE ReplyLost BY <1>1, <1>2, <1>3, <1>6, JobFollowsSteps DEF ReplyLost
<1>7. CASE ReplyCut BY <1>1, <1>2, <1>3, <1>7, JobFollowsSteps DEF ReplyCut
<1>8. QED BY <1>4, <1>5, <1>6, <1>7 DEF Withdraw

\* Every record a job replaces is one it may follow, at the start and in a pass.
THEOREM LedgerInductive == Spec => []LedgerInv
<1>1. Init => LedgerInv
  BY InitHolds DEF Init, LedgerInv, StartIsFresh, JobFollows, JobIsPaid, Busy
<1>2. LedgerInv /\ [Next]_vars => LedgerInv'
  <2>1. SUFFICES ASSUME LedgerInv, [Next]_vars PROVE LedgerInv' OBVIOUS
  <2>2. IInv' BY <2>1, StepHolds DEF LedgerInv
  <2>3. CASE UNCHANGED vars
    BY <2>1, <2>2, <2>3 DEF vars, disk, LedgerInv, StartIsFresh, JobFollows, JobIsPaid, Busy
  <2>4. QED
    BY <2>1, <2>2, <2>3, WorldFollows, WriteFollows, WatcherFollows, WithdrawFollows
    DEF Next, LedgerInv
<1>3. QED BY <1>1, <1>2, PTL DEF Spec

-----------------------------------------------------------------------------

LEMMA SaysValues ==
    /\ \A s \in {"none", "watching", "deferred"} : Says(s) = "nothing"
    /\ \A s \in {"noFee", "observed"} : Says(s) = "unpaid"
    /\ Says("attempting") = "open" /\ Says("paid") = "paid" /\ Says("indeterminate") = "unknown"
BY DEF Says

\* A bid whose record is neither replaced nor rewritten is told of as before.
LEMMA ToldKept ==
    ASSUME NEW b \in Bids, rec'[b] = rec[b],
           pc = "rename" => job.bid # b,
           pc' = "rename" => job'.bid # b
    PROVE  Told(b)' = Told(b)
BY DEF Told

\* Steps that rewrite no record, and neither charge nor lose one.
LEMMA NothingTold ==
    ASSUME UNCHANGED <<charged, rec, lost>>, pc # "rename", pc' # "rename"
    PROVE  UNCHANGED promised
<1>1. \A b \in Bids : Told(b)' = Told(b) BY DEF Told
<1>2. QED BY <1>1 DEF promised

\* The old record is gone: what the new one says is begun or reported.
LEMMA UnlinkReports ==
    ASSUME LedgerInv, Unlink
    PROVE  (\E b \in Bids : Promise!Start(b) \/ Promise!Report(b)) \/ UNCHANGED promised
<1>1. PICK b \in Bids : b = job.bid
  BY DEF Unlink, LedgerInv, IInv, JobGiven, Busy, Jobs
<1>2. /\ rec \in [Bids -> States] /\ charged[b] \in Nat /\ lost[b] \in Nat
  BY DEF LedgerInv, IInv, TypeOK
<1>3. \A c \in Bids \ {b} : Told(c)' = Told(c)
  BY <1>1, <1>2, ToldKept DEF Unlink
<1>4. Told(b) = Says(rec[b]) /\ Told(b)' = Says(job.state)
  BY <1>1 DEF Unlink, Told
<1>5. job.state \in Before => charged[b] <= lost[b]
  BY <1>1 DEF Unlink, LedgerInv, IInv, JobIsUncharged, Busy
<1>6. UNCHANGED <<charged, lost>> BY DEF Unlink
<1>7. ASSUME NEW r, Told(b)' = r, r \in {"nothing", "paid", "unpaid", "unknown"},
             Told(b) = "open" \/ (Told(b) = "nothing" /\ r = "unpaid"),
             r \in {"nothing", "unpaid"} => charged[b] <= lost[b],
             r = "paid" => charged[b] > 0
      PROVE  Promise!Report(b)
  <2>1. [c \in Bids |-> Told(c)]' = [[c \in Bids |-> Told(c)] EXCEPT ![b] = r]
    BY <1>3, <1>7
  <2>2. /\ [c \in Bids |-> Told(c)][b] = Told(b)
        /\ r \in Promise!Reports \ {"open", "forgotten"}
        /\ r \in Promise!Unpaid => charged[b] <= lost[b]
    BY <1>7 DEF Promise!Reports, Promise!Unpaid
  <2>3. QED BY <1>6, <1>7, <2>1, <2>2 DEF Promise!Report
<1>8. CASE rec[b] = "attempting"
  <2>1. Told(b) = "open" BY <1>4, <1>8, SaysValues
  <2>2. CASE job.state = "paid"
    <3>1. charged[b] > 0 BY <1>1, <2>2 DEF Unlink, LedgerInv, JobIsPaid, Busy
    <3>2. QED BY <1>4, <1>7, <2>1, <2>2, <3>1, SaysValues
  <2>3. CASE job.state = "indeterminate" BY <1>4, <1>7, <2>1, <2>3, SaysValues
  <2>4. CASE job.state = "deferred"
    BY <1>4, <1>5, <1>7, <2>1, <2>4, SaysValues DEF Before, Unpaid, Open
  <2>5. QED
    BY <1>1, <1>8, <2>2, <2>3, <2>4 DEF Unlink, LedgerInv, JobFollows, Open
<1>9. CASE rec[b] \in Open
  <2>1. Told(b) = "nothing" BY <1>4, <1>9, SaysValues DEF Open
  <2>2. CASE job.state \in {"noFee", "observed"}
    BY <1>4, <1>5, <1>7, <2>1, <2>2, SaysValues DEF Before, Unpaid, Open
  <2>3. CASE job.state = "deferred"
    <3>1. Told(b)' = Told(b) BY <1>4, <2>1, <2>3, SaysValues
    <3>2. QED BY <1>3, <1>6, <3>1 DEF promised
  <2>4. CASE job.state = "attempting"
    <3>1. Told(b)' = "open" /\ charged[b] <= lost[b]
      BY <1>4, <1>5, <2>4, SaysValues DEF Before
    <3>2. [c \in Bids |-> Told(c)]' = [[c \in Bids |-> Told(c)] EXCEPT ![b] = "open"]
      BY <1>3, <3>1
    <3>3. [c \in Bids |-> Told(c)][b] = "nothing" /\ [c \in Bids |-> {}][b] = {} BY <2>1
    <3>4. Promise!Start(b) BY <1>6, <3>1, <3>2, <3>3 DEF Promise!Start
    <3>5. QED BY <3>4
  <2>5. QED
    BY <1>1, <1>9, <2>2, <2>3, <2>4 DEF Unlink, LedgerInv, JobFollows, Open
<1>10. QED BY <1>1, <1>8, <1>9 DEF Unlink, LedgerInv, JobFollows

\* The new record in its place says what it was going to say.
LEMMA RenameKeeps == ASSUME LedgerInv, Rename PROVE UNCHANGED promised
<1>1. PICK b \in Bids : b = job.bid
  BY DEF Rename, LedgerInv, IInv, JobGiven, Busy, Jobs
<1>2. rec \in [Bids -> States] /\ job.back # "rename"
  BY DEF Rename, LedgerInv, IInv, JobGiven, Busy, Jobs, TypeOK
<1>3. \A c \in Bids \ {b} : Told(c)' = Told(c)
  BY <1>1, <1>2, ToldKept DEF Rename
<1>4. Told(b)' = Told(b) BY <1>1, <1>2 DEF Rename, Told
<1>5. QED BY <1>3, <1>4 DEF Rename, promised

\* A record lost in its write lapses, and says nothing.
LEMMA TornLapses == ASSUME LedgerInv, Torn PROVE \E b \in Bids : Promise!Lapse(b)
<1>1. PICK b \in Bids : b = job.bid
  BY DEF Torn, LedgerInv, IInv, JobGiven, Busy, Jobs
<1>2. pc' # "rename" /\ UNCHANGED <<rec, charged>> /\ lost' = [lost EXCEPT ![b] = @ + 1]
  BY <1>1 DEF Torn, Stops, OnError, Lose, disk
<1>3. \A c \in Bids \ {b} : Told(c)' = Told(c)
  BY <1>1, <1>2, ToldKept DEF Torn
<1>4. rec[b] = "none" BY <1>1 DEF Torn, LedgerInv, IInv, JobGiven
<1>5. Told(b)' = "nothing" BY <1>2, <1>4, SaysValues DEF Told
<1>6. [c \in Bids |-> Told(c)]' = [[c \in Bids |-> Told(c)] EXCEPT ![b] = "nothing"]
  BY <1>3, <1>5
<1>7. Promise!Lapse(b) BY <1>2, <1>6 DEF Promise!Lapse
<1>8. QED BY <1>7

\* A withdrawal is paid under its marker; a reply cut in its body is a lapse.
LEMMA WithdrawPays ==
    ASSUME LedgerInv, Withdraw
    PROVE  (\E b \in Bids : Promise!Pay(b) \/ Promise!Lapse(b)) \/ UNCHANGED promised
<1>1. PICK b \in Bids : b = job.bid /\ rec[b] = "attempting"
  BY DEF Withdraw, Paid, Refused, ReplyLost, ReplyCut, LedgerInv, IInv, JobGiven, Busy, Jobs
<1>2. /\ pc = "withdraw" /\ pc' = "write" /\ rec' = rec
  BY DEF Withdraw, Paid, Refused, ReplyLost, ReplyCut, Writes, disk
<1>3. charged \in [Bids -> Nat] /\ lost \in [Bids -> Nat]
  BY DEF LedgerInv, IInv, TypeOK
<1>4. charged[b] <= lost[b]
  BY <1>1, <1>2 DEF LedgerInv, IInv, JobGiven, JobIsUncharged, Busy, Before
<1>5. \A c \in Bids : Told(c)' = Told(c) BY <1>2, ToldKept
<1>6. [c \in Bids |-> Told(c)]' = [c \in Bids |-> Told(c)] BY <1>5
<1>7. [c \in Bids |-> Told(c)][b] = "open" BY <1>1, <1>2, SaysValues DEF Told
<1>8. ASSUME charged' = [charged EXCEPT ![b] = @ + 1], lost' = lost
      PROVE  Promise!Pay(b)
  BY <1>4, <1>6, <1>7, <1>8 DEF Promise!Pay
<1>9. CASE Paid
  BY <1>1, <1>8, <1>9 DEF Paid, Pays
<1>10. CASE Refused BY <1>2, <1>10, NothingTold DEF Refused
<1>11. CASE ReplyLost
  <2>1. PICK n \in {0, 1} : charged' = [charged EXCEPT ![b] = @ + n]
    BY <1>1, <1>11 DEF ReplyLost, Pays
  <2>2. CASE n = 0
    <3>1. charged' = charged BY <1>3, <2>1, <2>2
    <3>2. QED BY <1>2, <1>11, <3>1, NothingTold DEF ReplyLost
  <2>3. QED BY <1>8, <1>11, <2>1, <2>2 DEF ReplyLost
<1>12. CASE ReplyCut
  <2>1. PICK n \in {0, 1} : charged' = [charged EXCEPT ![b] = @ + n]
    BY <1>1, <1>12 DEF ReplyCut, Pays
  <2>2. lost' = [lost EXCEPT ![b] = @ + 1] BY <1>1, <1>12 DEF ReplyCut, Lose
  <2>3. n = 0 => charged' = charged BY <1>3, <2>1
  <2>4. n = 1 => charged' = [charged EXCEPT ![b] = @ + 1] BY <2>1
  <2>5. Promise!Lapse(b)
    BY <1>4, <1>6, <1>7, <2>2, <2>3, <2>4 DEF Promise!Lapse
  <2>6. QED BY <2>5
<1>13. QED BY <1>9, <1>10, <1>11, <1>12 DEF Withdraw

\* The watcher's records and withdrawals implement the abstract payments: what a
\* torn write or a cut reply loses is a lapse, and nothing else costs a charge.
THEOREM FeesArePayments == Spec => ImplementsPayments
<1>1. Init => Promise!Init
  <2>1. SUFFICES ASSUME Init PROVE Promise!Init OBVIOUS
  <2>2. \A b \in Bids : Told(b) = "nothing" BY <2>1, SaysValues DEF Init, Told
  <2>3. QED BY <2>1, <2>2 DEF Init, Promise!Init
<1>2. ASSUME LedgerInv, [Next]_vars PROVE [Promise!Next]_promised
  <2>1. CASE World \/ UNCHANGED vars
    <3>1. UNCHANGED <<charged, rec, pc, job, lost>>
      BY <2>1 DEF World, Place, End, BackoffEnds, disk, node, vars
    <3>2. \A b \in Bids : Told(b)' = Told(b) BY <3>1 DEF Told
    <3>3. QED BY <3>1, <3>2 DEF promised
  <2>2. CASE Write
    <3>1. CASE WriteFails
      BY <3>1, NothingTold DEF WriteFails, Stops, OnError, disk
    <3>2. QED
      BY <1>2, <2>2, <3>1, UnlinkReports, RenameKeeps, TornLapses DEF Write, Promise!Next
  <2>3. CASE Crash BY <2>3, NothingTold DEF Crash, Stops, disk
  <2>4. CASE Start
    BY <2>4, NothingTold DEF Start, Launch, Begin, Reconcile, Writes, disk
  <2>5. CASE Pass
    <3>1. ASSUME NEW b \in Bids, OpenRecord(b) PROVE UNCHANGED promised
      <4>1. rec[b] = "none" BY <1>2, <3>1 DEF OpenRecord, LedgerInv, IInv, TodoIsFresh
      <4>2. /\ rec \in [Bids -> States] /\ rec' = [rec EXCEPT ![b] = "watching"]
            /\ pc = "sweep" /\ pc' = "sweep" /\ UNCHANGED <<charged, lost>>
        BY <1>2, <3>1 DEF OpenRecord, LedgerInv, IInv, TypeOK
      <4>3. \A c \in Bids \ {b} : Told(c)' = Told(c) BY <4>2, ToldKept
      <4>4. Told(b) = "nothing" /\ Told(b)' = "nothing"
        BY <1>2, <3>1, <4>1, <4>2, SaysValues DEF Told
      <4>5. QED BY <4>2, <4>3, <4>4 DEF promised
    <3>2. CASE Sweep(Listed) \/ Sweep({}) \/ Load \/ EndPass
      BY <3>2, NothingTold DEF Sweep, Load, EndPass, disk
    <3>3. ASSUME NEW b \in Bids, OpenFails(b) \/ Unread(b) \/ Undated(b) \/ Act(b)
          PROVE  UNCHANGED promised
      BY <3>3, NothingTold DEF OpenFails, Unread, Undated, Act, Stops, Defers, Writes, disk
    <3>4. QED BY <2>5, <3>1, <3>2, <3>3 DEF Pass
  <2>6. CASE Withdraw BY <1>2, <2>6, WithdrawPays DEF Promise!Next
  <2>7. QED BY <1>2, <2>1, <2>2, <2>3, <2>4, <2>5, <2>6 DEF Next
<1>3. QED BY <1>1, <1>2, LedgerInductive, PTL DEF Spec, ImplementsPayments, Promise!Spec, promised
=============================================================================
