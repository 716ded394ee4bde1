---------------------------- MODULE DeskRecovery ----------------------------
(***************************************************************************)
(* The recovery net of one desk swap: the durable record (store.rs), the   *)
(* registry of stop flags and the relaunch (rehydrate.rs), the refund      *)
(* watcher at T1 and the swipe watcher at T2 with the routine both of them *)
(* fire (watch.rs, refund.rs), the reclaim watch of a follower             *)
(* (reclaim.rs), and the tracker's status and abort commands               *)
(* (commands.rs), all running concurrently over one record that each of    *)
(* them reads as a whole, keeps across an await, and writes as a whole.    *)
(*                                                                         *)
(* The net exists once per origin: "boot" is the one rehydrate spawns at   *)
(* launch, "drive" the one the conductor spawns (module DeskConductor).    *)
(***************************************************************************)
EXTENDS SwapChain, FiniteSets

CONSTANTS
    AdvertisedT1,  \* the T1 of the desk's accept, which the record keeps
    Desk,          \* what the desk answers: "silent", "honest" or "any"
    MaxFaults,     \* bound: engine calls and saves that fail although they could succeed
    MaxCrashes,    \* bound: how often the application is killed
    MaxPolls       \* bound: how many status and abort commands the tracker sends

ASSUME DeskAssumption  == Desk \in {"silent", "honest", "any"}
ASSUME BoundAssumption == /\ AdvertisedT1 \in Nat /\ MaxFaults \in Nat
                          /\ MaxCrashes \in Nat /\ MaxPolls \in Nat

VARIABLES
    alive,    \* the application runs
    booting,  \* it has started and rehydrate has not run yet
    rec,      \* the durable record of the swap
    reg,      \* the registry's entry: the stop flag a raise() reaches
    raised,   \* the stop flags that are up
    fire,     \* the refund and swipe watchers, by origin
    recl,     \* the reclaim watches, by origin
    ui,       \* the desk_status command under way
    faults, crashes, polls

tasks   == <<reg, raised, fire, recl>>
budget  == <<faults, crashes, polls>>
app     == <<alive, booting>>
recoveryVars == <<chain, app, rec, tasks, ui, budget>>

-----------------------------------------------------------------------------
\* The record.
Terminal == {"SETTLED", "A_REFUNDED", "FAILED", "ABORTED"}
State    == Terminal \cup {"ACCEPTED", "A_LOCKED", "B_LOCKED", "READY", "A_CLAIMED",
                           "STOPPED_BEFORE_LOCK_B"}

Record == [present   : BOOLEAN,  \* the file exists
           state     : State,
           locked    : BOOLEAN,  \* our own lock txid is recorded
           presig    : BOOLEAN,  \* the refund pre-signature is recorded
           t2        : BOOLEAN,  \* the engine-derived T2 is recorded
           refunded  : BOOLEAN,  \* refund_txid
           reclaimed : BOOLEAN]  \* reclaim_txid

NoRecord == [present |-> FALSE, state |-> "ABORTED", locked |-> FALSE, presig |-> FALSE,
             t2 |-> FALSE, refunded |-> FALSE, reclaimed |-> FALSE]

IsTerminal(r) == r.state \in Terminal

Origin == {"boot", "drive"}
NoFlag == "none"
Kind   == {"refund", "swipe"}

\* A refund or swipe watcher.  `last` marks the refund tried again after a
\* failed swipe, `snap` is the record it loaded before the engine call.
FirePc  == {"off", "spawned", "armed", "refunding", "saving", "deciding", "swiping", "retrying"}
FireTask == [pc : FirePc, last : BOOLEAN, flag : Origin \cup {NoFlag}, snap : Record]
IdleFire == [pc |-> "off", last |-> FALSE, flag |-> NoFlag, snap |-> NoRecord]

\* A reclaim watch is about to read its flag, or has asked for the spend of chain A.
ReclPc   == {"off", "watching", "asked", "extracting", "reclaiming", "saving"}
ReclTask == [pc : ReclPc, ruledOut : BOOLEAN, flag : Origin \cup {NoFlag}, snap : Record]
IdleRecl == [pc |-> "off", ruledOut |-> FALSE, flag |-> NoFlag, snap |-> NoRecord]

\* desk_status: asked (the desk's answer is on its way), mirroring (the record is
\* loaded and not yet saved).
UiPc   == {"idle", "asked", "mirroring"}
Ui     == [pc : UiPc, word : State, txid : BOOLEAN, snap : Record]
IdleUi == [pc |-> "idle", word |-> "ACCEPTED", txid |-> FALSE, snap |-> NoRecord]

-----------------------------------------------------------------------------
\* Faults: a call that could have succeeded and does not.
Fault   == faults < MaxFaults /\ faults' = faults + 1 /\ UNCHANGED <<crashes, polls>>
NoFault == UNCHANGED budget
Poll    == polls < MaxPolls /\ polls' = polls + 1 /\ UNCHANGED <<faults, crashes>>

\* store.save: the whole record, replaced atomically.
Save(r) == rec' = [r EXCEPT !.present = TRUE]

Stopped(flag) == flag \in raised

\* DeskWatchers.raise: without an entry in the registry there is nothing to raise.
RaiseUnregistered(flag) == raised \cup {flag}
Raise(flag) == IF flag = NoFlag THEN raised ELSE raised \cup {flag}
-----------------------------------------------------------------------------
\* A refund or swipe watcher ends.  The rehydrated refund watcher then removes
\* the registry's entry, whoever else holds the flag.
FireStep(o, k, t) == fire' = [fire EXCEPT ![o][k] = t]
AfterEnd(o, k)    == reg' = IF o = "boot" /\ k = "refund" THEN NoFlag ELSE reg
EndFire(o, k)     == FireStep(o, k, IdleFire) /\ AfterEnd(o, k)

\* swipe_plan: the swipe watcher schedules itself only for a leader with an
\* engine-derived T2 and an unfinished record.
PlanSwipe(o) ==
    LET t == fire[o]["swipe"]
    IN /\ alive /\ t.pc = "spawned"
       /\ FireStep(o, "swipe", IF rec.present /\ ~IsTerminal(rec) /\ WeLead /\ rec.t2
                               THEN [t EXCEPT !.pc = "armed"] ELSE IdleFire)
       /\ UNCHANGED <<chain, app, rec, reg, raised, recl, ui, budget>>

DueAtT1(k) == now >= AdvertisedT1
Due(k) == now >= (IF k = "refund" THEN AdvertisedT1 ELSE T2)

\* The watcher's loop sees its flag before it looks at the clock.
StandDown(o, k) ==
    /\ alive /\ fire[o][k].pc = "armed" /\ Stopped(fire[o][k].flag)
    /\ EndFire(o, k)
    /\ UNCHANGED <<chain, app, rec, raised, recl, ui, budget>>

\* execute_refund's guards on the record it loaded.
RefundsUnrecorded(r) == IsTerminal(r)
NothingToRefund(r)   == IsTerminal(r) \/ ~r.locked

\* execute_refund up to its broadcast: the guards, in the code's order.
\* An error that is not "already terminal" goes on to consider the swipe.
BeginRefund(o, k, t) ==
    LET onError == IF t.last THEN EndFire(o, k)
                   ELSE FireStep(o, k, [t EXCEPT !.pc = "deciding"]) /\ UNCHANGED reg
    IN IF ~rec.present THEN onError
       ELSE IF NothingToRefund(rec) THEN EndFire(o, k)
       ELSE IF ~rec.presig THEN onError
       ELSE /\ FireStep(o, k, [t EXCEPT !.pc = "refunding", !.snap = rec])
            /\ UNCHANGED reg

\* The watcher fires, once.
Fires(o, k) ==
    /\ alive /\ fire[o][k].pc = "armed" /\ ~Stopped(fire[o][k].flag) /\ Due(k)
    /\ BeginRefund(o, k, fire[o][k])
    /\ UNCHANGED <<chain, app, rec, raised, recl, ui, budget>>

\* The refund tried again because the swipe failed.
RetryRefund(o, k) ==
    /\ alive /\ fire[o][k].pc = "retrying"
    /\ BeginRefund(o, k, [fire[o][k] EXCEPT !.last = TRUE])
    /\ UNCHANGED <<chain, app, rec, raised, recl, ui, budget>>

\* The engine's refund call came back with an error, or without a txid.
NeverSwipes(o, k) == EndFire(o, k)
RefundFailed(o, k) ==
    IF fire[o][k].last THEN EndFire(o, k)
    ELSE /\ FireStep(o, k, [fire[o][k] EXCEPT !.pc = "deciding", !.snap = NoRecord])
         /\ UNCHANGED reg

\* The engine publishes the refund and says so, or its answer is lost.
RefundGoesOut(o, k) ==
    /\ alive /\ fire[o][k].pc = "refunding" /\ WeLead /\ RefundA
    /\ \/ NoFault /\ FireStep(o, k, [fire[o][k] EXCEPT !.pc = "saving"]) /\ UNCHANGED reg
       \/ Fault /\ RefundFailed(o, k)
    /\ UNCHANGED <<app, rec, raised, recl, ui>>

\* The engine refuses, the chain refuses, or the call fails before it is sent.
\* A follower has no refund of its own on chain B.
RefundRefused(o, k) ==
    /\ alive /\ fire[o][k].pc = "refunding"
    /\ IF WeLead /\ CanRefundA THEN Fault ELSE NoFault
    /\ RefundFailed(o, k)
    /\ UNCHANGED <<chain, app, rec, raised, recl, ui>>

\* execute_refund after its broadcast: the record it loaded before is saved.
SaveRefund(o, k) ==
    /\ alive /\ fire[o][k].pc = "saving"
    /\ \/ /\ Save([fire[o][k].snap EXCEPT !.refunded = TRUE, !.state = "A_REFUNDED"])
          /\ NoFault /\ EndFire(o, k)
       \/ Fault /\ RefundFailed(o, k) /\ UNCHANGED rec
    /\ UNCHANGED <<chain, app, raised, recl, ui>>

\* deep_abort_decision_for_record: the swipe is the leader's, from the engine's T2 on.
SwipeAllowed(r) == WeLead /\ r.t2 /\ ~IsTerminal(r) /\ now >= T2

\* execute_deep_abort_and_report: is the swipe available?
Decide(o, k) ==
    /\ alive /\ fire[o][k].pc = "deciding"
    /\ IF rec.present /\ SwipeAllowed(rec)
       THEN FireStep(o, k, [fire[o][k] EXCEPT !.pc = "swiping"]) /\ UNCHANGED reg
       ELSE EndFire(o, k)
    /\ UNCHANGED <<chain, app, rec, raised, recl, ui, budget>>

\* The swipe leaves no trace in the record.
SwipeGoesOut(o, k) ==
    /\ alive /\ fire[o][k].pc = "swiping" /\ SwipeA
    /\ \/ NoFault /\ EndFire(o, k)
       \/ Fault /\ FireStep(o, k, [fire[o][k] EXCEPT !.pc = "retrying"]) /\ UNCHANGED reg
    /\ UNCHANGED <<app, rec, raised, recl, ui>>

SwipeRefused(o, k) ==
    /\ alive /\ fire[o][k].pc = "swiping"
    /\ IF CanSwipeA THEN Fault ELSE NoFault
    /\ FireStep(o, k, [fire[o][k] EXCEPT !.pc = "retrying"])
    /\ UNCHANGED <<chain, app, rec, reg, raised, recl, ui>>

FireNext(o, k) ==
    \/ StandDown(o, k) \/ Fires(o, k) \/ RetryRefund(o, k)
    \/ RefundGoesOut(o, k) \/ RefundRefused(o, k) \/ SaveRefund(o, k)
    \/ Decide(o, k) \/ SwipeGoesOut(o, k) \/ SwipeRefused(o, k)
-----------------------------------------------------------------------------
\* The reclaim watch.
ReclStep(o, t) == recl' = [recl EXCEPT ![o] = t]
ReclRest       == UNCHANGED <<app, reg, raised, fire, ui>>

\* A failed attempt leaves the watch polling, with nothing ruled out.
ReclTrustsAnswer(o) == ReclStep(o, [recl[o] EXCEPT !.pc = "saving"])
ReclGivesUp(o) == ReclStep(o, IdleRecl)
ReclRulesOut(o) == ReclStep(o, [recl[o] EXCEPT !.pc = "watching", !.ruledOut = TRUE,
                                               !.snap = NoRecord])
ReclRetry(o) == ReclStep(o, [recl[o] EXCEPT !.pc = "watching", !.snap = NoRecord])

\* The poll: the flag is read before it, never while its answer is awaited.
ReclPolls(o) ==
    /\ alive /\ recl[o].pc = "watching" /\ ~Stopped(recl[o].flag)
    /\ ReclStep(o, [recl[o] EXCEPT !.pc = "asked"])
    /\ ReclRest /\ UNCHANGED <<chain, rec, budget>>

\* The flag is up; a poll under way came back with nothing to act on.
ReclStops(o) ==
    /\ alive /\ recl[o].pc \in {"watching", "asked"} /\ Stopped(recl[o].flag)
    /\ ReclStep(o, IdleRecl)
    /\ ReclRest /\ UNCHANGED <<chain, rec, budget>>

\* attempt_reclaim's guards on the record.
ReclaimsUnrecorded(r) == r.reclaimed \/ WeLead
NothingToReclaim(r) == r.reclaimed \/ WeLead \/ ~r.locked

\* The poll sees chain A spent by a transaction not yet ruled out; attempt_reclaim
\* loads the record and checks it.  A record that cannot be loaded is retried.
SeesSpend(o) ==
    /\ alive /\ recl[o].pc = "asked"
    /\ legA \in {"claimed", "refunded", "swiped"} /\ ~recl[o].ruledOut
    /\ rec.present
    /\ ReclStep(o, IF NothingToReclaim(rec) THEN IdleRecl
                   ELSE [recl[o] EXCEPT !.pc = "extracting", !.snap = rec])
    /\ ReclRest /\ UNCHANGED <<chain, rec, budget>>

\* extract_secret on the spending transaction: the refund holds s_a, our own
\* claim does not, a swipe never will; a failure is retried at the next poll.
Extract(o) ==
    /\ alive /\ recl[o].pc = "extracting"
    /\ \/ /\ NoFault
          /\ ReclStep(o, CASE legA = "refunded" -> [recl[o] EXCEPT !.pc = "reclaiming"]
                           [] legA = "claimed"  -> [IdleRecl EXCEPT !.pc = "watching",
                                                         !.ruledOut = TRUE, !.flag = recl[o].flag]
                           [] OTHER             -> IdleRecl)
       \/ Fault /\ ReclRetry(o)
    /\ ReclRest /\ UNCHANGED <<chain, rec>>

ReclaimGoesOut(o) ==
    /\ alive /\ recl[o].pc = "reclaiming" /\ ReclaimB
    /\ \/ NoFault /\ ReclStep(o, [recl[o] EXCEPT !.pc = "saving"])
       \/ Fault /\ ReclRetry(o)
    /\ ReclRest /\ UNCHANGED rec

ReclaimRefused(o) ==
    /\ alive /\ recl[o].pc = "reclaiming"
    /\ IF CanReclaimB THEN Fault ELSE NoFault
    /\ ReclRetry(o)
    /\ ReclRest /\ UNCHANGED <<chain, rec>>

SaveReclaim(o) ==
    /\ alive /\ recl[o].pc = "saving"
    /\ \/ /\ Save([recl[o].snap EXCEPT !.reclaimed = TRUE, !.state = "A_REFUNDED"])
          /\ NoFault /\ ReclStep(o, IdleRecl)
       \/ /\ Fault /\ UNCHANGED rec
          /\ ReclRetry(o)
    /\ ReclRest /\ UNCHANGED chain

ReclNext(o) == \/ ReclPolls(o) \/ ReclStops(o) \/ SeesSpend(o) \/ Extract(o)
               \/ ReclaimGoesOut(o) \/ ReclaimRefused(o) \/ SaveReclaim(o)
-----------------------------------------------------------------------------
\* What the desk may answer to /status.
HonestWord ==
    CASE legA = "none"                        -> {"ACCEPTED", "ABORTED"}
      [] legA = "locked" /\ legB = "none"     -> {"A_LOCKED"}
      [] legA = "locked" /\ legB # "none"     -> {"B_LOCKED", "READY"}
      [] legA = "claimed" /\ legB # "swept"   -> {"A_CLAIMED"}
      [] legA = "claimed" /\ legB = "swept"   -> {"SETTLED"}
      [] legA = "refunded"                    -> {"A_REFUNDED"}
      [] legA = "swiped"                      -> {"FAILED"}

\* A desk that may say anything: one unfinished word, and one of each pair of
\* terminal words the commands treat alike (SETTLED and A_REFUNDED, FAILED and ABORTED).
Word == IF Desk = "honest" THEN HonestWord ELSE {"READY", "SETTLED", "FAILED"}

StatusAsks ==
    /\ alive /\ ui.pc = "idle" /\ Desk # "silent" /\ Poll
    /\ \E w \in Word, t \in BOOLEAN :
          /\ t => Desk = "any" \/ OwnLocked
          /\ ui' = [IdleUi EXCEPT !.pc = "asked", !.word = w, !.txid = t]
    /\ UNCHANGED <<chain, app, rec, tasks>>

\* A terminal word raises the stop flag; SETTLED and A_REFUNDED drop the record.
StatusAnswered ==
    /\ alive /\ ui.pc = "asked"
    /\ raised' = IF ui.word \in Terminal THEN Raise(reg) ELSE raised
    /\ IF ui.word \in {"SETTLED", "A_REFUNDED"}
       THEN rec' = NoRecord /\ ui' = IdleUi
       ELSE /\ ui' = IF rec.present
                     THEN [ui EXCEPT !.pc = "mirroring",
                                     !.snap = [rec EXCEPT !.state = ui.word,
                                                          !.locked = @ \/ ui.txid]]
                     ELSE IdleUi
            /\ UNCHANGED rec
    /\ UNCHANGED <<chain, app, reg, fire, recl, budget>>

\* The mirror is best effort: a failed save is ignored.  Nothing is awaited between
\* the load and this save, but no lock is held either: on another thread of the
\* runtime a watcher or the drive may save in between.
StatusMirrored ==
    /\ alive /\ ui.pc = "mirroring"
    /\ ui' = IdleUi
    /\ \/ Save(ui.snap) /\ NoFault
       \/ UNCHANGED rec /\ Fault
    /\ UNCHANGED <<chain, app, tasks>>

\* desk_abort: an honest desk refuses once a leg is locked.  No flag is raised.
DeskAborts ==
    /\ alive /\ rec.present /\ Desk # "silent" /\ Poll
    /\ Desk = "honest" => legA = "none" /\ legB = "none"
    /\ rec' = NoRecord
    /\ UNCHANGED <<chain, app, tasks, ui>>

UiNext == StatusAsks \/ StatusAnswered \/ StatusMirrored \/ DeskAborts
-----------------------------------------------------------------------------
\* The application is killed and started again.
NoFires == [o \in Origin |-> [k \in Kind |-> IdleFire]]
NoRecls == [o \in Origin |-> IdleRecl]

Crash ==
    /\ alive /\ crashes < MaxCrashes
    /\ crashes' = crashes + 1
    /\ alive' = FALSE /\ booting' = FALSE
    /\ reg' = NoFlag /\ raised' = {}
    /\ fire' = NoFires /\ recl' = NoRecls /\ ui' = IdleUi
    /\ UNCHANGED <<chain, rec, faults, polls>>

Launch ==
    /\ ~alive
    /\ alive' = TRUE /\ booting' = TRUE
    /\ UNCHANGED <<chain, rec, tasks, ui, budget>>

\* register: the flag already in the registry, or a new one.
Flag(o) == IF reg = NoFlag THEN o ELSE reg

\* The watchers of origin o, all holding the same flag.
Spawn(o) ==
    /\ reg' = Flag(o)
    /\ fire' = [fire EXCEPT ![o] = [k \in Kind |->
                   [IdleFire EXCEPT !.pc = IF k = "refund" THEN "armed" ELSE "spawned",
                                    !.flag = Flag(o)]]]
    /\ recl' = [recl EXCEPT ![o] = [IdleRecl EXCEPT !.pc = "watching", !.flag = Flag(o)]]

Rehydrate ==
    /\ alive /\ booting /\ booting' = FALSE
    /\ IF rec.present /\ ~IsTerminal(rec) THEN Spawn("boot") ELSE UNCHANGED <<reg, fire, recl>>
    /\ UNCHANGED <<chain, alive, rec, raised, ui, budget>>
-----------------------------------------------------------------------------
TaskNext(o) == (\E k \in Kind : FireNext(o, k)) \/ PlanSwipe(o) \/ ReclNext(o)

\* The world outside the wallet: the clock and the desk.
Outside == /\ Tick \/ DeskReleases \/ DeskRedeems \/ DeskRecovers
           /\ UNCHANGED <<app, rec, tasks, ui, budget>>
DeskFunds == DeskLocks /\ UNCHANGED <<app, rec, tasks, ui, budget>>

NetNext == \/ UiNext \/ Launch \/ Rehydrate
           \/ \E o \in Origin : TaskNext(o)

\* A swap in flight whose wallet is about to start: the drive that locked our leg
\* is gone with the process that ran it.
Init ==
    /\ now \in 0..EndOfTime
    /\ legA = "locked"
    /\ legB \in IF WeFollow THEN {"locked"} ELSE {"none", "locked"}
    /\ sigOut \in IF legB = "locked" THEN BOOLEAN ELSE {FALSE}
    /\ alive = FALSE /\ booting = FALSE
    /\ \E t \in BOOLEAN :
          rec = [NoRecord EXCEPT !.present = TRUE, !.locked = TRUE, !.presig = TRUE, !.t2 = t,
                                 !.state = IF WeLead THEN "A_LOCKED" ELSE "B_LOCKED"]
    /\ reg = NoFlag /\ raised = {}
    /\ fire = NoFires /\ recl = NoRecls /\ ui = IdleUi
    /\ faults = 0 /\ crashes = 0 /\ polls = 0

Next == Outside \/ DeskFunds \/ NetNext \/ Crash

Spec == Init /\ [][Next]_recoveryVars

\* The clock runs; the runtime polls every task; an engine call ends; the
\* application, once down, is started again.  The desk owes nothing.
Fairness ==
    /\ WF_recoveryVars(Tick /\ UNCHANGED <<app, rec, tasks, ui, budget>>)
    /\ WF_recoveryVars(Launch) /\ WF_recoveryVars(Rehydrate)
    /\ \A o \in Origin :
          /\ WF_recoveryVars(PlanSwipe(o)) /\ WF_recoveryVars(ReclNext(o))
          /\ \A k \in Kind : WF_recoveryVars(FireNext(o, k))

FairSpec == Spec /\ Fairness
-----------------------------------------------------------------------------
\* The net's bookkeeping: what each variable may hold.
TypeOK ==
    /\ ChainTypeOK
    /\ alive \in BOOLEAN /\ booting \in BOOLEAN
    /\ rec \in Record
    /\ reg \in Origin \cup {NoFlag} /\ raised \subseteq Origin
    /\ fire \in [Origin -> [Kind -> FireTask]]
    /\ recl \in [Origin -> ReclTask]
    /\ ui \in Ui
    /\ faults \in 0..MaxFaults /\ crashes \in 0..MaxCrashes
    /\ polls \in 0..MaxPolls

\* The record says a coin came back only when it did on chain: a refund_txid or a
\* reclaim_txid is never saved for a transaction that did not go out, whatever
\* the desk says and whichever watcher saves over which (execute_refund and
\* attempt_reclaim write only after the engine returned a txid).
RecoveredOnlyOnChain ==
    /\ rec.refunded  => legA = "refunded"
    /\ rec.reclaimed => legB = "reclaimed"

Watching(o)    == recl[o].pc # "off" /\ ~Stopped(recl[o].flag)
Scheduled(o, k) == fire[o][k].pc # "off" /\ ~Stopped(fire[o][k].flag)

\* A follower whose coin is locked and may still come back by reclaim has a live,
\* unstopped reclaim watch (reclaim.rs: "a detected refund must start work, not
\* stop it").
LockedLegIsWatched ==
    (alive /\ ~booting /\ WeFollow /\ legB = "locked"
        /\ legA \in {"none", "locked", "refunded"})
    => \E o \in Origin : Watching(o)

\* It is so, over every failure and crash, as long as the tracker sent no status or
\* abort command: only a command stops the reclaim watch of a locked coin (that
\* one does is the finding about LockedLegIsWatched).
NoCommand == polls = 0
WatchedUntilCommand == NoCommand => LockedLegIsWatched

\* A leader whose coin is locked has its refund scheduled until T1 and its swipe
\* until T2 (rehydrate.rs: "nobody is watching the clock" is the failure it closes).
LockedLegIsScheduled ==
    (alive /\ ~booting /\ WeLead /\ legA = "locked")
    => /\ now < AdvertisedT1   => \E o \in Origin : Scheduled(o, "refund")
       /\ now < T2 /\ rec.t2 => \E o \in Origin : Scheduled(o, "swipe")

\* A leader's locked coin leaves the joint output: refunded, claimed or swiped.
LeaderLegMoves == (WeLead /\ rec.locked /\ rec.t2 /\ legA = "locked") ~> (legA # "locked")

\* A refunded swap leaves a follower whole: its locked coin is reclaimed, or a
\* command of the tracker came between.
FollowerReclaims == (WeFollow /\ rec.locked /\ legA = "refunded" /\ legB = "locked")
                        ~> (legB = "reclaimed" \/ ~NoCommand)
=============================================================================
