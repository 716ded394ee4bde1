--------------------------- MODULE DeskConductor ---------------------------
(***************************************************************************)
(* The conductor (conductor.rs): one drive of an accepted swap from the    *)
(* user's "proceed" to the claim, beside the recovery net it spawns.  The  *)
(* drive carries the swap's record in memory from its first step to its    *)
(* last and saves all of it at four points; the net, the status command    *)
(* and a crash work on the durable record meanwhile.                       *)
(*                                                                         *)
(* As follower ("sell"): M3, wait for the desk's chain-A lock, lock chain  *)
(* B, wait for the released signature, claim chain A, wait for the desk to *)
(* settle.  As leader ("buy"): M3, lock chain A, learn and watch the       *)
(* desk's chain-B lock, release the signature, wait for the desk's claim,  *)
(* sweep chain B.                                                          *)
(***************************************************************************)
EXTENDS DeskRecovery

CONSTANTS
    Margin,   \* the drive deadline is this long before the record's T1
    MaxAge    \* a sighting older than this counts as "could not look"

ASSUME ConductorAssumption == Margin \in Nat /\ MaxAge \in Nat /\ Margin <= AdvertisedT1

VARIABLES
    drive,  \* the drive: its position, its stop flag, its record in memory
    sight,  \* when the observer last saw the counterparty's leg locked to depth
    m3,     \* the desk has our refund pre-signature
    locks,  \* how many lock transactions of ours went out
    movedAt \* history: when the leg that is in sight left the joint output

conductorVars == <<drive, sight, m3, locks>>
vars == <<recoveryVars, conductorVars, movedAt>>

DrivePc == {"idle", "asking", "m3", "savePresig", "destination", "gate", "lock", "saveLock",
            "deskTxid", "saveTxid", "holding", "release", "awaitSig", "awaitClaim", "claim",
            "settle", "saveEnd", "ended", "done"}
Drive     == [pc : DrivePc, flag : Origin \cup {NoFlag}, mem : Record]
IdleDrive == [pc |-> "idle", flag |-> NoFlag, mem |-> NoRecord]
Unseen    == -1
Never     == -1

NetRest == UNCHANGED <<app, tasks, ui>>
Goto(pc)         == drive' = [drive EXCEPT !.pc = pc]
GotoWith(pc, r)  == drive' = [drive EXCEPT !.pc = pc, !.mem = r]
At(pc)           == alive /\ drive.pc = pc
DriveDeadline    == AdvertisedT1 - Margin

-----------------------------------------------------------------------------
\* The observer's poll of the counterparty's leg: "not yet" and "could not look"
\* both leave nothing to act on.  Only the gate reads the cell.
TheirLeg == IF WeFollow THEN legA ELSE legB

\* When the leg in sight leaves, and that there is none in sight any more.
Remembers ==
    LET leaves == sight # Unseen /\ TheirLeg = "locked" /\ TheirLeg' # "locked"
    IN movedAt' = IF leaves THEN now ELSE movedAt
Forgets == sight' = Unseen /\ movedAt' = Never

Observe ==
    /\ At("gate") /\ ~Stopped(drive.flag)
    /\ sight' \in {Unseen} \cup (IF TheirLeg = "locked" THEN {now} ELSE {})
    /\ UNCHANGED <<recoveryVars, drive, m3, locks, movedAt>>

GateUnchecked == TRUE
GateOfAnyAge == sight # Unseen
GateOpen == sight # Unseen /\ now - sight <= MaxAge

-----------------------------------------------------------------------------
\* desk_proceed: the drive loads the record and asks the desk for its depths.
Proceed ==
    /\ At("idle") /\ rec.present /\ ~IsTerminal(rec)
    /\ drive' = [IdleDrive EXCEPT !.pc = "asking", !.mem = rec]
    /\ UNCHANGED <<recoveryVars, sight, m3, locks, movedAt>>

\* A desk that says the swap is over ends the drive before it spawned anything.
DeskTerminal ==
    /\ At("asking") /\ drive' = IdleDrive
    /\ UNCHANGED <<recoveryVars, sight, m3, locks, movedAt>>

\* It registers its flag and spawns its own watchers, whether or not rehydrate
\* already spawned some.  A follower then waits for the desk's prepared lock, and
\* sees a flag that was already up.
Registers ==
    /\ At("asking")
    /\ Spawn("drive")
    /\ drive' = [drive EXCEPT !.pc = IF WeFollow /\ Stopped(Flag("drive")) THEN "ended" ELSE "m3",
                             !.flag = Flag("drive")]
    /\ Forgets
    /\ UNCHANGED <<chain, app, rec, raised, ui, budget, m3, locks>>

\* An engine, HTTP or protocol error, a terminal desk, a raised flag or a passed
\* deadline ends the drive wherever it waits.  A leader whose gate ran into its
\* deadline keeps the process for the recovery windows first.
Fails ==
    /\ alive /\ drive.pc \in {"m3", "destination", "gate", "lock", "deskTxid", "release",
                              "awaitSig", "awaitClaim", "claim"}
    /\ Goto("ended")
    /\ UNCHANGED <<recoveryVars, sight, m3, locks, movedAt>>

GateDeadline ==
    /\ At("gate") /\ WeLead /\ ~Stopped(drive.flag) /\ ~GateOpen /\ now >= DriveDeadline
    /\ Goto("holding")
    /\ UNCHANGED <<recoveryVars, sight, m3, locks, movedAt>>

HoldEnds ==
    /\ At("holding") /\ (Stopped(drive.flag) \/ now >= T2)
    /\ Goto("ended")
    /\ UNCHANGED <<recoveryVars, sight, m3, locks, movedAt>>

\* The refund pre-signatures are exchanged; the desk may have ours although its
\* answer never came back.
ExchangeM3 ==
    /\ At("m3") /\ m3' = TRUE
    /\ \/ GotoWith("savePresig", [drive.mem EXCEPT !.presig = TRUE])
       \/ Goto("ended")
    /\ UNCHANGED <<recoveryVars, sight, locks, movedAt>>

\* The drive saves its own copy of the record.
Persist(pc, next) ==
    /\ At(pc)
    /\ \/ Save(drive.mem) /\ NoFault /\ Goto(next)
       \/ UNCHANGED rec /\ Fault /\ Goto("ended")
    /\ NetRest /\ UNCHANGED <<chain, sight, m3, locks, movedAt>>

PresigNotSaved ==
    At("savePresig") /\ Goto(IF WeFollow THEN "gate" ELSE "destination")
        /\ UNCHANGED <<recoveryVars, sight, m3, locks, movedAt>>
SavePresigSkipsGate == Persist("savePresig", "destination")
SavePresig == Persist("savePresig", IF WeFollow THEN "gate" ELSE "destination")

\* The destinations both sides derive agree (a disagreement is a Fails).
DestinationAgrees ==
    /\ At("destination")
    /\ Goto("lock")
    /\ UNCHANGED <<recoveryVars, sight, m3, locks, movedAt>>

\* The confirmation gate: the flag is read before it, the deadline after it.
GatePasses ==
    /\ At("gate") /\ ~Stopped(drive.flag) /\ GateOpen
    /\ Goto(IF WeFollow THEN "destination" ELSE "release") /\ Forgets
    /\ UNCHANGED <<recoveryVars, m3, locks>>

\* The operator's stop before chain B is locked (an environment variable).
StopsBeforeLockB ==
    /\ At("lock") /\ WeFollow
    /\ GotoWith("saveEnd", [drive.mem EXCEPT !.state = "STOPPED_BEFORE_LOCK_B"])
    /\ UNCHANGED <<recoveryVars, sight, m3, locks, movedAt>>

OwnLock == IF WeLead THEN LockA ELSE LockB

\* The engine locks our leg, or does and its answer is lost.  A drive that finds
\* the leg locked already locks a second output, which is only counted here.
Locks ==
    /\ At("lock")
    /\ IF OwnLocked THEN UNCHANGED chain ELSE OwnLock
    /\ locks' = locks + 1
    /\ \/ /\ NoFault
          /\ GotoWith("saveLock", [drive.mem EXCEPT !.locked = TRUE,
                                     !.state = IF WeLead THEN "A_LOCKED" ELSE "B_LOCKED"])
       \/ Fault /\ Goto("ended")
    /\ NetRest /\ Remembers /\ UNCHANGED <<rec, sight, m3>>

SaveLock == Persist("saveLock", IF WeFollow THEN "awaitSig" ELSE "deskTxid")

\* Leader: the desk publishes its chain-B lock txid; the record keeps it.
LearnsDeskTxid ==
    /\ At("deskTxid") /\ ~Stopped(drive.flag) /\ (Desk = "any" \/ legB # "none")
    /\ Goto("saveTxid")
    /\ UNCHANGED <<recoveryVars, sight, m3, locks, movedAt>>

SaveTxidSkipsGate == Persist("saveTxid", "release")
SaveTxid == Persist("saveTxid", "gate")

\* Leader: the claim signature goes to the desk (release_claim_sig, ready-ack), or
\* once more: "it releases nothing the first delivery did not".
Releases ==
    /\ At("release")
    /\ IF sigOut THEN UNCHANGED chain ELSE ReleaseSig
    /\ \/ NoFault /\ Goto("awaitClaim")
       \/ Fault /\ Goto("ended")
    /\ NetRest /\ UNCHANGED <<rec, sight, m3, locks, movedAt>>

\* Leader: the desk's claim is published and t extracted from it.
SeesDeskClaim ==
    /\ At("awaitClaim") /\ ~Stopped(drive.flag) /\ legA = "claimed"
    /\ Goto("claim")
    /\ UNCHANGED <<recoveryVars, sight, m3, locks, movedAt>>

\* Follower: the released signature is ingested.
ReceivesSig ==
    /\ At("awaitSig") /\ ~Stopped(drive.flag) /\ sigOut
    /\ Goto("claim")
    /\ UNCHANGED <<recoveryVars, sight, m3, locks, movedAt>>

OwnClaim == IF WeLead THEN SweepB ELSE ClaimA

\* The claim that pays us goes out, or does and its answer is lost.
Claims ==
    /\ At("claim") /\ OwnClaim
    /\ \/ /\ NoFault
          /\ IF WeLead THEN GotoWith("saveEnd", [drive.mem EXCEPT !.state = "SETTLED"])
                       ELSE Goto("settle")
       \/ Fault /\ Goto("ended")
    /\ NetRest /\ Remembers /\ UNCHANGED <<rec, sight, m3, locks>>

\* Follower: SETTLED on the desk's word that our own claim settled it, A_CLAIMED
\* when the flag or the deadline comes first.
Settles ==
    /\ At("settle")
    /\ \/ /\ ~Stopped(drive.flag) /\ (Desk = "any" \/ legB = "swept")
          /\ GotoWith("saveEnd", [drive.mem EXCEPT !.state = "SETTLED"])
       \/ /\ Stopped(drive.flag) \/ now >= DriveDeadline
          /\ GotoWith("saveEnd", [drive.mem EXCEPT !.state = "A_CLAIMED"])
    /\ UNCHANGED <<recoveryVars, sight, m3, locks, movedAt>>

SaveEnd == Persist("saveEnd", "ended")

\* should_stand_down: the record shows nothing of ours locked, or a finished swap.
StandDownAlways == TRUE
ShouldStandDown == rec.present /\ (~rec.locked \/ IsTerminal(rec))

\* The drive is over: the net it shares its flag with is torn down or left running.
StandsDown ==
    /\ At("ended")
    /\ Goto("done")
    /\ IF ShouldStandDown
       THEN raised' = Raise(drive.flag) /\ reg' = NoFlag
       ELSE UNCHANGED <<reg, raised>>
    /\ UNCHANGED <<chain, app, rec, fire, recl, ui, budget, sight, m3, locks, movedAt>>

DriveNext == \/ Proceed \/ DeskTerminal \/ Registers \/ Fails \/ GateDeadline \/ HoldEnds
             \/ ExchangeM3 \/ SavePresig \/ DestinationAgrees \/ GatePasses \/ StopsBeforeLockB
             \/ Locks \/ SaveLock \/ LearnsDeskTxid \/ SaveTxid \/ Releases \/ SeesDeskClaim
             \/ ReceivesSig \/ Claims \/ Settles \/ SaveEnd \/ StandsDown
-----------------------------------------------------------------------------
\* A step beside the drive.
Aside == UNCHANGED conductorVars /\ Remembers

\* The desk funds chain A only once it holds our M3.
World == (Outside \/ (DeskFunds /\ (m3 \/ WeLead)) \/ NetNext) /\ Aside

\* The drive dies with the process.
Killed == Crash /\ drive' = IdleDrive /\ Forgets /\ UNCHANGED <<m3, locks>>

ConductorInit ==
    /\ now = 0 /\ legA = "none" /\ legB = "none" /\ sigOut = FALSE
    /\ alive = TRUE /\ booting = FALSE
    /\ \E t \in BOOLEAN :
          rec = [NoRecord EXCEPT !.present = TRUE, !.state = "ACCEPTED", !.t2 = t]
    /\ reg = NoFlag /\ raised = {}
    /\ fire = NoFires /\ recl = NoRecls /\ ui = IdleUi
    /\ faults = 0 /\ crashes = 0 /\ polls = 0
    /\ drive = IdleDrive /\ sight = Unseen /\ m3 = FALSE /\ locks = 0 /\ movedAt = Never

ConductorNext == DriveNext \/ Observe \/ World \/ Killed

ConductorSpec == ConductorInit /\ [][ConductorNext]_vars

\* The net's fairness again, in the composed system; the drive owes nothing, since
\* it may end at any step.
ConductorFairness ==
    /\ WF_vars(Tick /\ UNCHANGED <<app, rec, tasks, ui, budget>> /\ Aside)
    /\ WF_vars(Launch /\ Aside)
    /\ WF_vars(Rehydrate /\ Aside)
    /\ \A o \in Origin :
          /\ WF_vars(PlanSwipe(o) /\ Aside)
          /\ WF_vars(ReclNext(o) /\ Aside)
          /\ \A k \in Kind : WF_vars(FireNext(o, k) /\ Aside)

FairConductorSpec == ConductorSpec /\ ConductorFairness
-----------------------------------------------------------------------------
ConductorTypeOK ==
    /\ TypeOK
    /\ drive \in Drive /\ sight \in 0..EndOfTime \cup {Unseen} /\ m3 \in BOOLEAN
    /\ locks \in Nat /\ movedAt \in 0..EndOfTime \cup {Never}

\* Our coin is never on a chain without the refund pre-signature on disk: it is
\* "pre-signed before any funds move" (conductor.rs) and "MUST survive an app
\* restart" (store.rs), through every later save of the whole record.
PresigBeforeLock == OwnLocked => rec.present /\ rec.presig

\* A follower locks second: only after its own observer saw the leader's coin.
FollowerLocksSecond == WeFollow /\ legB # "none" => legA # "none"

\* A leader releases the claim signature only after its own observer saw the
\* follower's coin locked.
ReleaseNeedsTheirLock == WeLead /\ sigOut => legB # "none"

\* No gate opens on a coin that has been gone for longer than a sighting may be old,
\* however long the observer has been stalled (SidecarObserver::observe_lock: a
\* sighting older than max_age is "could not look", which no gate takes for a lock).
LiveWithin(age) == TheirLeg = "locked" \/ (movedAt # Never /\ now - movedAt <= age)
GateOpensOnLiveLeg == [][GatePasses => LiveWithin(MaxAge)]_vars

\* The net is torn down only when nothing of ours is at risk (should_stand_down:
\* "our leg was never locked -> nothing at risk -> stand down").
NetDownOnlyWhenSafe ==
    (alive /\ drive.pc = "done" /\ Stopped(drive.flag)) => ~OwnStuck

\* Four parties save whole records of which they hold old copies: none of them may
\* drop the lock or the pre-signature another one recorded.
LockAndPresigKept ==
    [][(rec.present /\ rec'.present) => /\ (rec.locked => rec'.locked)
                                       /\ (rec.presig => rec'.presig)]_rec

\* A watch that still may bring a follower's recorded coin back is never given up.
ReclaimNotGivenUp ==
    (alive /\ ~booting /\ WeFollow /\ rec.locked /\ OwnStuck /\ legA \in {"locked", "refunded"})
    => \E o \in Origin : Watching(o)

\* A leader's recorded coin has its refund scheduled until T1 and its swipe until T2, while
\* the drive runs, when it ends and whatever relaunches it: the net is never torn down, nor
\* missed by rehydrate, with the coin at stake.
RecordedLegIsScheduled == rec.locked => LockedLegIsScheduled

\* A leader's coin recorded before T1 leaves the joint output in the end.
RecordedLegMoves == (WeLead /\ rec.locked /\ rec.t2 /\ legA = "locked" /\ now < AdvertisedT1)
                        ~> (legA # "locked")

\* No sequence of drives locks our leg twice.
OneLock == locks <= 1
-----------------------------------------------------------------------------
\* The swap as its user sees it.
LeaderCoin   == CASE legA = "none" -> "home" [] legA = "locked" -> "locked"
                  [] legA = "claimed" -> IF WeLead THEN "given" ELSE "taken"
                  [] OTHER -> "back"
FollowerCoin == CASE legB = "none" -> "home" [] legB = "locked" -> "locked"
                  [] legB = "swept" -> IF WeLead THEN "taken" ELSE "given"
                  [] OTHER -> "back"

Promise == INSTANCE Exchange WITH
               ours   <- IF WeLead THEN LeaderCoin ELSE FollowerCoin,
               theirs <- IF WeLead THEN FollowerCoin ELSE LeaderCoin

\* The drive and the net together implement the exchange the user is promised.
ImplementsExchange == Promise!Spec
=============================================================================
