------------------------ MODULE DeskConductorProofs ------------------------
(***************************************************************************)
(* Proofs about the drive and the recovery net together: types, the order  *)
(* of the commitments, the exchange the user is promised, the refund on    *)
(* disk before the lock, the truth of what the record claims, and the      *)
(* schedule of a leader's coin.                                            *)
(***************************************************************************)
EXTENDS DeskConductor, DeskScheduleProofs

\* What a step leaves of the net's types when it touches nothing of the net.
LEMMA NetTypesStay ==
    ASSUME TypeOK, UNCHANGED recoveryVars
    PROVE  TypeOK'
  BY DEF TypeOK, ChainTypeOK, recoveryVars, chain, app, tasks, budget

\* Moving the drive on, with its record edited or not, leaves a drive.
LEMMA DriveUpdates ==
    ASSUME NEW d \in Drive, NEW pc \in DrivePc, NEW r \in Record
    PROVE  /\ [d EXCEPT !.pc = pc] \in Drive /\ [d EXCEPT !.pc = pc].pc = pc
           /\ [d EXCEPT !.pc = pc].mem = d.mem
           /\ [d EXCEPT !.pc = pc, !.mem = r] \in Drive
           /\ [d EXCEPT !.pc = pc, !.mem = r].pc = pc
           /\ [d EXCEPT !.pc = pc, !.mem = r].mem = r
  BY DEF Drive

\* The edits the drive makes to its record are records.
LEMMA MemUpdates ==
    ASSUME NEW r \in Record, NEW w \in State
    PROVE  /\ [r EXCEPT !.presig = TRUE] \in Record
           /\ [r EXCEPT !.state = w] \in Record
           /\ [r EXCEPT !.locked = TRUE, !.state = w] \in Record
           /\ [r EXCEPT !.present = TRUE] \in Record
  BY DEF Record

\* The drive's own variables.
DriveTypeOK == drive \in Drive /\ sight \in 0..EndOfTime \cup {Unseen} /\ m3 \in BOOLEAN
               /\ locks \in Nat

LEMMA IdleDriveType == IdleDrive \in Drive
  BY RestTypes DEF IdleDrive, Drive, DrivePc, NoFlag

\* The steps of the drive: before it has a flag, those that leave the net and the chains alone,
\* its saves, and those that reach a chain.
AskStep     == Proceed \/ DeskTerminal
QuietStep == \/ Fails \/ GateDeadline \/ HoldEnds \/ ExchangeM3 \/ DestinationAgrees \/ GatePasses
             \/ StopsBeforeLockB \/ LearnsDeskTxid \/ SeesDeskClaim \/ ReceivesSig \/ Settles
PersistStep == SavePresig \/ SaveLock \/ SaveTxid \/ SaveEnd
DoneStep    == Locks \/ Releases \/ Claims

\* A drive that only asks holds the record it loaded, one the desk turned away holds nothing.
LEMMA AskHolds ==
    ASSUME AskStep
    PROVE  \/ drive'.pc = "asking" /\ drive'.mem = rec
           \/ drive'.pc = "idle" /\ drive'.mem = NoRecord
<1>1. IdleDrive \in [pc : DrivePc, flag : Origin \cup {NoFlag}, mem : Record]
  BY IdleDriveType DEF Drive
<1>2. [IdleDrive EXCEPT !.pc = "asking", !.mem = rec].pc = "asking"
      /\ [IdleDrive EXCEPT !.pc = "asking", !.mem = rec].mem = rec
  BY <1>1
<1>3. IdleDrive.pc = "idle" /\ IdleDrive.mem = NoRecord
  BY DEF IdleDrive
<1> QED
  BY <1>2, <1>3 DEF AskStep, Proceed, DeskTerminal

\* The steps of the drive on its own variables.
LEMMA DriveTypes ==
    ASSUME TypeOK, DriveTypeOK, DriveNext
    PROVE  DriveTypeOK'
<1>1. /\ drive \in Drive /\ drive.mem \in Record
      /\ \A pc \in DrivePc : Goto(pc) => drive' \in Drive
      /\ \A pc \in DrivePc, r \in Record : GotoWith(pc, r) => drive' \in Drive
  BY DriveUpdates DEF DriveTypeOK, Drive, Goto, GotoWith
<1>2. \A w \in {"STOPPED_BEFORE_LOCK_B", "A_LOCKED", "B_LOCKED", "SETTLED", "A_CLAIMED"} :
         /\ [drive.mem EXCEPT !.presig = TRUE] \in Record
         /\ [drive.mem EXCEPT !.state = w] \in Record
         /\ [drive.mem EXCEPT !.locked = TRUE, !.state = w] \in Record
  BY <1>1, MemUpdates DEF State, Terminal
<1>3. \A pc \in {"savePresig", "destination", "gate", "lock", "saveLock", "deskTxid",
                 "saveTxid", "holding", "release", "awaitSig", "awaitClaim", "claim",
                 "settle", "saveEnd", "ended", "done"} : pc \in DrivePc
  BY DEF DrivePc
<1>4. sight \in 0..EndOfTime \cup {Unseen} /\ Unseen \in 0..EndOfTime \cup {Unseen}
      /\ locks \in Nat /\ locks + 1 \in Nat
  BY DEF DriveTypeOK
<1>5. m3' = m3 \/ m3' = TRUE => m3' \in BOOLEAN
  BY Zenon DEF DriveTypeOK
<1> USE DEF DriveTypeOK
<1>6. CASE AskStep
  <2>1. drive' \in Drive
    BY <1>6, IdleDriveType DEF AskStep, Proceed, DeskTerminal, Drive, DrivePc, TypeOK
  <2> QED
    BY <1>4, <1>5, <1>6, <2>1 DEF AskStep, Proceed, DeskTerminal
<1>27. CASE Registers
  <2>1. Flag("drive") \in Origin \cup {NoFlag}
    BY DEF Flag, Origin, TypeOK
  <2>2. drive' \in Drive
    BY <1>1, <1>27, <2>1 DEF Registers, Drive, DrivePc
  <2> QED
    BY <1>4, <1>5, <1>27, <2>2 DEF Registers, Forgets
<1>7. CASE Fails
  BY <1>1, <1>3, <1>4, <1>5, <1>7 DEF Fails
<1>8. CASE GateDeadline
  BY <1>1, <1>3, <1>4, <1>5, <1>8 DEF GateDeadline
<1>9. CASE HoldEnds
  BY <1>1, <1>3, <1>4, <1>5, <1>9 DEF HoldEnds
<1>10. CASE ExchangeM3
  BY <1>1, <1>2, <1>3, <1>4, <1>5, <1>10 DEF ExchangeM3
<1>11. ASSUME NEW pc, NEW next \in DrivePc, Persist(pc, next)
       PROVE  DriveTypeOK'
  BY <1>1, <1>3, <1>4, <1>5, <1>11 DEF Persist
<1>12. CASE SavePresig
  BY <1>3, <1>11, <1>12 DEF SavePresig
<1>13. CASE DestinationAgrees
  BY <1>1, <1>3, <1>4, <1>5, <1>13 DEF DestinationAgrees
<1>14. CASE GatePasses
  BY <1>1, <1>3, <1>4, <1>5, <1>14 DEF GatePasses, Forgets
<1>15. CASE StopsBeforeLockB
  BY <1>1, <1>2, <1>3, <1>4, <1>5, <1>15 DEF StopsBeforeLockB
<1>16. CASE Locks
  <2>1. drive' \in Drive
    BY <1>1, <1>2, <1>3, <1>16 DEF Locks
  <2> QED
    BY <1>4, <1>5, <1>16, <2>1 DEF Locks
<1>17. CASE SaveLock
  BY <1>3, <1>11, <1>17 DEF SaveLock
<1>18. CASE LearnsDeskTxid
  BY <1>1, <1>3, <1>4, <1>5, <1>18 DEF LearnsDeskTxid
<1>19. CASE SaveTxid
  BY <1>3, <1>11, <1>19 DEF SaveTxid
<1>20. CASE Releases
  BY <1>1, <1>3, <1>4, <1>5, <1>20 DEF Releases
<1>21. CASE SeesDeskClaim
  BY <1>1, <1>3, <1>4, <1>5, <1>21 DEF SeesDeskClaim
<1>22. CASE ReceivesSig
  BY <1>1, <1>3, <1>4, <1>5, <1>22 DEF ReceivesSig
<1>23. CASE Claims
  BY <1>1, <1>2, <1>3, <1>4, <1>5, <1>23 DEF Claims
<1>24. CASE Settles
  BY <1>1, <1>2, <1>3, <1>4, <1>5, <1>24 DEF Settles
<1>25. CASE SaveEnd
  BY <1>3, <1>11, <1>25 DEF SaveEnd
<1>26. CASE StandsDown
  BY <1>1, <1>3, <1>4, <1>5, <1>26 DEF StandsDown
<1> QED
  BY <1>6, <1>7, <1>8, <1>9, <1>10, <1>12, <1>13, <1>14, <1>15, <1>16, <1>17, <1>18, <1>19,
     <1>20, <1>21, <1>22, <1>23, <1>24, <1>25, <1>26, <1>27 DEF DriveNext, AskStep

LEMMA DriveSteps ==
    /\ DriveNext <=> \/ AskStep \/ Registers \/ QuietStep \/ PersistStep \/ DoneStep \/ StandsDown
    /\ QuietStep \/ AskStep => UNCHANGED recoveryVars
  BY DEF DriveNext, AskStep, Proceed, DeskTerminal, QuietStep, PersistStep, DoneStep, Fails,
         GateDeadline, HoldEnds, ExchangeM3,
         DestinationAgrees, GatePasses, StopsBeforeLockB, LearnsDeskTxid, SeesDeskClaim,
         ReceivesSig, Settles

\* The steps of the drive keep the net's variables well formed (persist saves the drive's
\* record, spawn_recovery_watchers fills the second origin).
LEMMA DriveKeepsNetTypes ==
    ASSUME TypeOK, DriveTypeOK, DriveNext
    PROVE  TypeOK'
<1>1. drive.mem \in Record /\ drive.flag \in Origin \cup {NoFlag}
  BY DEF DriveTypeOK, Drive
<1>2. CASE QuietStep \/ AskStep
  BY <1>2, DriveSteps, NetTypesStay
<1>3. CASE PersistStep
  <2>1. PICK pc \in {"savePresig", "saveLock", "saveTxid", "saveEnd"}, next \in DrivePc :
           Persist(pc, next)
    BY <1>3 DEF PersistStep, SavePresig, SaveLock, SaveTxid, SaveEnd, DrivePc
  <2>2. rec' \in Record
    <3>1. [drive.mem EXCEPT !.present = TRUE] \in Record
      BY <1>1 DEF Record
    <3> QED
      BY <2>1, <3>1 DEF Persist, Save, TypeOK
  <2>3. faults' \in 0..MaxFaults /\ crashes' \in 0..MaxCrashes /\ polls' \in 0..MaxPolls
    BY <2>1, BudgetTypes DEF Persist, TypeOK
  <2>4. ChainTypeOK'
    BY <2>1, ChainTypes DEF Persist, TypeOK, ChainMove
  <2> QED
    BY <2>1, <2>2, <2>3, <2>4 DEF Persist, NetRest, TypeOK, app, tasks
<1>4. CASE DoneStep
  <2>1. UNCHANGED rec /\ NetRest /\ (NoFault \/ Fault)
    BY <1>4 DEF DoneStep, Locks, Releases, Claims
  <2>2. faults' \in 0..MaxFaults /\ crashes' \in 0..MaxCrashes /\ polls' \in 0..MaxPolls
    BY <2>1, BudgetTypes DEF TypeOK
  <2>3. ChainMove
    BY <1>4 DEF DoneStep, Locks, Releases, Claims, OwnLock, OwnClaim, ChainMove
  <2>4. ChainTypeOK'
    BY <2>3, ChainTypes DEF TypeOK
  <2> QED
    BY <2>1, <2>2, <2>4 DEF NetRest, TypeOK, app, tasks
<1>5. CASE Registers
  <2>1. "drive" \in Origin
    BY DEF Origin
  <2>2. ChainTypeOK'
    BY <1>5, ChainTypes DEF Registers, TypeOK, ChainMove
  <2> QED
    BY <1>5, <2>1, <2>2, SpawnTypes DEF Registers, TypeOK, app, budget
<1>6. CASE StandsDown
  <2>1. raised' \subseteq Origin /\ reg' \in Origin \cup {NoFlag}
    BY <1>1, <1>6 DEF StandsDown, Raise, TypeOK
  <2>2. ChainTypeOK'
    BY <1>6, ChainTypes DEF StandsDown, TypeOK, ChainMove
  <2> QED
    BY <1>6, <2>1, <2>2 DEF StandsDown, TypeOK, app, budget
<1> QED
  BY <1>2, <1>3, <1>4, <1>5, <1>6, DriveSteps

\* What a step does to the sighting and its history: it keeps the history up, or forgets both.
LEMMA SightSteps ==
    ASSUME ConductorNext
    PROVE  /\ Remembers \/ Forgets
           /\ \/ sight' \in {sight, Unseen}
              \/ sight' = now /\ TheirLeg = "locked" /\ UNCHANGED chain
<1>1. UNCHANGED <<legA, legB, movedAt>> => Remembers
  BY DEF Remembers, TheirLeg
<1>2. CASE DriveNext
  <2>1. CASE QuietStep \/ AskStep
    BY <1>1, <2>1
    DEF QuietStep, AskStep, Proceed, DeskTerminal, Fails, GateDeadline, HoldEnds, ExchangeM3,
        DestinationAgrees, GatePasses, StopsBeforeLockB, LearnsDeskTxid, SeesDeskClaim, ReceivesSig,
        Settles, Forgets, recoveryVars, chain
  <2>2. CASE PersistStep
    BY <1>1, <2>2 DEF PersistStep, SavePresig, SaveLock, SaveTxid, SaveEnd, Persist, chain
  <2>3. CASE DoneStep
    BY <1>1, <2>3 DEF DoneStep, Locks, Releases, ReleaseSig, Claims, chain
  <2>4. CASE Registers \/ StandsDown
    BY <1>1, <2>4 DEF Registers, StandsDown, Forgets, chain
  <2> QED
    BY <1>2, <2>1, <2>2, <2>3, <2>4, DriveSteps
<1>3. CASE Observe
  BY <1>1, <1>3 DEF Observe, recoveryVars, chain
<1>4. CASE World
  BY <1>4 DEF World, Aside, conductorVars
<1>5. CASE Killed
  BY <1>5 DEF Killed, Forgets
<1> QED
  BY <1>2, <1>3, <1>4, <1>5 DEF ConductorNext

\* Every step of the composed system keeps every variable well formed.
LEMMA ConductorStepTypes ==
    ASSUME ConductorTypeOK, ConductorNext
    PROVE  ConductorTypeOK'
<1>1. TypeOK /\ DriveTypeOK
  BY DEF ConductorTypeOK, DriveTypeOK
<1>2. SUFFICES TypeOK' /\ DriveTypeOK'
  <2>1. movedAt' \in 0..EndOfTime \cup {Never}
    <3>1. movedAt \in 0..EndOfTime \cup {Never} /\ now \in 0..EndOfTime
      BY DEF ConductorTypeOK, TypeOK, ChainTypeOK
    <3>2. CASE Remembers
      BY <3>1, <3>2 DEF Remembers
    <3>3. CASE Forgets
      BY <3>3 DEF Forgets
    <3> QED
      BY <3>2, <3>3, SightSteps
  <2> QED
    BY <2>1 DEF ConductorTypeOK, DriveTypeOK
<1>3. UNCHANGED m3 => m3' \in BOOLEAN
  BY <1>1, Zenon DEF DriveTypeOK
<1>4. CASE DriveNext
  BY <1>1, <1>4, DriveTypes, DriveKeepsNetTypes
<1>5. CASE Observe
  <2>1. sight' \in 0..EndOfTime \cup {Unseen}
    BY <1>1, <1>5 DEF Observe, TypeOK, ChainTypeOK
  <2> QED
    BY <1>1, <1>3, <1>5, <2>1, NetTypesStay DEF Observe, DriveTypeOK
<1>6. CASE World
  <2>1. Next
    BY <1>6 DEF World, Aside, Next
  <2> QED
    BY <1>1, <1>3, <1>6, <2>1, StepTypes DEF World, Aside, conductorVars, DriveTypeOK
<1>7. CASE Killed
  BY <1>1, <1>3, <1>7, StepTypes, IdleDriveType DEF Killed, Forgets, Next, DriveTypeOK
<1> QED
  BY <1>4, <1>5, <1>6, <1>7 DEF ConductorNext

\* Every variable of the drive and the net keeps its type through every interleaving.
THEOREM ConductorTypeCorrect == ConductorSpec => []ConductorTypeOK
<1>1. ConductorInit => ConductorTypeOK
  <2> SUFFICES ASSUME ConductorInit PROVE ConductorTypeOK
    OBVIOUS
  <2>1. ChainTypeOK
    <3>1. now \in 0..EndOfTime
      BY TimeAssumption DEF ConductorInit
    <3> QED
      BY <3>1 DEF ConductorInit, ChainTypeOK, LegA, LegB
  <2>2. rec \in Record
    BY RestTypes DEF ConductorInit, Record, State
  <2>3. faults \in 0..MaxFaults /\ crashes \in 0..MaxCrashes /\ polls \in 0..MaxPolls
    BY BoundAssumption DEF ConductorInit
  <2>4. reg \in Origin \cup {NoFlag} /\ raised \subseteq Origin
    BY DEF ConductorInit
  <2> QED
    BY <2>1, <2>2, <2>3, <2>4, RestTypes, IdleDriveType
    DEF ConductorInit, Never, ConductorTypeOK, TypeOK
<1>2. ConductorTypeOK /\ UNCHANGED vars => ConductorTypeOK'
  BY NetTypesStay DEF ConductorTypeOK, vars, conductorVars
<1> QED
  BY <1>1, <1>2, ConductorStepTypes, PTL DEF ConductorSpec
-----------------------------------------------------------------------------
\* The order of the exchange on chain: the follower's coin after the leader's, the leader's
\* signature after the follower's coin, and each coin's way out after the other's.
LegsInOrder == /\ sigOut => legB # "none"
               /\ legB # "none" => legA # "none"
               /\ legB = "swept" => legA = "claimed"
               /\ legB = "reclaimed" => legA = "refunded"

\* What the drive has seen when it is about to commit: the other leg, by its own observer.
DriveInOrder == /\ sight # Unseen => TheirLeg # "none"
                /\ drive.pc = "release" => legB # "none"
                /\ WeFollow /\ drive.pc \in {"destination", "lock"} => legA # "none"

\* A chain move that respects the order.
OrderlyMove == \/ UNCHANGED chain \/ Tick \/ LockA \/ (legA # "none" /\ LockB)
               \/ ClaimA \/ RefundA \/ SwipeA \/ SweepB \/ ReclaimB
               \/ (legB # "none" /\ ReleaseSig)

\* An orderly move keeps the legs in order, and a leg that was locked stays committed.
LEMMA OrderlyKeepsLegs ==
    ASSUME LegsInOrder, OrderlyMove
    PROVE  /\ LegsInOrder'
           /\ legA # "none" => legA' # "none"
           /\ legB # "none" => legB' # "none"
<1>1. CASE UNCHANGED chain
  BY <1>1 DEF chain, LegsInOrder
<1>2. CASE Tick
  BY <1>2 DEF Tick, LegsInOrder
<1>3. CASE LockA
  BY <1>3 DEF LockA, LegsInOrder
<1>4. CASE legA # "none" /\ LockB
  BY <1>4 DEF LockB, LegsInOrder
<1>5. CASE ClaimA
  BY <1>5 DEF ClaimA, CanClaimA, LegsInOrder
<1>6. CASE RefundA
  BY <1>6 DEF RefundA, CanRefundA, LegsInOrder
<1>7. CASE SwipeA
  BY <1>7 DEF SwipeA, CanSwipeA, LegsInOrder
<1>8. CASE SweepB
  BY <1>8 DEF SweepB, CanSweepB, LegsInOrder
<1>9. CASE ReclaimB
  BY <1>9 DEF ReclaimB, CanReclaimB, LegsInOrder
<1>10. CASE legB # "none" /\ ReleaseSig
  BY <1>10 DEF ReleaseSig, LegsInOrder
<1> QED
  BY <1>1, <1>2, <1>3, <1>4, <1>5, <1>6, <1>7, <1>8, <1>9, <1>10 DEF OrderlyMove

\* The net, the commands, the desk and a crash move the chains in order: the net only brings
\* coins back, and the desk follows the protocol or recovers.
LEMMA NetIsOrderly ==
    ASSUME Next
    PROVE  OrderlyMove
<1>1. CASE Outside
  BY <1>1 DEF Outside, DeskReleases, DeskRedeems, DeskRecovers, OrderlyMove
<1>2. CASE DeskFunds
  BY <1>2 DEF DeskFunds, DeskLocks, OrderlyMove
<1>3. CASE UiNext
  BY <1>3 DEF UiNext, StatusAsks, StatusAnswered, StatusMirrored, DeskAborts, OrderlyMove
<1>4. CASE Launch \/ Rehydrate \/ Crash
  BY <1>4 DEF Launch, Rehydrate, Crash, OrderlyMove
<1>5. CASE \E o \in Origin : TaskNext(o)
  <2>1. PICK o \in Origin : TaskNext(o)
    BY <1>5
  <2>2. ASSUME NEW k \in Kind, FireNext(o, k)
        PROVE  OrderlyMove
    BY <2>2 DEF FireNext, StandDown, Fires, RetryRefund, RefundGoesOut, RefundRefused,
       SaveRefund, Decide, SwipeGoesOut, SwipeRefused, OrderlyMove
  <2>3. CASE PlanSwipe(o)
    BY <2>3 DEF PlanSwipe, OrderlyMove
  <2>4. CASE ReclNext(o)
    BY <2>4 DEF ReclNext, ReclPolls, ReclStops, SeesSpend, Extract, ReclaimGoesOut, ReclaimRefused,
       SaveReclaim, OrderlyMove
  <2> QED
    BY <2>1, <2>2, <2>3, <2>4 DEF TaskNext
<1> QED
  BY <1>1, <1>2, <1>3, <1>4, <1>5 DEF Next, NetNext

\* The drive moves the chains in order because it commits only where it has seen the other
\* leg (wait_for_lock_gate, wait_for_release_gate).
LEMMA DriveIsOrderly ==
    ASSUME DriveInOrder, DriveNext
    PROVE  OrderlyMove
<1>1. CASE QuietStep \/ AskStep
  BY <1>1, DriveSteps DEF recoveryVars, OrderlyMove
<1>2. CASE PersistStep
  BY <1>2 DEF PersistStep, SavePresig, SaveLock, SaveTxid, SaveEnd, Persist, OrderlyMove
<1>3. CASE Registers \/ StandsDown
  BY <1>3 DEF Registers, StandsDown, OrderlyMove
<1>4. CASE Locks
  BY <1>4, RoleAssumption DEF Locks, At, OwnLock, DriveInOrder, OrderlyMove, WeLead, WeFollow
<1>5. CASE Releases
  BY <1>5 DEF Releases, At, DriveInOrder, OrderlyMove
<1>6. CASE Claims
  BY <1>6 DEF Claims, OwnClaim, OrderlyMove
<1> QED
  BY <1>1, <1>2, <1>3, <1>4, <1>5, <1>6, DriveSteps DEF DoneStep

\* A drive that only moves on, not into a commitment, stays in order.
LEMMA DriveStaysInOrder ==
    ASSUME DriveInOrder, legA # "none" => legA' # "none", legB # "none" => legB' # "none",
           sight' \in {sight, Unseen},
           drive'.pc \in {"release", "destination", "lock"} => drive'.pc = drive.pc
    PROVE  DriveInOrder'
  BY DEF DriveInOrder, TheirLeg

\* The steps of the drive keep it in order: it enters "destination" as follower and "release"
\* as leader only through the gate.
LEMMA DriveKeepsOrder ==
    ASSUME ConductorTypeOK, LegsInOrder, DriveInOrder, DriveNext
    PROVE  DriveInOrder'
<1>1. (legA # "none" => legA' # "none") /\ (legB # "none" => legB' # "none")
  BY DriveIsOrderly, OrderlyKeepsLegs
<1>2. drive \in Drive /\ drive.mem \in Record
  BY DEF ConductorTypeOK, Drive
<1>3. \A pc \in DrivePc : Goto(pc) => drive'.pc = pc
  BY <1>2 DEF Goto, Drive
<1>4. \A pc, r : GotoWith(pc, r) => drive'.pc = pc
  BY <1>2 DEF GotoWith, Drive
<1>5. DrivePc = {"idle", "asking", "m3", "savePresig", "destination", "gate", "lock", "saveLock",
                 "deskTxid", "saveTxid", "holding", "release", "awaitSig", "awaitClaim",
                 "claim", "settle", "saveEnd", "ended", "done"}
  BY DEF DrivePc
<1>6. ASSUME sight' \in {sight, Unseen}, drive'.pc \notin {"release", "destination", "lock"}
      PROVE  DriveInOrder'
  BY <1>1, <1>6, DriveStaysInOrder
<1>7. CASE AskStep \/ Registers
  <2>1. drive'.pc \in {"asking", "idle", "m3", "ended"}
    BY <1>2, <1>7, AskHolds DEF Registers, Drive
  <2>2. sight' \in {sight, Unseen}
    BY <1>7 DEF AskStep, Proceed, DeskTerminal, Registers, Forgets
  <2> QED
    BY <1>6, <2>1, <2>2
<1>8. CASE Fails \/ GateDeadline \/ HoldEnds \/ ExchangeM3
  BY <1>3, <1>4, <1>5, <1>6, <1>8 DEF Fails, GateDeadline, HoldEnds, ExchangeM3
<1>9. ASSUME WeLead, drive'.pc = "destination", sight' = sight
      PROVE  DriveInOrder'
  BY <1>1, <1>9 DEF DriveInOrder, TheirLeg, WeLead, WeFollow
<1>10. CASE SavePresig
  <2>1. drive'.pc \in {"gate", "ended"} \/ (WeLead /\ drive'.pc = "destination")
    BY <1>3, <1>5, <1>10, RoleAssumption DEF SavePresig, Persist, WeLead, WeFollow
  <2>2. sight' = sight
    BY <1>10 DEF SavePresig, Persist
  <2> QED
    BY <1>6, <1>9, <2>1, <2>2
<1>11. CASE DestinationAgrees
  <2>1. drive'.pc = "lock" /\ drive.pc = "destination" /\ sight' = sight
    BY <1>3, <1>5, <1>11 DEF DestinationAgrees, At
  <2> QED
    BY <1>1, <2>1 DEF DriveInOrder, TheirLeg
<1>12. CASE GatePasses
  <2>1. drive'.pc = (IF WeFollow THEN "destination" ELSE "release") /\ sight' = Unseen
    BY <1>3, <1>5, <1>12 DEF GatePasses, Forgets
  <2>2. TheirLeg # "none"
    BY <1>12 DEF GatePasses, GateOpen, DriveInOrder
  <2> QED
    BY <1>1, <2>1, <2>2 DEF DriveInOrder, TheirLeg
<1>13. CASE StopsBeforeLockB \/ Locks \/ Releases \/ Claims \/ Settles
  BY <1>3, <1>4, <1>5, <1>6, <1>13 DEF StopsBeforeLockB, Locks, Releases, Claims, Settles
<1>14. CASE SaveLock \/ SaveTxid \/ SaveEnd
  BY <1>3, <1>5, <1>6, <1>14 DEF SaveLock, SaveTxid, SaveEnd, Persist
<1>15. CASE LearnsDeskTxid \/ SeesDeskClaim \/ ReceivesSig \/ StandsDown
  BY <1>3, <1>5, <1>6, <1>15 DEF LearnsDeskTxid, SeesDeskClaim, ReceivesSig, StandsDown
<1> QED
  BY <1>7, <1>8, <1>10, <1>11, <1>12, <1>13, <1>14, <1>15 DEF DriveNext, AskStep

OrderInv == LegsInOrder /\ DriveInOrder

\* Every step of the composed system keeps the exchange in order, and is an orderly move.
LEMMA ConductorKeepsOrder ==
    ASSUME ConductorTypeOK, OrderInv, ConductorNext
    PROVE  OrderInv' /\ OrderlyMove
<1>1. OrderlyMove
  <2>1. CASE DriveNext
    BY <2>1, DriveIsOrderly DEF OrderInv
  <2>2. CASE Observe
    BY <2>2 DEF Observe, recoveryVars, OrderlyMove
  <2>3. CASE World
    BY <2>3, NetIsOrderly DEF World, Aside, Next
  <2>4. CASE Killed
    BY <2>4, NetIsOrderly DEF Killed, Next
  <2> QED
    BY <2>1, <2>2, <2>3, <2>4 DEF ConductorNext
<1>2. LegsInOrder' /\ (legA # "none" => legA' # "none") /\ (legB # "none" => legB' # "none")
  BY <1>1, OrderlyKeepsLegs DEF OrderInv
<1>3. CASE DriveNext
  BY <1>1, <1>2, <1>3, DriveKeepsOrder DEF OrderInv
<1>4. CASE Observe
  <2>1. sight' # Unseen => TheirLeg = "locked"
    BY <1>4 DEF Observe
  <2> QED
    BY <1>1, <1>2, <1>4, <2>1 DEF Observe, OrderInv, DriveInOrder, TheirLeg
<1>5. CASE World
  BY <1>1, <1>2, <1>5, DriveStaysInOrder DEF World, Aside, conductorVars, OrderInv
<1>6. CASE Killed
  <2>1. drive'.pc = "idle" /\ sight' = Unseen
    BY <1>6 DEF Killed, Forgets, IdleDrive
  <2> QED
    BY <1>1, <1>2, <2>1, DriveStaysInOrder DEF OrderInv
<1> QED
  BY <1>3, <1>4, <1>5, <1>6 DEF ConductorNext

LEMMA OrderInvHolds == ConductorSpec => [](ConductorTypeOK /\ OrderInv)
<1>1. ConductorInit => OrderInv
  BY DEF ConductorInit, OrderInv, LegsInOrder, DriveInOrder, IdleDrive
<1>2. OrderInv /\ UNCHANGED vars => OrderInv'
  BY DEF OrderInv, LegsInOrder, DriveInOrder, TheirLeg, vars, recoveryVars, conductorVars, chain
<1> QED
  BY <1>1, <1>2, ConductorKeepsOrder, ConductorTypeCorrect, PTL DEF ConductorSpec

\* A follower never locks first, whatever the desk says and however often the drive fails or
\* is killed (sell_follower locks behind wait_for_lock_gate).
THEOREM FollowerIsSecond == ConductorSpec => []FollowerLocksSecond
<1>1. OrderInv => FollowerLocksSecond
  BY DEF OrderInv, LegsInOrder, FollowerLocksSecond
<1> QED
  BY <1>1, OrderInvHolds, PTL

\* A leader never releases its signature before the follower's coin is locked (buy_leader
\* releases behind wait_for_release_gate).
THEOREM ReleaseIsCovered == ConductorSpec => []ReleaseNeedsTheirLock
<1>1. OrderInv => ReleaseNeedsTheirLock
  BY DEF OrderInv, LegsInOrder, ReleaseNeedsTheirLock
<1> QED
  BY <1>1, OrderInvHolds, PTL

\* A sighting is no older than the coin it saw: the coin is still there, or left since.
GateInv ==
    /\ TheirLeg \in {"none", "locked"} => movedAt = Never
    /\ sight # Unseen => /\ sight <= now
                         /\ TheirLeg = "locked" \/ (movedAt # Never /\ sight <= movedAt)

\* A leg that is still to come or still locked was so before, and a locked one was locked.
LEMMA LegsOnlyLeave ==
    ASSUME OrderlyMove
    PROVE  /\ TheirLeg' \in {"none", "locked"} => TheirLeg \in {"none", "locked"}
           /\ TheirLeg = "locked" => TheirLeg' # "none"
  BY DEF OrderlyMove, TheirLeg, chain, Tick, LockA, LockB, ClaimA, RefundA, SwipeA, SweepB, ReclaimB,
     ReleaseSig, CanClaimA, CanRefundA, CanSwipeA, CanSweepB, CanReclaimB

LEMMA GateInvStep ==
    ASSUME ConductorTypeOK, OrderInv, GateInv, ConductorNext
    PROVE  GateInv'
<1>1. OrderlyMove /\ now \in Nat /\ sight \in Nat \cup {Unseen} /\ movedAt \in Nat \cup {Never}
  BY ConductorKeepsOrder, TimeAssumption DEF ConductorTypeOK, TypeOK, ChainTypeOK
<1>2. now' = now \/ now' = now + 1
  BY <1>1 DEF OrderlyMove, chain, Tick, LockA, LockB, ClaimA, RefundA, SwipeA, SweepB, ReclaimB,
     ReleaseSig
<1>3. /\ TheirLeg' \in {"none", "locked"} => TheirLeg \in {"none", "locked"}
      /\ TheirLeg = "locked" => TheirLeg' # "none"
  BY <1>1, LegsOnlyLeave
<1>4. CASE Forgets
  BY <1>4 DEF Forgets, GateInv
<1>5. CASE Remembers /\ sight' \in {sight, Unseen}
  <2>1. TheirLeg' \in {"none", "locked"} => movedAt' = Never
    BY <1>3, <1>5 DEF Remembers, GateInv
  <2>2. ASSUME sight' # Unseen
        PROVE  /\ sight' <= now'
               /\ TheirLeg' = "locked" \/ (movedAt' # Never /\ sight' <= movedAt')
    <3>1. sight' = sight /\ sight <= now /\ sight \in Nat
      BY <1>1, <1>5, <2>2 DEF GateInv
    <3>2. CASE TheirLeg = "locked" /\ TheirLeg' # "locked"
      <4>1. movedAt' = now
        BY <2>2, <3>1, <3>2, <1>5 DEF Remembers
      <4> QED
        BY <1>1, <1>2, <3>1, <4>1 DEF Never
    <3>3. CASE ~(TheirLeg = "locked" /\ TheirLeg' # "locked")
      <4>1. movedAt' = movedAt
        BY <3>3, <1>5 DEF Remembers
      <4> QED
        BY <1>1, <1>2, <2>2, <3>1, <3>3, <4>1 DEF GateInv
    <3> QED
      BY <3>2, <3>3
  <2> QED
    BY <2>1, <2>2 DEF GateInv
<1>6. CASE Remembers /\ sight' = now /\ TheirLeg = "locked" /\ UNCHANGED chain
  <2>1. TheirLeg' = "locked" /\ now' = now /\ movedAt' = movedAt
    BY <1>6 DEF chain, TheirLeg, Remembers
  <2> QED
    BY <1>1, <1>6, <2>1 DEF GateInv
<1> QED
  BY <1>4, <1>5, <1>6, SightSteps

\* A gate never opens on a coin that left the joint output longer ago than a sighting may be
\* old, at any length of a stall of the observer (SidecarObserver::observe_lock).
THEOREM GatesOpenOnLiveLegs == ConductorSpec => GateOpensOnLiveLeg
<1>1. ConductorInit => GateInv
  BY DEF GateInv, ConductorInit
<1>2. ConductorTypeOK /\ OrderInv /\ GateInv /\ [ConductorNext]_vars => GateInv'
  <2>1. GateInv /\ UNCHANGED vars => GateInv'
    BY DEF GateInv, TheirLeg, vars, recoveryVars, conductorVars, chain
  <2> QED
    BY <2>1, GateInvStep
<1>3. ConductorTypeOK /\ GateInv => [GatePasses => LiveWithin(MaxAge)]_vars
  <2> SUFFICES ASSUME ConductorTypeOK, GateInv, GatePasses, TheirLeg # "locked"
               PROVE  movedAt # Never /\ now - movedAt <= MaxAge
    BY DEF LiveWithin
  <2>1. sight # Unseen /\ now - sight <= MaxAge
    BY DEF GatePasses, GateOpen
  <2>2. movedAt # Never /\ sight <= movedAt /\ sight \in Nat /\ movedAt \in Nat /\ now \in Nat
    BY <2>1 DEF GateInv, ConductorTypeOK, TypeOK, ChainTypeOK
  <2> QED
    BY <2>1, <2>2, ConductorAssumption
<1> QED
  BY <1>1, <1>2, <1>3, OrderInvHolds, PTL DEF ConductorSpec, GateOpensOnLiveLeg

\* Read off the legs by role, an orderly move is a step of the promised exchange or changes
\* nothing the user sees.
LEMMA OrderlyIsPromised ==
    ASSUME ChainTypeOK, LegsInOrder, OrderlyMove
    PROVE  [Promise!Next]_<<IF WeLead THEN LeaderCoin ELSE FollowerCoin,
                            IF WeLead THEN FollowerCoin ELSE LeaderCoin>>
<1> USE RoleAssumption DEF LeaderCoin, FollowerCoin, WeLead, WeFollow, ChainTypeOK, LegA, LegB,
        LegsInOrder
<1>1. CASE UNCHANGED chain
  BY <1>1 DEF chain
<1>2. CASE Tick
  BY <1>2 DEF Tick
<1>3. CASE LockA
  BY <1>3 DEF LockA, Promise!Next, Promise!LockOurs, Promise!LockTheirs
<1>4. CASE legA # "none" /\ LockB
  BY <1>4 DEF LockB, Promise!Next, Promise!LockOurs, Promise!LockTheirs
<1>5. CASE ClaimA
  BY <1>5 DEF ClaimA, CanClaimA, Promise!Next, Promise!GiveOurs, Promise!TakeTheirs
<1>6. CASE RefundA
  BY <1>6 DEF RefundA, CanRefundA, Promise!Next, Promise!RecoverOurs, Promise!RecoverTheirs
<1>7. CASE SwipeA
  BY <1>7 DEF SwipeA, CanSwipeA, Promise!Next, Promise!RecoverOurs, Promise!RecoverTheirs
<1>8. CASE SweepB
  BY <1>8 DEF SweepB, CanSweepB, Promise!Next, Promise!GiveOurs, Promise!TakeTheirs
<1>9. CASE ReclaimB
  BY <1>9 DEF ReclaimB, CanReclaimB, Promise!Next, Promise!RecoverOurs, Promise!RecoverTheirs
<1>10. CASE legB # "none" /\ ReleaseSig
  BY <1>10 DEF ReleaseSig
<1> QED
  BY <1>1, <1>2, <1>3, <1>4, <1>5, <1>6, <1>7, <1>8, <1>9, <1>10 DEF OrderlyMove

\* The drive, the net, the commands, crashes and an untrusted desk together implement the
\* exchange the user is promised.
THEOREM ConductorImplementsExchange == ConductorSpec => ImplementsExchange
<1>1. ConductorInit => Promise!Init
  BY DEF ConductorInit, Promise!Init, LeaderCoin, FollowerCoin
<1>2. ASSUME ConductorTypeOK, OrderInv, [ConductorNext]_vars
      PROVE  [Promise!Next]_<<IF WeLead THEN LeaderCoin ELSE FollowerCoin,
                              IF WeLead THEN FollowerCoin ELSE LeaderCoin>>
  <2>1. CASE ConductorNext
    BY <1>2, <2>1, ConductorKeepsOrder, OrderlyIsPromised DEF ConductorTypeOK, TypeOK, OrderInv
  <2>2. CASE UNCHANGED vars
    BY <2>2 DEF vars, recoveryVars, chain, LeaderCoin, FollowerCoin
  <2> QED
    BY <1>2, <2>1, <2>2
<1> QED
  BY <1>1, <1>2, OrderInvHolds, PTL DEF ConductorSpec, ImplementsExchange, Promise!Spec
-----------------------------------------------------------------------------
\* A record that has what a recovery needs.
Kept(r) == r.locked /\ r.presig

\* A task that holds a copy it may save loaded it from such a record, and the record has kept
\* both since.
FireHeld(t, r) == t.pc \in {"refunding", "saving"} => Kept(t.snap) /\ Kept(r)
ReclHeld(t, r) == t.pc \in {"extracting", "reclaiming", "saving"} => Kept(t.snap) /\ Kept(r)

\* The positions of the drive behind M3.
Armed == {"savePresig", "destination", "gate", "lock", "saveLock", "deskTxid", "saveTxid",
          "holding", "release", "awaitSig", "awaitClaim", "claim", "settle", "saveEnd"}

DriveHeld == /\ drive.pc # "idle" /\ rec.locked => drive.mem.locked
             /\ drive.pc \in Armed => drive.mem.presig
             /\ drive.pc \in Armed \ {"savePresig"} => rec.presig

\* The strengthening of PresigBeforeLock for a desk that says nothing.
DiskInv == /\ ui.pc = "idle" /\ rec.present
           /\ OwnLocked \/ rec.locked => rec.presig
           /\ \A o \in Origin, k \in Kind : FireHeld(fire[o][k], rec)
           /\ \A o \in Origin : ReclHeld(recl[o], rec)
           /\ DriveHeld

\* What a save may do to the record: keep the lock and the pre-signature.
RecKept == rec'.present /\ (rec.locked => rec'.locked) /\ (rec.presig => rec'.presig)

\* A step of a refund or swipe watcher: what its task holds afterwards, and what it saves.
FireCarries(o, k) ==
    \E t : /\ FireStep(o, k, t)
           /\ t.pc \in {"refunding", "saving"} =>
                 \/ t.snap = rec /\ Kept(rec)
                 \/ fire[o][k].pc = "refunding" /\ t.snap = fire[o][k].snap

LEMMA EndFireCarries ==
    ASSUME NEW o \in Origin, NEW k \in Kind, EndFire(o, k)
    PROVE  FireCarries(o, k)
  BY DEF EndFire, FireCarries, IdleFire

\* A watcher that only moves on carries nothing it did not load.
LEMMA MoveCarries ==
    ASSUME NEW o \in Origin, NEW k \in Kind, NEW t \in FireTask, NEW r,
           NEW pc \in {"deciding", "swiping", "retrying"},
           FireStep(o, k, [t EXCEPT !.pc = pc]) \/ FireStep(o, k, [t EXCEPT !.pc = pc, !.snap = r])
    PROVE  FireCarries(o, k)
<1>1. [t EXCEPT !.pc = pc].pc = pc /\ [t EXCEPT !.pc = pc, !.snap = r].pc = pc
  BY DEF FireTask
<1> QED
  BY <1>1 DEF FireCarries

LEMMA BeginRefundCarries ==
    ASSUME TypeOK, NEW o \in Origin, NEW k \in Kind, NEW t \in FireTask, BeginRefund(o, k, t)
    PROVE  FireCarries(o, k)
<1>1. CASE EndFire(o, k)
  BY <1>1, EndFireCarries
<1>2. CASE FireStep(o, k, [t EXCEPT !.pc = "deciding"])
  BY <1>2, MoveCarries
<1>3. CASE /\ FireStep(o, k, [t EXCEPT !.pc = "refunding", !.snap = rec])
           /\ rec.locked /\ rec.presig
  <2>1. [t EXCEPT !.pc = "refunding", !.snap = rec].snap = rec
    BY DEF FireTask
  <2> QED
    BY <1>3, <2>1 DEF FireCarries, Kept
<1> QED
  BY <1>1, <1>2, <1>3 DEF BeginRefund, NothingToRefund

LEMMA RefundFailedCarries ==
    ASSUME TypeOK, NEW o \in Origin, NEW k \in Kind, RefundFailed(o, k)
    PROVE  FireCarries(o, k)
<1>1. fire[o][k] \in FireTask
  BY DEF TypeOK
<1>2. CASE EndFire(o, k)
  BY <1>2, EndFireCarries
<1>3. CASE FireStep(o, k, [fire[o][k] EXCEPT !.pc = "deciding", !.snap = NoRecord])
  BY <1>1, <1>3, MoveCarries
<1> QED
  BY <1>2, <1>3 DEF RefundFailed

LEMMA FireNextCarries ==
    ASSUME TypeOK, NEW o \in Origin, NEW k \in Kind, FireNext(o, k)
    PROVE  /\ FireCarries(o, k) /\ UNCHANGED <<recl, ui>>
           /\ \/ rec' = rec
              \/ /\ fire[o][k].pc = "saving"
                 /\ Save([fire[o][k].snap EXCEPT !.refunded = TRUE, !.state = "A_REFUNDED"])
<1>1. /\ fire[o][k] \in FireTask /\ [fire[o][k] EXCEPT !.last = TRUE] \in FireTask
      /\ [fire[o][k] EXCEPT !.pc = "saving"].snap = fire[o][k].snap
  <2>1. fire[o][k] \in FireTask
    BY DEF TypeOK
  <2> QED
    BY <2>1 DEF FireTask
<1>2. CASE StandDown(o, k)
  BY <1>2, EndFireCarries DEF StandDown
<1>3. CASE Fires(o, k)
  BY <1>1, <1>3, BeginRefundCarries DEF Fires
<1>4. CASE RetryRefund(o, k)
  BY <1>1, <1>4, BeginRefundCarries DEF RetryRefund
<1>5. CASE RefundGoesOut(o, k)
  <2>1. CASE FireStep(o, k, [fire[o][k] EXCEPT !.pc = "saving"])
    BY <1>1, <1>5, <2>1 DEF RefundGoesOut, FireCarries
  <2> QED
    BY <1>5, <2>1, RefundFailedCarries DEF RefundGoesOut
<1>6. CASE RefundRefused(o, k)
  BY <1>6, RefundFailedCarries DEF RefundRefused
<1>7. CASE SaveRefund(o, k)
  BY <1>7, EndFireCarries, RefundFailedCarries DEF SaveRefund
<1>8. CASE Decide(o, k)
  BY <1>1, <1>8, EndFireCarries, MoveCarries DEF Decide
<1>9. CASE SwipeGoesOut(o, k)
  BY <1>1, <1>9, EndFireCarries, MoveCarries DEF SwipeGoesOut
<1>10. CASE SwipeRefused(o, k)
  BY <1>1, <1>10, MoveCarries DEF SwipeRefused
<1> QED
  BY <1>2, <1>3, <1>4, <1>5, <1>6, <1>7, <1>8, <1>9, <1>10 DEF FireNext

\* So the refund and swipe watchers keep the record and every copy (execute_refund refuses a
\* swap without a lock or a pre-signature before it keeps a copy).
LEMMA FireKeepsDisk ==
    ASSUME TypeOK, DiskInv, NEW o \in Origin, NEW k \in Kind, FireNext(o, k)
    PROVE  /\ RecKept /\ (rec'.locked => rec.locked) /\ ui'.pc = "idle"
           /\ \A p \in Origin, j \in Kind : FireHeld(fire'[p][j], rec')
           /\ \A p \in Origin : ReclHeld(recl'[p], rec')
<1>1. /\ FireCarries(o, k) /\ UNCHANGED <<recl, ui>>
      /\ \/ rec' = rec
         \/ /\ fire[o][k].pc = "saving"
            /\ Save([fire[o][k].snap EXCEPT !.refunded = TRUE, !.state = "A_REFUNDED"])
  BY FireNextCarries
<1>2. RecKept /\ (rec'.locked => rec.locked)
  <2>1. CASE rec' = rec
    BY <2>1 DEF RecKept, DiskInv
  <2>2. CASE /\ fire[o][k].pc = "saving"
             /\ Save([fire[o][k].snap EXCEPT !.refunded = TRUE, !.state = "A_REFUNDED"])
    <3>1. fire[o][k].snap \in Record /\ Kept(fire[o][k].snap) /\ Kept(rec)
      BY <2>2 DEF DiskInv, FireHeld, TypeOK, FireTask
    <3> DEFINE r == [fire[o][k].snap EXCEPT !.refunded = TRUE, !.state = "A_REFUNDED"]
    <3>2. r \in Record /\ Kept(r)
      BY <3>1 DEF Record, State, Terminal, Kept
    <3>3. rec' = [r EXCEPT !.present = TRUE]
      BY <2>2 DEF Save
    <3> HIDE DEF r
    <3> QED
      BY <3>1, <3>2, <3>3 DEF RecKept, Record, Kept
  <2> QED
    BY <1>1, <2>1, <2>2
<1>3. Kept(rec) => Kept(rec')
  BY <1>2 DEF RecKept, Kept
<1>4. \A p \in Origin, j \in Kind : FireHeld(fire[p][j], rec')
  BY <1>3 DEF DiskInv, FireHeld
<1>5. PICK t : /\ FireStep(o, k, t)
               /\ t.pc \in {"refunding", "saving"} =>
                     \/ t.snap = rec /\ Kept(rec)
                     \/ fire[o][k].pc = "refunding" /\ t.snap = fire[o][k].snap
  BY <1>1 DEF FireCarries
<1>6. FireHeld(t, rec')
  BY <1>3, <1>4, <1>5 DEF FireHeld
<1>7. \A p \in Origin, j \in Kind :
         fire'[p][j] = IF p = o /\ j = k THEN t ELSE fire[p][j]
  BY <1>5 DEF FireStep, TypeOK
<1>8. \A p \in Origin, j \in Kind : FireHeld(fire'[p][j], rec')
  BY <1>4, <1>6, <1>7
<1>9. ui'.pc = "idle" /\ \A p \in Origin : ReclHeld(recl'[p], rec')
  BY <1>1, <1>3 DEF DiskInv, ReclHeld
<1> QED
  BY <1>2, <1>8, <1>9

\* A step of the reclaim watch: the same, with its own saves.
ReclCarries(o) ==
    \E t : /\ ReclStep(o, t)
           /\ t.pc \in {"extracting", "reclaiming", "saving"} =>
                 \/ t.snap = rec /\ rec.locked
                 \/ recl[o].pc \in {"extracting", "reclaiming"} /\ t.snap = recl[o].snap

LEMMA ReclNextCarries ==
    ASSUME TypeOK, NEW o \in Origin, ReclNext(o)
    PROVE  /\ ReclCarries(o) /\ UNCHANGED <<fire, ui>>
           /\ \/ rec' = rec
              \/ /\ recl[o].pc = "saving"
                 /\ Save([recl[o].snap EXCEPT !.reclaimed = TRUE, !.state = "A_REFUNDED"])
<1>1. recl[o] \in ReclTask
  BY DEF TypeOK
<1>2. /\ IdleRecl.pc = "off"
      /\ [IdleRecl EXCEPT !.pc = "watching", !.ruledOut = TRUE, !.flag = recl[o].flag].pc
            = "watching"
      /\ [recl[o] EXCEPT !.pc = "watching", !.snap = NoRecord].pc = "watching"
  BY <1>1 DEF IdleRecl, ReclTask
<1>3. ReclStep(o, IdleRecl) => ReclCarries(o)
  BY <1>2 DEF ReclCarries
<1>4. ReclRetry(o) => ReclCarries(o)
  BY <1>2 DEF ReclRetry, ReclCarries
<1>5. CASE ReclStops(o)
  BY <1>3, <1>5 DEF ReclStops, ReclRest
<1>11. CASE ReclPolls(o)
  <2>1. [recl[o] EXCEPT !.pc = "asked"].pc = "asked"
    BY <1>1 DEF ReclTask
  <2> QED
    BY <1>11, <2>1 DEF ReclPolls, ReclRest, ReclCarries
<1>6. CASE SeesSpend(o)
  <2>1. [recl[o] EXCEPT !.pc = "extracting", !.snap = rec].snap = rec
    BY <1>1 DEF ReclTask
  <2>2. ReclCarries(o)
    BY <1>3, <1>6, <2>1 DEF SeesSpend, NothingToReclaim, ReclCarries
  <2> QED
    BY <1>6, <2>2 DEF SeesSpend, ReclRest
<1>7. CASE Extract(o)
  <2> DEFINE t == [recl[o] EXCEPT !.pc = "reclaiming"]
             u == [IdleRecl EXCEPT !.pc = "watching", !.ruledOut = TRUE, !.flag = recl[o].flag]
  <2>1. t.snap = recl[o].snap /\ recl[o].pc = "extracting" /\ u.pc = "watching"
    BY <1>1, <1>2, <1>7 DEF ReclTask, Extract
  <2>2. ReclStep(o, t) \/ ReclStep(o, u) \/ ReclStep(o, IdleRecl) \/ ReclRetry(o)
    BY <1>7 DEF Extract
  <2> HIDE DEF t, u
  <2>3. ReclStep(o, t) \/ ReclStep(o, u) => ReclCarries(o)
    BY <2>1 DEF ReclCarries
  <2>4. ReclCarries(o)
    BY <1>3, <1>4, <2>2, <2>3
  <2> QED
    BY <1>7, <2>4 DEF Extract, ReclRest
<1>8. CASE ReclaimGoesOut(o)
  <2>1. [recl[o] EXCEPT !.pc = "saving"].snap = recl[o].snap
    BY <1>1 DEF ReclTask
  <2>2. ReclCarries(o)
    BY <1>4, <1>8, <2>1 DEF ReclaimGoesOut, ReclCarries
  <2> QED
    BY <1>8, <2>2 DEF ReclaimGoesOut, ReclRest
<1>9. CASE ReclaimRefused(o)
  BY <1>4, <1>9 DEF ReclaimRefused, ReclRest
<1>10. CASE SaveReclaim(o)
  BY <1>3, <1>4, <1>10 DEF SaveReclaim, ReclRest
<1> QED
  BY <1>5, <1>6, <1>7, <1>8, <1>9, <1>10, <1>11 DEF ReclNext

LEMMA ReclKeepsDisk ==
    ASSUME TypeOK, DiskInv, NEW o \in Origin, ReclNext(o)
    PROVE  /\ RecKept /\ (rec'.locked => rec.locked) /\ ui'.pc = "idle"
           /\ \A p \in Origin, j \in Kind : FireHeld(fire'[p][j], rec')
           /\ \A p \in Origin : ReclHeld(recl'[p], rec')
<1>1. /\ ReclCarries(o) /\ UNCHANGED <<fire, ui>>
      /\ \/ rec' = rec
         \/ /\ recl[o].pc = "saving"
            /\ Save([recl[o].snap EXCEPT !.reclaimed = TRUE, !.state = "A_REFUNDED"])
  BY ReclNextCarries
<1>2. RecKept /\ (rec'.locked => rec.locked)
  <2>1. CASE rec' = rec
    BY <2>1 DEF RecKept, DiskInv
  <2>2. CASE /\ recl[o].pc = "saving"
             /\ Save([recl[o].snap EXCEPT !.reclaimed = TRUE, !.state = "A_REFUNDED"])
    <3>1. recl[o].snap \in Record /\ Kept(recl[o].snap) /\ Kept(rec)
      BY <2>2 DEF DiskInv, ReclHeld, TypeOK, ReclTask
    <3> DEFINE r == [recl[o].snap EXCEPT !.reclaimed = TRUE, !.state = "A_REFUNDED"]
    <3>2. r \in Record /\ Kept(r)
      BY <3>1 DEF Record, State, Terminal, Kept
    <3>3. rec' = [r EXCEPT !.present = TRUE]
      BY <2>2 DEF Save
    <3> HIDE DEF r
    <3> QED
      BY <3>1, <3>2, <3>3 DEF RecKept, Record, Kept
  <2> QED
    BY <1>1, <2>1, <2>2
<1>3. Kept(rec) => Kept(rec')
  BY <1>2 DEF RecKept, Kept
<1>4. \A p \in Origin : ReclHeld(recl[p], rec')
  BY <1>3 DEF DiskInv, ReclHeld
<1>5. PICK t : /\ ReclStep(o, t)
               /\ t.pc \in {"extracting", "reclaiming", "saving"} =>
                     \/ t.snap = rec /\ rec.locked
                     \/ recl[o].pc \in {"extracting", "reclaiming"} /\ t.snap = recl[o].snap
  BY <1>1 DEF ReclCarries
<1>6. rec.locked => Kept(rec)
  BY DEF DiskInv, Kept
<1>7. ReclHeld(t, rec')
  BY <1>3, <1>4, <1>5, <1>6 DEF ReclHeld
<1>8. \A p \in Origin : recl'[p] = IF p = o THEN t ELSE recl[p]
  BY <1>5 DEF ReclStep, TypeOK
<1>9. ui'.pc = "idle" /\ \A p \in Origin, j \in Kind : FireHeld(fire'[p][j], rec')
  BY <1>1, <1>3 DEF DiskInv, FireHeld
<1> QED
  BY <1>2, <1>4, <1>7, <1>8, <1>9

\* Tasks that do nothing still hold what they held, if the record kept it.
LEMMA TasksStayHeld ==
    ASSUME DiskInv, RecKept, UNCHANGED <<fire, recl, ui>>
    PROVE  /\ ui'.pc = "idle"
           /\ \A p \in Origin, j \in Kind : FireHeld(fire'[p][j], rec')
           /\ \A p \in Origin : ReclHeld(recl'[p], rec')
  BY DEF DiskInv, RecKept, FireHeld, ReclHeld, Kept

\* Freshly spawned tasks hold nothing.
LEMMA SpawnHeld ==
    ASSUME TypeOK, DiskInv, NEW o \in Origin, Spawn(o), UNCHANGED <<rec, ui>>
    PROVE  /\ ui'.pc = "idle"
           /\ \A p \in Origin, j \in Kind : FireHeld(fire'[p][j], rec')
           /\ \A p \in Origin : ReclHeld(recl'[p], rec')
<1>1. \A k \in Kind : fire'[o][k].pc \in {"armed", "spawned"}
  BY DEF Spawn, TypeOK, IdleFire
<1>2. recl'[o].pc = "watching"
  BY DEF Spawn, TypeOK, IdleRecl
<1>3. \A p \in Origin \ {o} : fire'[p] = fire[p] /\ recl'[p] = recl[p]
  BY DEF Spawn, TypeOK
<1> QED
  BY <1>1, <1>2, <1>3 DEF DiskInv, FireHeld, ReclHeld

\* Commands are counted, and counted up only where the desk answers them.
LEMMA NetCountsCommands ==
    ASSUME Next
    PROVE  polls' = polls \/ (Poll /\ Desk # "silent")
<1> USE DEF NoFault, Fault, budget
<1>1. CASE UiNext
  BY <1>1 DEF UiNext, StatusAsks, StatusAnswered, StatusMirrored, DeskAborts
<1>2. CASE Outside \/ DeskFunds \/ Launch \/ Rehydrate \/ Crash
  BY <1>2 DEF Outside, DeskFunds, Launch, Rehydrate, Crash
<1>3. ASSUME NEW o \in Origin, TaskNext(o)
      PROVE  UNCHANGED polls
  <2>1. ASSUME NEW k \in Kind, FireNext(o, k)
        PROVE  UNCHANGED polls
    BY <2>1 DEF FireNext, StandDown, Fires, RetryRefund, RefundGoesOut, RefundRefused, SaveRefund,
       Decide, SwipeGoesOut, SwipeRefused
  <2>2. CASE PlanSwipe(o)
    BY <2>2 DEF PlanSwipe
  <2>3. CASE ReclNext(o)
    BY <2>3 DEF ReclNext, ReclPolls, ReclStops, SeesSpend, Extract, ReclaimGoesOut, ReclaimRefused,
       SaveReclaim
  <2> QED
    BY <1>3, <2>1, <2>2, <2>3 DEF TaskNext
<1> QED
  BY <1>1, <1>2, <1>3 DEF Next, NetNext

LEMMA ConductorCountsCommands ==
    ASSUME ConductorNext
    PROVE  polls' = polls \/ (Poll /\ Desk # "silent")
<1>1. CASE World \/ Killed
  BY <1>1, NetCountsCommands DEF World, Aside, Killed, Next
<1>2. CASE Observe
  BY <1>2 DEF Observe, recoveryVars, budget
<1>3. CASE DriveNext
  <2>1. CASE QuietStep \/ AskStep
    BY <2>1, DriveSteps DEF recoveryVars, budget
  <2>2. CASE PersistStep
    BY <2>2 DEF PersistStep, SavePresig, SaveLock, SaveTxid, SaveEnd, Persist, NoFault, Fault,
       budget
  <2>3. CASE DoneStep
    BY <2>3 DEF DoneStep, Locks, Releases, Claims, NoFault, Fault, budget
  <2>4. CASE Registers \/ StandsDown
    BY <2>4 DEF Registers, StandsDown, budget
  <2> QED
    BY <1>3, <2>1, <2>2, <2>3, <2>4, DriveSteps
<1> QED
  BY <1>1, <1>2, <1>3 DEF ConductorNext

\* The net, and whatever the desk answers to a drive, keep the record and every copy: only
\* desk_status and desk_abort replace it otherwise, and neither was sent.
LEMMA NetKeepsDisk ==
    ASSUME TypeOK, DiskInv, Next, NoCommand'
    PROVE  /\ RecKept /\ (rec'.locked => rec.locked) /\ ui'.pc = "idle"
           /\ \A p \in Origin, j \in Kind : FireHeld(fire'[p][j], rec')
           /\ \A p \in Origin : ReclHeld(recl'[p], rec')
<1>1. UNCHANGED rec => RecKept /\ (rec'.locked => rec.locked)
  BY DEF RecKept, DiskInv
<1>2. CASE Outside \/ DeskFunds \/ Launch
  BY <1>1, <1>2, TasksStayHeld DEF Outside, DeskFunds, Launch, tasks
<1>3. CASE UiNext
  <2>1. polls' # polls + 1
    BY BoundAssumption DEF TypeOK, NoCommand
  <2> QED
    BY <1>3, <2>1 DEF UiNext, StatusAsks, StatusAnswered, StatusMirrored, DeskAborts, DiskInv, Poll
<1>4. CASE Rehydrate
  <2>1. CASE Spawn("boot")
    BY <1>1, <1>4, <2>1, SpawnHeld DEF Rehydrate, Origin
  <2>2. CASE UNCHANGED <<reg, fire, recl>>
    BY <1>1, <1>4, <2>2, TasksStayHeld DEF Rehydrate
  <2> QED
    BY <1>4, <2>1, <2>2 DEF Rehydrate
<1>5. CASE \E o \in Origin : TaskNext(o)
  <2>1. PICK o \in Origin : TaskNext(o)
    BY <1>5
  <2>2. CASE \E k \in Kind : FireNext(o, k)
    BY <2>2, FireKeepsDisk
  <2>3. CASE ReclNext(o)
    BY <2>3, ReclKeepsDisk
  <2>4. CASE PlanSwipe(o)
    <3>1. UNCHANGED <<rec, recl, ui>>
      BY <2>4 DEF PlanSwipe
    <3>2. PICK t : FireStep(o, "swipe", t) /\ t.pc \notin {"refunding", "saving"}
      <4>1. /\ [fire[o]["swipe"] EXCEPT !.pc = "armed"].pc = "armed"
            /\ IdleFire.pc = "off"
        BY DEF TypeOK, FireTask, Kind, IdleFire
      <4> QED
        BY <2>4, <4>1 DEF PlanSwipe
    <3>3. \A p \in Origin, j \in Kind :
             fire'[p][j] = IF p = o /\ j = "swipe" THEN t ELSE fire[p][j]
      BY <3>2 DEF FireStep, TypeOK, Kind
    <3>4. \A p \in Origin, j \in Kind : FireHeld(fire'[p][j], rec')
      BY <3>1, <3>2, <3>3 DEF DiskInv, FireHeld
    <3> QED
      BY <1>1, <3>1, <3>4 DEF DiskInv
  <2> QED
    BY <2>1, <2>2, <2>3, <2>4 DEF TaskNext
<1>6. CASE Crash
  <2>1. UNCHANGED rec /\ fire' = NoFires /\ recl' = NoRecls /\ ui' = IdleUi
    BY <1>6 DEF Crash
  <2> QED
    BY <1>1, <2>1 DEF NoFires, NoRecls, IdleFire, IdleRecl, IdleUi, FireHeld, ReclHeld
<1> QED
  BY <1>2, <1>3, <1>4, <1>5, <1>6 DEF Next, NetNext

\* Only the drive puts our coin on a chain.
LEMMA NetLocksNothing ==
    ASSUME Next
    PROVE  OwnLocked' => OwnLocked
<1> USE RoleAssumption DEF OwnLocked, WeLead, WeFollow
<1>1. CASE Outside
  BY <1>1 DEF Outside, Tick, DeskReleases, DeskRedeems, DeskRecovers, ReleaseSig, SweepB, ClaimA,
     RefundA, SwipeA, ReclaimB, CanSweepB, CanClaimA, CanRefundA, CanSwipeA, CanReclaimB
<1>2. CASE DeskFunds
  BY <1>2 DEF DeskFunds, DeskLocks, LockA, LockB
<1>3. CASE UiNext
  BY <1>3 DEF UiNext, StatusAsks, StatusAnswered, StatusMirrored, DeskAborts, chain
<1>4. CASE Launch \/ Rehydrate \/ Crash
  BY <1>4 DEF Launch, Rehydrate, Crash, chain
<1>5. CASE \E o \in Origin : TaskNext(o)
  <2>1. PICK o \in Origin : TaskNext(o)
    BY <1>5
  <2>2. UNCHANGED chain \/ RefundA \/ SwipeA \/ ReclaimB
    <3>1. ASSUME NEW k \in Kind, FireNext(o, k)
          PROVE  UNCHANGED chain \/ RefundA \/ SwipeA
      BY <3>1 DEF FireNext, StandDown, Fires, RetryRefund, RefundGoesOut, RefundRefused,
         SaveRefund, Decide, SwipeGoesOut, SwipeRefused
    <3>2. CASE PlanSwipe(o)
      BY <3>2 DEF PlanSwipe
    <3>3. CASE ReclNext(o)
      BY <3>3 DEF ReclNext, ReclPolls, ReclStops, SeesSpend, Extract, ReclaimGoesOut, ReclaimRefused,
         SaveReclaim
    <3> QED
      BY <2>1, <3>1, <3>2, <3>3 DEF TaskNext
  <2> QED
    BY <2>2 DEF chain, RefundA, SwipeA, ReclaimB, CanRefundA, CanSwipeA, CanReclaimB
<1> QED
  BY <1>1, <1>2, <1>3, <1>4, <1>5 DEF Next, NetNext

\* The drive goes on behind M3 with a record that has not lost anything.
LEMMA MovesOnHeld ==
    ASSUME DiskInv, RecKept, drive.pc # "idle",
           rec'.locked => rec.locked \/ drive'.mem.locked,
           drive.mem.locked => drive'.mem.locked,
           drive.mem.presig => drive'.mem.presig,
           drive'.pc \in Armed => drive.pc \in Armed \ {"savePresig"}
    PROVE  DriveHeld'
  BY DEF DiskInv, DriveHeld, RecKept, Armed

\* The steps of the drive that leave the net alone.
LEMMA QuietKeepsDisk ==
    ASSUME DriveTypeOK, DiskInv, QuietStep
    PROVE  DriveHeld'
<1>1. /\ drive \in Drive /\ drive.mem \in Record
      /\ UNCHANGED rec /\ RecKept
  BY DriveSteps DEF DriveTypeOK, Drive, recoveryVars, RecKept, DiskInv
<1>2. \A pc \in DrivePc : Goto(pc) => drive'.pc = pc /\ drive'.mem = drive.mem
  BY <1>1 DEF Goto, Drive
<1>3. \A pc \in DrivePc, r \in Record : GotoWith(pc, r) => drive'.pc = pc /\ drive'.mem = r
  BY <1>1 DEF GotoWith, Drive
<1>4. DrivePc = {"idle", "asking", "m3", "savePresig", "destination", "gate", "lock", "saveLock",
                 "deskTxid", "saveTxid", "holding", "release", "awaitSig", "awaitClaim",
                 "claim", "settle", "saveEnd", "ended", "done"}
  BY DEF DrivePc
<1>5. \A w \in State : /\ [drive.mem EXCEPT !.state = w] \in Record
                       /\ [drive.mem EXCEPT !.state = w].locked = drive.mem.locked
                       /\ [drive.mem EXCEPT !.state = w].presig = drive.mem.presig
  BY <1>1 DEF Record
<1>6. {"STOPPED_BEFORE_LOCK_B", "SETTLED", "A_CLAIMED"} \subseteq State
  BY DEF State, Terminal
<1>7. CASE Fails \/ HoldEnds
  BY <1>1, <1>2, <1>4, <1>7, MovesOnHeld DEF Fails, HoldEnds, At, Armed
<1>8. CASE GateDeadline
  BY <1>1, <1>2, <1>4, <1>8, MovesOnHeld DEF GateDeadline, At, Armed
<1>9. CASE ExchangeM3
  <2>1. CASE Goto("ended")
    BY <1>1, <1>2, <1>4, <1>9, <2>1, MovesOnHeld DEF ExchangeM3, At, Armed
  <2>2. CASE GotoWith("savePresig", [drive.mem EXCEPT !.presig = TRUE])
    <3>1. /\ [drive.mem EXCEPT !.presig = TRUE] \in Record
          /\ [drive.mem EXCEPT !.presig = TRUE].presig
          /\ [drive.mem EXCEPT !.presig = TRUE].locked = drive.mem.locked
      BY <1>1 DEF Record
    <3>2. drive'.pc = "savePresig" /\ drive'.mem = [drive.mem EXCEPT !.presig = TRUE]
      BY <1>3, <1>4, <2>2, <3>1
    <3>3. drive.pc = "m3"
      BY <1>9 DEF ExchangeM3, At
    <3> QED
      BY <1>1, <3>1, <3>2, <3>3 DEF DiskInv, DriveHeld, Armed
  <2> QED
    BY <1>9, <2>1, <2>2 DEF ExchangeM3
<1>10. CASE DestinationAgrees \/ GatePasses
  BY <1>1, <1>2, <1>4, <1>10, MovesOnHeld DEF DestinationAgrees, GatePasses, At, Armed
<1>11. CASE LearnsDeskTxid \/ SeesDeskClaim \/ ReceivesSig
  BY <1>1, <1>2, <1>4, <1>11, MovesOnHeld
  DEF LearnsDeskTxid, SeesDeskClaim, ReceivesSig, At, Armed
<1>12. ASSUME NEW w \in {"STOPPED_BEFORE_LOCK_B", "SETTLED", "A_CLAIMED"},
              GotoWith("saveEnd", [drive.mem EXCEPT !.state = w]), drive.pc \in {"lock", "settle"}
       PROVE  DriveHeld'
  <2>1. drive'.pc = "saveEnd" /\ drive'.mem = [drive.mem EXCEPT !.state = w]
    BY <1>3, <1>4, <1>5, <1>6, <1>12
  <2>2. drive'.mem.locked = drive.mem.locked /\ drive'.mem.presig = drive.mem.presig
    BY <1>5, <1>6, <2>1
  <2> QED
    BY <1>1, <1>12, <2>1, <2>2, MovesOnHeld DEF Armed
<1>13. CASE StopsBeforeLockB
  BY <1>12, <1>13 DEF StopsBeforeLockB, At
<1>14. CASE Settles
  BY <1>12, <1>14 DEF Settles, At
<1> QED
  BY <1>7, <1>8, <1>9, <1>10, <1>11, <1>13, <1>14 DEF QuietStep

\* The four saves put the drive's own record on disk: with the pre-signature, and with the
\* lock if the disk has it (persist).
LEMMA PersistKeepsDisk ==
    ASSUME DriveTypeOK, DiskInv, PersistStep
    PROVE  RecKept /\ (rec'.locked => rec'.presig) /\ DriveHeld'
<1>1. PICK pc \in {"savePresig", "saveLock", "saveTxid", "saveEnd"}, next \in DrivePc :
         Persist(pc, next) /\ (next \in Armed => pc # "saveEnd")
  BY DEF PersistStep, SavePresig, SaveLock, SaveTxid, SaveEnd, DrivePc, Armed
<1>2. drive.pc = pc /\ drive.pc \in Armed /\ drive \in Drive /\ drive.mem \in Record
  BY <1>1 DEF Persist, At, Armed, DriveTypeOK, Drive
<1>3. drive'.mem = drive.mem /\ drive'.pc \in {next, "ended"}
  BY <1>1, <1>2 DEF Persist, Goto, Drive
<1>4. drive.mem.presig /\ (rec.locked => drive.mem.locked)
  BY <1>2 DEF DiskInv, DriveHeld, Armed
<1>5. CASE Save(drive.mem)
  <2>1. /\ rec' = [drive.mem EXCEPT !.present = TRUE]
        /\ rec'.present /\ rec'.locked = drive.mem.locked /\ rec'.presig = drive.mem.presig
    BY <1>2, <1>5 DEF Save, Record
  <2> QED
    BY <1>3, <1>4, <2>1 DEF RecKept, DriveHeld
<1>6. CASE UNCHANGED rec /\ Goto("ended")
  <2>1. drive'.pc = "ended"
    BY <1>2, <1>6 DEF Goto, Drive
  <2> QED
    BY <1>2, <1>3, <1>4, <1>6, <2>1 DEF RecKept, DriveHeld, DiskInv, Armed
<1> QED
  BY <1>1, <1>5, <1>6 DEF Persist

\* The steps of the drive on a chain: only the lock puts our coin there, behind the save of the
\* pre-signature.
LEMMA DoneKeepsDisk ==
    ASSUME DriveTypeOK, DiskInv, DoneStep
    PROVE  RecKept /\ (OwnLocked' => rec.presig) /\ DriveHeld'
<1>1. drive \in Drive /\ drive.mem \in Record /\ UNCHANGED rec /\ RecKept
  BY DEF DriveTypeOK, Drive, RecKept, DiskInv, DoneStep, Locks, Releases, Claims
<1>2. drive.pc \in {"lock", "release", "claim"}
  BY DEF DoneStep, Locks, Releases, Claims, At
<1>3. rec.presig /\ drive.mem.presig
  BY <1>2 DEF DiskInv, DriveHeld, Armed
<1>4. \A pc \in DrivePc : Goto(pc) => drive'.mem = drive.mem
  BY <1>1 DEF Goto, Drive
<1>5. \A pc \in DrivePc, r \in Record : GotoWith(pc, r) => drive'.mem = r
  BY <1>1 DEF GotoWith, Drive
<1>6. {"A_LOCKED", "B_LOCKED", "SETTLED"} \subseteq State
      /\ {"ended", "saveLock", "awaitClaim", "saveEnd", "settle"} \subseteq DrivePc
  BY DEF State, Terminal, DrivePc
<1>7. (drive.mem.locked => drive'.mem.locked) /\ drive'.mem.presig = drive.mem.presig
  <2>1. CASE Goto("ended") \/ Goto("awaitClaim") \/ Goto("settle")
    BY <1>4, <1>6, <2>1
  <2>2. ASSUME NEW w \in {"A_LOCKED", "B_LOCKED"},
               GotoWith("saveLock", [drive.mem EXCEPT !.locked = TRUE, !.state = w])
        PROVE  drive'.mem.locked /\ drive'.mem.presig = drive.mem.presig
    <3> DEFINE r == [drive.mem EXCEPT !.locked = TRUE, !.state = w]
    <3>1. r \in Record /\ r.locked /\ r.presig = drive.mem.presig
      BY <1>1, <1>6 DEF Record
    <3>2. drive'.mem = r
      BY <1>5, <1>6, <2>2, <3>1
    <3> HIDE DEF r
    <3> QED
      BY <3>1, <3>2
  <2>3. CASE GotoWith("saveEnd", [drive.mem EXCEPT !.state = "SETTLED"])
    <3> DEFINE r == [drive.mem EXCEPT !.state = "SETTLED"]
    <3>1. r \in Record /\ r.locked = drive.mem.locked /\ r.presig = drive.mem.presig
      BY <1>1, <1>6 DEF Record
    <3>2. drive'.mem = r
      BY <1>5, <1>6, <2>3, <3>1
    <3> HIDE DEF r
    <3> QED
      BY <3>1, <3>2
  <2>4. CASE Locks
    BY <2>1, <2>2, <2>4 DEF Locks
  <2>5. CASE Releases \/ Claims
    BY <2>1, <2>3, <2>5 DEF Releases, Claims
  <2> QED
    BY <2>4, <2>5 DEF DoneStep
<1>8. DriveHeld'
  BY <1>1, <1>2, <1>3, <1>7 DEF DriveHeld, DiskInv
<1> QED
  BY <1>1, <1>3, <1>8

\* Every step of the drive keeps the record, every copy, and the pre-signature before the lock.
LEMMA DriveKeepsDisk ==
    ASSUME ConductorTypeOK, DiskInv, DriveNext
    PROVE  DiskInv' /\ RecKept
<1>1. TypeOK /\ DriveTypeOK
  BY DEF ConductorTypeOK, DriveTypeOK
<1>2. CASE QuietStep
  <2>1. UNCHANGED <<legA, legB, rec, fire, recl, ui>>
    BY <1>2, DriveSteps DEF recoveryVars, chain, tasks
  <2>2. RecKept
    BY <2>1 DEF RecKept, DiskInv
  <2>3. DriveHeld'
    BY <1>1, <1>2, QuietKeepsDisk
  <2> QED
    BY <2>1, <2>2, <2>3, TasksStayHeld DEF DiskInv, OwnLocked
<1>3. CASE PersistStep
  <2>1. UNCHANGED <<legA, legB, fire, recl, ui>>
    BY <1>3
    DEF PersistStep, SavePresig, SaveLock, SaveTxid, SaveEnd, Persist, NetRest, chain, tasks
  <2>2. RecKept /\ (rec'.locked => rec'.presig) /\ DriveHeld'
    BY <1>1, <1>3, PersistKeepsDisk
  <2>3. OwnLocked' => rec'.presig
    BY <2>1, <2>2 DEF OwnLocked, DiskInv, RecKept
  <2>4. rec'.present
    BY <2>2 DEF RecKept
  <2> QED
    BY <2>1, <2>2, <2>3, <2>4, TasksStayHeld DEF DiskInv
<1>4. CASE DoneStep
  <2>1. UNCHANGED <<rec, fire, recl, ui>>
    BY <1>4 DEF DoneStep, Locks, Releases, Claims, NetRest, tasks
  <2>2. RecKept /\ (OwnLocked' => rec.presig) /\ DriveHeld'
    BY <1>1, <1>4, DoneKeepsDisk
  <2> QED
    BY <2>1, <2>2, TasksStayHeld DEF DiskInv
<1>7. CASE AskStep
  <2>1. UNCHANGED <<legA, legB, rec, fire, recl, ui>>
    BY <1>7, DriveSteps DEF recoveryVars, chain, tasks
  <2>2. drive'.pc = "idle" \/ (drive'.pc = "asking" /\ drive'.mem = rec)
    BY <1>7, AskHolds
  <2>3. RecKept /\ DriveHeld'
    BY <2>1, <2>2 DEF RecKept, DiskInv, DriveHeld, Armed
  <2> QED
    BY <2>1, <2>3, TasksStayHeld DEF DiskInv, OwnLocked
<1>5. CASE Registers
  <2>1. /\ UNCHANGED <<legA, legB, rec, ui>> /\ Spawn("drive")
        /\ drive.pc = "asking" /\ drive'.pc \in {"m3", "ended"} /\ drive'.mem = drive.mem
    BY <1>1, <1>5 DEF Registers, At, chain, DriveTypeOK, Drive
  <2>2. RecKept /\ DriveHeld'
    BY <2>1 DEF RecKept, DiskInv, DriveHeld, Armed
  <2>3. "drive" \in Origin
    BY DEF Origin
  <2> QED
    BY <1>1, <2>1, <2>2, <2>3, SpawnHeld DEF DiskInv, OwnLocked
<1>6. CASE StandsDown
  <2>1. UNCHANGED <<legA, legB, rec, fire, recl, ui>> /\ drive.pc = "ended"
    BY <1>6 DEF StandsDown, At, chain
  <2>2. drive'.pc = "done" /\ drive'.mem = drive.mem
    BY <1>1, <1>6 DEF StandsDown, Goto, DriveTypeOK, Drive
  <2>3. RecKept /\ DriveHeld'
    BY <2>1, <2>2 DEF RecKept, DiskInv, DriveHeld, Armed
  <2> QED
    BY <2>1, <2>3, TasksStayHeld DEF DiskInv, OwnLocked
<1> QED
  BY <1>2, <1>3, <1>4, <1>5, <1>6, <1>7, DriveSteps

\* And so does every step of the composed system but a command of the tracker.
LEMMA ConductorKeepsDisk ==
    ASSUME ConductorTypeOK, DiskInv, ConductorNext, NoCommand'
    PROVE  DiskInv' /\ RecKept
<1>1. CASE DriveNext
  BY <1>1, DriveKeepsDisk
<1>2. CASE Observe
  <2>1. UNCHANGED <<legA, legB, rec, fire, recl, ui, drive>>
    BY <1>2 DEF Observe, recoveryVars, chain, tasks
  <2>2. RecKept
    BY <2>1 DEF RecKept, DiskInv
  <2> QED
    BY <2>1, <2>2, TasksStayHeld DEF DiskInv, DriveHeld, OwnLocked
<1>3. ASSUME Next, UNCHANGED drive \/ drive' = IdleDrive
      PROVE  DiskInv' /\ RecKept
  <2>1. /\ RecKept /\ (rec'.locked => rec.locked) /\ ui'.pc = "idle"
        /\ \A p \in Origin, j \in Kind : FireHeld(fire'[p][j], rec')
        /\ \A p \in Origin : ReclHeld(recl'[p], rec')
    BY <1>3, NetKeepsDisk DEF ConductorTypeOK
  <2>2. OwnLocked' => OwnLocked
    BY <1>3, NetLocksNothing
  <2>3. DriveHeld'
    BY <1>3, <2>1 DEF DriveHeld, DiskInv, RecKept, IdleDrive, Armed
  <2>4. rec'.present /\ (OwnLocked' \/ rec'.locked => rec'.presig)
    BY <2>1, <2>2 DEF DiskInv, RecKept
  <2> QED
    BY <2>1, <2>3, <2>4 DEF DiskInv
<1>4. CASE World
  BY <1>3, <1>4 DEF World, Aside, Next, conductorVars
<1>5. CASE Killed
  BY <1>3, <1>5 DEF Killed, Next
<1> QED
  BY <1>1, <1>2, <1>4, <1>5 DEF ConductorNext

LEMMA DiskInvHolds == ConductorSpec => [](ConductorTypeOK /\ (NoCommand => DiskInv))
<1>1. ConductorInit => DiskInv
  <2> SUFFICES ASSUME ConductorInit PROVE DiskInv
    OBVIOUS
  <2>1. ui.pc = "idle" /\ drive.pc = "idle" /\ fire = NoFires /\ recl = NoRecls
    BY DEF ConductorInit, IdleUi, IdleDrive
  <2>2. rec.present /\ ~rec.locked /\ ~OwnLocked
    BY DEF ConductorInit, NoRecord, OwnLocked
  <2> QED
    BY <2>1, <2>2
    DEF DiskInv, DriveHeld, Armed, NoFires, NoRecls, IdleFire, IdleRecl, FireHeld, ReclHeld
<1>2. UNCHANGED vars => (DiskInv => DiskInv') /\ (NoCommand' => NoCommand)
  BY DEF DiskInv, DriveHeld, OwnLocked, NoCommand, vars, recoveryVars, conductorVars, chain, tasks,
     budget
<1>3. ConductorTypeOK /\ (NoCommand => DiskInv) /\ [ConductorNext]_vars => (NoCommand => DiskInv)'
  <2> SUFFICES ASSUME ConductorTypeOK, NoCommand => DiskInv, ConductorNext, NoCommand'
               PROVE  DiskInv'
    BY <1>2
  <2>1. NoCommand
    BY ConductorCountsCommands, BoundAssumption DEF ConductorTypeOK, TypeOK, Poll, NoCommand
  <2> QED
    BY <2>1, ConductorKeepsDisk
<1> QED
  BY <1>1, <1>3, ConductorTypeCorrect, PTL DEF ConductorSpec

\* As long as the tracker sent no command, our coin is never on a chain without the pre-signed
\* refund on disk, whatever the desk answers to the drive and at whatever step the drive fails
\* or is killed (persist before submit_lock).
THEOREM PresigIsOnDisk == ConductorSpec => [](NoCommand => PresigBeforeLock)
<1>1. (NoCommand => DiskInv) => (NoCommand => PresigBeforeLock)
  BY DEF DiskInv, PresigBeforeLock
<1> QED
  BY <1>1, DiskInvHolds, PTL

\* And none of the parties that save whole records drops the lock or the pre-signature (persist,
\* execute_refund, attempt_reclaim).
THEOREM SavesKeepLockAndPresig == ConductorSpec /\ []NoCommand => LockAndPresigKept
<1>1. ConductorTypeOK /\ (NoCommand => DiskInv) /\ NoCommand /\ NoCommand' /\ [ConductorNext]_vars
        => [(rec.present /\ rec'.present) => /\ (rec.locked => rec'.locked)
                                             /\ (rec.presig => rec'.presig)]_rec
  <2> SUFFICES ASSUME ConductorTypeOK, DiskInv, ConductorNext, NoCommand'
               PROVE  RecKept
    BY DEF RecKept, vars, recoveryVars
  <2> QED
    BY ConductorKeepsDisk
<1> QED
  BY <1>1, DiskInvHolds, PTL DEF ConductorSpec, LockAndPresigKept

\* Where the desk is silent, or no command is sent at all, both hold without a condition: a
\* command is one the desk answers (desk_status, desk_abort).
LEMMA NoCommandStays ==
    ASSUME Desk = "silent" \/ MaxPolls = 0
    PROVE  ConductorSpec => []NoCommand
<1>1. ConductorInit => NoCommand
  BY DEF ConductorInit, NoCommand
<1>2. ConductorTypeOK /\ NoCommand /\ [ConductorNext]_vars => NoCommand'
  <2> SUFFICES ASSUME ConductorTypeOK, NoCommand, ConductorNext
               PROVE  NoCommand'
    BY DEF NoCommand, vars, recoveryVars, budget
  <2> QED
    BY ConductorCountsCommands, BoundAssumption DEF Poll, NoCommand
<1> QED
  BY <1>1, <1>2, ConductorTypeCorrect, PTL DEF ConductorSpec
-----------------------------------------------------------------------------
\* The drive's copy of the record is as true as every other copy.
TruthInv == RecoveryInv /\ RecordTrue(drive.mem, legA, legB)

\* What the drive's steps do to its copy: nothing, an edit that claims no recovery, a fresh load,
\* or dropping it.
LEMMA DriveCopies ==
    ASSUME DriveTypeOK, DriveNext
    PROVE  \/ /\ drive'.mem.refunded = drive.mem.refunded
              /\ drive'.mem.reclaimed = drive.mem.reclaimed
           \/ drive'.mem \in {rec, NoRecord}
<1>1. drive \in Drive /\ drive.mem \in Record
  BY DEF DriveTypeOK, Drive
<1>2. \A pc : Goto(pc) => drive'.mem = drive.mem
  BY <1>1 DEF Goto, Drive
<1>3. \A pc, r : GotoWith(pc, r) => drive'.mem = r
  BY <1>1 DEF GotoWith, Drive
<1>4. ASSUME NEW pc, NEW w,
             \/ GotoWith(pc, [drive.mem EXCEPT !.presig = TRUE])
             \/ GotoWith(pc, [drive.mem EXCEPT !.state = w])
             \/ GotoWith(pc, [drive.mem EXCEPT !.locked = TRUE, !.state = w])
      PROVE  /\ drive'.mem.refunded = drive.mem.refunded
             /\ drive'.mem.reclaimed = drive.mem.reclaimed
  BY <1>1, <1>3, <1>4 DEF Record
<1>5. CASE Fails \/ GateDeadline \/ HoldEnds \/ DestinationAgrees \/ GatePasses \/ LearnsDeskTxid
           \/ SeesDeskClaim \/ ReceivesSig \/ Releases \/ StandsDown
  BY <1>2, <1>5 DEF Fails, GateDeadline, HoldEnds, DestinationAgrees, GatePasses, LearnsDeskTxid,
     SeesDeskClaim, ReceivesSig, Releases, StandsDown
<1>6. CASE PersistStep
  BY <1>2, <1>6 DEF PersistStep, SavePresig, SaveLock, SaveTxid, SaveEnd, Persist
<1>7. CASE ExchangeM3 \/ StopsBeforeLockB
  BY <1>2, <1>4, <1>7 DEF ExchangeM3, StopsBeforeLockB
<1>8. CASE Locks \/ Claims \/ Settles
  BY <1>2, <1>4, <1>8 DEF Locks, Claims, Settles
<1>9. CASE AskStep
  BY <1>9, AskHolds
<1>10. CASE Registers
  BY <1>1, <1>10 DEF Registers, Drive
<1> QED
  BY <1>5, <1>6, <1>7, <1>8, <1>9, <1>10 DEF DriveNext, AskStep, PersistStep

\* The steps of the drive keep every copy true (persist saves what the drive loaded).
LEMMA DriveKeepsTruth ==
    ASSUME ConductorTypeOK, TruthInv, Final, DriveNext
    PROVE  TruthInv'
<1>1. TypeOK /\ DriveTypeOK /\ drive.mem \in Record
  BY DEF ConductorTypeOK, DriveTypeOK, Drive
<1>2. /\ RecordTrue(drive.mem, legA', legB') /\ RecordTrue(rec, legA', legB')
      /\ RecordTrue(ui.snap, legA', legB')
      /\ \A o \in Origin, k \in Kind : FireTrue(fire[o][k], legA', legB')
      /\ \A o \in Origin : ReclTrue(recl[o], legA', legB')
  BY StaysTrue, FireStaysTrue, ReclStaysTrue DEF TruthInv, RecoveryInv
<1>3. RecordTrue(drive'.mem, legA', legB')
  BY <1>1, <1>2, DriveCopies, RestTrue DEF RecordTrue
<1>4. SUFFICES RecoveryInv'
  BY <1>3 DEF TruthInv
<1>5. CASE QuietStep \/ AskStep
  BY <1>2, <1>5, DriveSteps DEF recoveryVars, tasks, RecoveryInv
<1>6. CASE PersistStep
  <2>1. UNCHANGED <<fire, recl, ui>> /\ (Save(drive.mem) \/ rec' = rec)
    BY <1>6 DEF PersistStep, SavePresig, SaveLock, SaveTxid, SaveEnd, Persist, NetRest, tasks
  <2>2. RecordTrue([drive.mem EXCEPT !.present = TRUE], legA', legB')
    BY <1>1, <1>2 DEF RecordTrue, Record
  <2> QED
    BY <1>2, <2>1, <2>2 DEF Save, RecoveryInv
<1>7. CASE DoneStep
  BY <1>2, <1>7 DEF DoneStep, Locks, Releases, Claims, NetRest, tasks, RecoveryInv
<1>8. CASE Registers
  <2>1. "drive" \in Origin
    BY DEF Origin
  <2> QED
    BY <1>1, <1>8, <2>1, SpawnTrue DEF Registers, TruthInv
<1>9. CASE StandsDown
  BY <1>2, <1>9 DEF StandsDown, RecoveryInv
<1> QED
  BY <1>5, <1>6, <1>7, <1>8, <1>9, DriveSteps

LEMMA TruthInvHolds == ConductorSpec => [](ConductorTypeOK /\ TruthInv)
<1>1. ConductorInit => TruthInv
  <2> SUFFICES ASSUME ConductorInit PROVE TruthInv
    OBVIOUS
  <2>1. RecordTrue(rec, legA, legB)
    BY DEF ConductorInit, RecordTrue, NoRecord
  <2>2. fire = NoFires /\ recl = NoRecls /\ ui.snap = IdleUi.snap /\ drive.mem = NoRecord
    BY DEF ConductorInit, IdleDrive
  <2> QED
    BY <2>1, <2>2, RestTrue DEF TruthInv, RecoveryInv
<1>2. TruthInv /\ UNCHANGED vars => TruthInv'
  BY DEF TruthInv, RecoveryInv, vars, recoveryVars, conductorVars, chain, tasks
<1>3. ASSUME ConductorTypeOK, OrderInv, TruthInv, ConductorNext
      PROVE  TruthInv'
  <2>1. Final
    BY <1>3, ConductorKeepsOrder, ChainFinal DEF OrderlyMove, ChainMove
  <2>2. CASE DriveNext
    BY <1>3, <2>1, <2>2, DriveKeepsTruth
  <2>3. CASE Observe
    BY <1>3, <2>3 DEF Observe, TruthInv, RecoveryInv, recoveryVars, chain, tasks
  <2>4. CASE World \/ Killed
    <3>1. Next /\ (drive' = drive \/ drive' = IdleDrive)
      BY <2>4 DEF World, Aside, Killed, Next, conductorVars
    <3>2. RecoveryInv'
      BY <1>3, <3>1, StepKeepsTrue DEF TruthInv, ConductorTypeOK
    <3>3. RecordTrue(drive'.mem, legA', legB')
      BY <1>3, <2>1, <3>1, StaysTrue, RestTrue DEF TruthInv, IdleDrive
    <3> QED
      BY <3>2, <3>3 DEF TruthInv
  <2> QED
    BY <1>3, <2>2, <2>3, <2>4 DEF ConductorNext
<1> QED
  BY <1>1, <1>2, <1>3, OrderInvHolds, PTL DEF ConductorSpec

\* With the drive running beside the net, saving its own copies over theirs, the record still
\* never claims a recovery the chain did not see.
THEOREM RecoveryIsRealUnderDrive == ConductorSpec => []RecoveredOnlyOnChain
<1>1. TruthInv => RecoveredOnlyOnChain
  BY DEF TruthInv, RecoveryInv, RecordTrue, RecoveredOnlyOnChain
<1> QED
  BY <1>1, TruthInvHolds, PTL
-----------------------------------------------------------------------------
\* A leader's coin may still need its refund or its swipe, or is about to.
AtStake == WeLead /\ legA \in {"none", "locked"}

\* The watchers of origin o are on the clock.
OnClock(o) == /\ now < AdvertisedT1   => fire[o]["refund"].pc = "armed"
              /\ now < T2 /\ rec.t2 => fire[o]["swipe"].pc \in {"spawned", "armed"}

\* The strengthening of RecordedLegIsScheduled: as long as the coin is at stake, no copy of the
\* record says the swap is over or has lost its T2; a flag is raised only by a drive that ended
\* before the lock was recorded; and whoever drives, or finds the lock recorded, has watchers.
NetInv ==
    /\ WeLead => \A o \in Origin : recl[o].pc \in {"off", "watching", "asked"}
    /\ NoCommand /\ AtStake =>
         /\ ~IsTerminal(rec)
         /\ drive.pc # "idle" => /\ ~IsTerminal(drive.mem) /\ drive.mem.t2 = rec.t2
                                 /\ drive.pc # "settle"
         /\ raised # {} => drive.pc = "done" /\ ~rec.locked
         /\ alive /\ ~booting /\ raised = {} /\ (rec.locked \/ drive.pc \notin {"idle", "asking"})
               => \E o \in Origin : OnClock(o)

\* A step that leaves the watchers and the record alone, and the drive where it is or on its
\* way with the same swap, leaves the schedule as it is.
LEMMA IdleKeepsNet ==
    ASSUME TypeOK, NetInv, AtStake' => AtStake, NoCommand' => NoCommand,
           now' = now \/ now' = now + 1,
           UNCHANGED <<rec, raised, fire, recl, alive, booting>>,
           \/ drive' = drive
           \/ /\ drive.pc \notin {"idle", "asking", "done"} /\ drive'.pc \notin {"idle", "asking"}
              /\ AtStake' /\ ~IsTerminal(drive.mem) /\ drive.pc # "settle" =>
                    ~IsTerminal(drive'.mem) /\ drive'.mem.t2 = drive.mem.t2 /\ drive'.pc # "settle"
    PROVE  NetInv'
<1>1. WeLead => \A o \in Origin : recl'[o].pc \in {"off", "watching", "asked"}
  BY DEF NetInv
<1> SUFFICES ASSUME NoCommand', AtStake'
             PROVE  /\ ~IsTerminal(rec')
                    /\ drive'.pc # "idle" => /\ ~IsTerminal(drive'.mem) /\ drive'.mem.t2 = rec'.t2
                                            /\ drive'.pc # "settle"
                    /\ raised' # {} => drive'.pc = "done" /\ ~rec'.locked
                    /\ alive' /\ ~booting' /\ raised' = {}
                       /\ (rec'.locked \/ drive'.pc \notin {"idle", "asking"})
                          => \E o \in Origin : OnClock(o)'
  BY <1>1 DEF NetInv, IsTerminal
<1>2. /\ ~IsTerminal(rec)
      /\ drive.pc # "idle" => ~IsTerminal(drive.mem) /\ drive.mem.t2 = rec.t2 /\ drive.pc # "settle"
      /\ raised # {} => drive.pc = "done" /\ ~rec.locked
      /\ alive /\ ~booting /\ raised = {} /\ (rec.locked \/ drive.pc \notin {"idle", "asking"})
            => \E o \in Origin : OnClock(o)
  BY DEF NetInv
<1>3. \A o \in Origin : OnClock(o) => OnClock(o)'
  BY TimeAssumption, BoundAssumption DEF OnClock, TypeOK, ChainTypeOK
<1>4. /\ ~IsTerminal(rec') /\ (drive'.pc = "idle" <=> drive.pc = "idle")
      /\ drive'.pc \in {"idle", "asking"} <=> drive.pc \in {"idle", "asking"}
  BY <1>2 DEF IsTerminal
<1> QED
  BY <1>2, <1>3, <1>4

\* A coin at stake was at stake before.
LEMMA StakeIsOld ==
    ASSUME OrderlyMove
    PROVE  /\ AtStake' => AtStake
           /\ now' = now \/ now' = now + 1
  BY DEF OrderlyMove, AtStake, chain, Tick, LockA, LockB, ClaimA, RefundA, SwipeA, SweepB, ReclaimB,
     ReleaseSig, CanClaimA, CanRefundA, CanSwipeA

\* The steps of the drive that save nothing: a leader's swap ends only with the claim, when its
\* coin is gone.
LEMMA DriveMovesOn ==
    ASSUME DriveTypeOK, QuietStep \/ DoneStep
    PROVE  /\ drive.pc \notin {"idle", "asking", "done"} /\ drive'.pc \notin {"idle", "asking"}
           /\ AtStake' /\ ~IsTerminal(drive.mem) /\ drive.pc # "settle" =>
                 ~IsTerminal(drive'.mem) /\ drive'.mem.t2 = drive.mem.t2 /\ drive'.pc # "settle"
<1>1. drive \in Drive /\ drive.mem \in Record
  BY DEF DriveTypeOK, Drive
<1>2. \A pc : Goto(pc) => drive'.pc = pc /\ drive'.mem = drive.mem
  BY <1>1 DEF Goto, Drive
<1>3. \A pc, r : GotoWith(pc, r) => drive'.pc = pc /\ drive'.mem = r
  BY <1>1 DEF GotoWith, Drive
<1>4. /\ [drive.mem EXCEPT !.presig = TRUE].t2 = drive.mem.t2
      /\ [drive.mem EXCEPT !.presig = TRUE].state = drive.mem.state
      /\ \A w : /\ [drive.mem EXCEPT !.locked = TRUE, !.state = w].t2 = drive.mem.t2
                /\ [drive.mem EXCEPT !.locked = TRUE, !.state = w].state = w
  BY <1>1 DEF Record
<1>5. "A_LOCKED" \notin Terminal /\ "B_LOCKED" \notin Terminal
  BY DEF Terminal
<1>6. AtStake' => WeLead /\ ~WeFollow /\ legA' # "claimed"
  BY DEF AtStake, WeLead, WeFollow
<1>7. CASE Fails \/ GateDeadline \/ HoldEnds \/ DestinationAgrees \/ GatePasses \/ LearnsDeskTxid
           \/ SeesDeskClaim \/ ReceivesSig \/ Releases
  BY <1>2, <1>7 DEF Fails, GateDeadline, HoldEnds, DestinationAgrees, GatePasses, LearnsDeskTxid,
     SeesDeskClaim, ReceivesSig, Releases, At
<1>8. CASE ExchangeM3
  BY <1>2, <1>3, <1>4, <1>8 DEF ExchangeM3, At, IsTerminal
<1>9. CASE StopsBeforeLockB
  BY <1>3, <1>6, <1>9 DEF StopsBeforeLockB, At
<1>10. CASE Locks
  <2>1. drive.pc = "lock"
    BY <1>10 DEF Locks, At
  <2>2. CASE Goto("ended")
    BY <1>2, <2>1, <2>2
  <2>3. ASSUME NEW w \in {"A_LOCKED", "B_LOCKED"},
               GotoWith("saveLock", [drive.mem EXCEPT !.locked = TRUE, !.state = w])
        PROVE  drive'.pc = "saveLock" /\ drive'.mem.state = w /\ drive'.mem.t2 = drive.mem.t2
    BY <1>3, <1>4, <2>3
  <2> QED
    BY <1>5, <1>10, <2>1, <2>2, <2>3 DEF Locks, IsTerminal
<1>11. CASE Claims
  <2>1. WeLead => legA' = "claimed"
    BY <1>11 DEF Claims, OwnClaim, SweepB, CanSweepB
  <2>2. drive.pc = "claim" /\ drive'.pc \in {"saveEnd", "settle", "ended"}
    BY <1>2, <1>3, <1>11 DEF Claims, At
  <2> QED
    BY <1>6, <2>1, <2>2
<1>12. CASE Settles
  BY <1>3, <1>12 DEF Settles, At
<1> QED
  BY <1>7, <1>8, <1>9, <1>10, <1>11, <1>12 DEF QuietStep, DoneStep

\* A save of the drive's record keeps the schedule: the record is not over and has the T2 the
\* watchers saw.
LEMMA PersistKeepsNet ==
    ASSUME ConductorTypeOK, NetInv, PersistStep
    PROVE  NetInv'
<1>1. drive \in Drive /\ drive.mem \in Record
  BY DEF ConductorTypeOK, Drive
<1>2. /\ drive.pc \in {"savePresig", "saveLock", "saveTxid", "saveEnd"}
      /\ drive'.mem = drive.mem /\ drive'.pc \notin {"idle", "asking", "settle"}
      /\ rec' = rec \/ rec' = [drive.mem EXCEPT !.present = TRUE]
      /\ UNCHANGED <<now, legA, raised, fire, recl, alive, booting, polls>>
  BY <1>1 DEF PersistStep, SavePresig, SaveLock, SaveTxid, SaveEnd, Persist, At, Goto, Drive, Save,
     NetRest, NoFault, Fault, chain, app, tasks, budget
<1>3. WeLead => \A o \in Origin : recl'[o].pc \in {"off", "watching", "asked"}
  BY <1>2 DEF NetInv
<1> SUFFICES ASSUME NoCommand', AtStake'
             PROVE  /\ ~IsTerminal(rec') /\ ~IsTerminal(drive'.mem) /\ drive'.mem.t2 = rec'.t2
                    /\ raised' = {}
                    /\ alive' /\ ~booting' => \E o \in Origin : OnClock(o)'
  BY <1>2, <1>3 DEF NetInv, IsTerminal
<1>4. NoCommand /\ AtStake
  BY <1>2 DEF NoCommand, AtStake
<1>5. /\ ~IsTerminal(rec) /\ ~IsTerminal(drive.mem) /\ drive.mem.t2 = rec.t2 /\ raised = {}
      /\ alive /\ ~booting => \E o \in Origin : OnClock(o)
  BY <1>2, <1>4 DEF NetInv
<1>6. rec'.state \in {rec.state, drive.mem.state} /\ rec'.t2 = rec.t2
  BY <1>1, <1>2, <1>5 DEF Record
<1>7. \A o \in Origin : OnClock(o) => OnClock(o)'
  BY <1>2, <1>6 DEF OnClock
<1> QED
  BY <1>2, <1>5, <1>6, <1>7 DEF IsTerminal

\* Freshly spawned watchers are on the clock (spawn_recovery_watchers, rehydrate).
LEMMA SpawnOnClock ==
    ASSUME TypeOK, NetInv, NEW o \in Origin, Spawn(o), UNCHANGED rec
    PROVE  /\ OnClock(o)'
           /\ WeLead => \A p \in Origin : recl'[p].pc \in {"off", "watching", "asked"}
<1>1. /\ fire'[o]["refund"].pc = "armed" /\ fire'[o]["swipe"].pc = "spawned"
      /\ recl'[o].pc = "watching" /\ \A p \in Origin : p # o => recl'[p] = recl[p]
  BY DEF Spawn, TypeOK, Kind, IdleFire, IdleRecl
<1> QED
  BY <1>1 DEF OnClock, NetInv

\* Every step of the drive keeps the schedule.
LEMMA DriveKeepsNet ==
    ASSUME ConductorTypeOK, NetInv, OrderlyMove, DriveNext
    PROVE  NetInv'
<1>1. TypeOK /\ DriveTypeOK /\ (AtStake' => AtStake) /\ (now' = now \/ now' = now + 1)
  BY StakeIsOld DEF ConductorTypeOK, DriveTypeOK
<1>2. CASE QuietStep
  <2>1. UNCHANGED <<rec, raised, fire, recl, alive, booting, polls>>
    BY <1>2, DriveSteps DEF recoveryVars, app, tasks, budget
  <2> QED
    BY <1>1, <1>2, <2>1, DriveMovesOn, IdleKeepsNet DEF NoCommand
<1>3. CASE DoneStep
  <2>1. UNCHANGED <<rec, raised, fire, recl, alive, booting, polls>>
    BY <1>3 DEF DoneStep, Locks, Releases, Claims, NetRest, NoFault, Fault, app, tasks, budget
  <2> QED
    BY <1>1, <1>3, <2>1, DriveMovesOn, IdleKeepsNet DEF NoCommand
<1>4. CASE PersistStep
  BY <1>4, PersistKeepsNet
<1>7. CASE AskStep
  <2>1. /\ UNCHANGED <<now, legA, rec, raised, fire, recl, alive, booting, polls>>
        /\ drive.pc \in {"idle", "asking"}
        /\ drive'.pc = "idle" \/ (drive'.pc = "asking" /\ drive'.mem = rec)
    BY <1>7, DriveSteps, AskHolds
    DEF AskStep, Proceed, DeskTerminal, At, recoveryVars, chain, app, tasks, budget
  <2>2. \A o \in Origin : OnClock(o) => OnClock(o)'
    BY <2>1 DEF OnClock
  <2> QED
    BY <2>1, <2>2 DEF NetInv, NoCommand, AtStake, IsTerminal
<1>5. CASE Registers
  <2>1. /\ drive.pc = "asking" /\ drive'.pc \in {"m3", "ended"} /\ drive'.mem = drive.mem
        /\ Spawn("drive") /\ "drive" \in Origin
        /\ UNCHANGED <<legA, rec, raised, polls>>
    BY <1>1, <1>5 DEF Registers, At, Origin, chain, budget, DriveTypeOK, Drive
  <2>2. /\ OnClock("drive")'
        /\ WeLead => \A p \in Origin : recl'[p].pc \in {"off", "watching", "asked"}
    BY <1>1, <2>1, SpawnOnClock
  <2>3. NoCommand' /\ AtStake' => /\ ~IsTerminal(rec) /\ raised = {}
                                   /\ ~IsTerminal(drive.mem) /\ drive.mem.t2 = rec.t2
    BY <2>1 DEF NetInv, NoCommand, AtStake
  <2>4. \E o \in Origin : OnClock(o)'
    BY <2>1, <2>2
  <2> QED
    BY <2>1, <2>2, <2>3, <2>4 DEF NetInv, IsTerminal
<1>6. CASE StandsDown
  <2>1. /\ drive.pc = "ended" /\ drive'.pc = "done" /\ drive'.mem = drive.mem
        /\ UNCHANGED <<now, legA, rec, fire, recl, alive, booting, polls>>
        /\ raised' = raised \/ ShouldStandDown
    BY <1>1, <1>6 DEF StandsDown, At, Goto, DriveTypeOK, Drive, chain, app, budget
  <2>2. SUFFICES ASSUME NoCommand', AtStake' PROVE NetInv'
    BY <2>1 DEF NetInv
  <2>3. NoCommand /\ AtStake
    BY <2>1, <2>2 DEF NoCommand, AtStake
  <2>4. /\ ~IsTerminal(rec) /\ ~IsTerminal(drive.mem) /\ drive.mem.t2 = rec.t2 /\ raised = {}
        /\ alive /\ ~booting => \E o \in Origin : OnClock(o)
    BY <2>1, <2>3 DEF NetInv
  <2>5. raised' # {} => ~rec.locked
    BY <2>1, <2>4 DEF ShouldStandDown
  <2>6. \A o \in Origin : OnClock(o) => OnClock(o)'
    BY <2>1 DEF OnClock
  <2> QED
    BY <2>1, <2>4, <2>5, <2>6 DEF NetInv, IsTerminal
<1> QED
  BY <1>2, <1>3, <1>4, <1>5, <1>6, <1>7, DriveSteps

\* A step of a refund or swipe watcher: before its instant only a raised flag ends it, and a
\* refund is recorded only when the coin has left.
LEMMA FireKeepsNet ==
    ASSUME TypeOK, RecoveryInv, NetInv, NEW p \in Origin, NEW k \in Kind, FireNext(p, k),
           UNCHANGED drive, AtStake' => AtStake
    PROVE  NetInv'
<1>1. FireShape(p, k)
  BY FireHasShape
<1>2. SUFFICES ASSUME NoCommand', AtStake' PROVE NetInv'
  BY <1>1 DEF NetInv, FireShape
<1>3. NoCommand /\ AtStake
  BY <1>1, <1>2 DEF FireShape, NoCommand
<1>4. rec' = rec
  <2>1. fire[p][k].pc # "saving"
    BY <1>3 DEF RecoveryInv, FireTrue, AtStake
  <2> QED
    BY <1>1, <2>1 DEF FireShape
<1>5. ASSUME NEW o \in Origin, OnClock(o), raised = {}
      PROVE  OnClock(o)'
  <2>1. now' = now /\ "refund" \in Kind /\ "swipe" \in Kind
    BY <1>1 DEF FireShape, Kind
  <2>2. ASSUME now < AdvertisedT1 PROVE fire'[o]["refund"].pc = "armed"
    <3>1. fire[o]["refund"].pc = "armed" /\ ~(now >= AdvertisedT1)
      BY <1>5, <2>2, BoundAssumption DEF OnClock, TypeOK, ChainTypeOK
    <3>2. ~(p = o /\ k = "refund")
      BY <1>1, <1>5, <3>1 DEF FireShape, Stopped, Due
    <3> QED
      BY <1>1, <2>1, <3>1, <3>2 DEF FireShape, Others
  <2>3. ASSUME now < T2, rec.t2 PROVE fire'[o]["swipe"].pc \in {"spawned", "armed"}
    <3>1. fire[o]["swipe"].pc \in {"spawned", "armed"} /\ ~(now >= T2)
      BY <1>5, <2>3, TimeAssumption DEF OnClock, TypeOK, ChainTypeOK
    <3>2. ~(p = o /\ k = "swipe")
      BY <1>1, <1>5, <3>1 DEF FireShape, Stopped, Due
    <3> QED
      BY <1>1, <2>1, <3>1, <3>2 DEF FireShape, Others
  <2> QED
    BY <1>4, <2>1, <2>2, <2>3 DEF OnClock
<1> QED
  BY <1>1, <1>3, <1>4, <1>5 DEF NetInv, FireShape, IsTerminal

\* A swipe watcher plans its instant: with the coin at stake it gives up only without a T2.
LEMMA PlanKeepsNet ==
    ASSUME TypeOK, rec.present \/ ~NoCommand, NetInv, NEW p \in Origin, PlanSwipe(p), UNCHANGED drive
    PROVE  NetInv'
<1>1. /\ UNCHANGED <<now, legA, alive, booting, rec, raised, recl, polls>>
      /\ "swipe" \in Kind /\ fire[p]["swipe"] \in FireTask
  BY DEF PlanSwipe, TypeOK, Kind, chain, app, budget
<1>2. SUFFICES ASSUME NoCommand', AtStake' PROVE NetInv'
  BY <1>1 DEF NetInv
<1>3. NoCommand /\ AtStake /\ rec.present /\ WeLead /\ ~IsTerminal(rec)
  BY <1>1, <1>2 DEF NoCommand, AtStake, NetInv
<1>4. Others(p, "swipe") /\ (rec.t2 => fire'[p]["swipe"].pc = "armed")
  <2>1. [fire[p]["swipe"] EXCEPT !.pc = "armed"].pc = "armed"
    BY <1>1 DEF FireTask
  <2> QED
    BY <1>1, <1>3, <2>1, FireStepMoves DEF PlanSwipe
<1>5. \A o \in Origin : OnClock(o) => OnClock(o)'
  BY <1>1, <1>4 DEF OnClock, Others, Kind
<1> QED
  BY <1>1, <1>3, <1>5 DEF NetInv, IsTerminal

\* A leader's reclaim watch ends when it sees chain A spent, and saves nothing.
LEMMA ReclKeepsNet ==
    ASSUME TypeOK, NetInv, NEW p \in Origin, ReclNext(p), UNCHANGED drive
    PROVE  NetInv'
<1>1. ReclShape(p)
  BY ReclHasShape
<1>2. WeLead => /\ recl[p].pc \in {"watching", "asked"}
                /\ \A o \in Origin : recl'[o].pc \in {"off", "watching", "asked"}
  BY <1>1 DEF ReclShape, NetInv
<1>3. SUFFICES ASSUME NoCommand', AtStake' PROVE NetInv'
  BY <1>2 DEF NetInv
<1>4. UNCHANGED <<now, legA, raised, fire, alive, booting, polls, rec>>
  BY <1>1, <1>2, <1>3 DEF ReclShape, AtStake
<1>5. NoCommand /\ AtStake
  BY <1>3, <1>4 DEF NoCommand, AtStake
<1>6. \A o \in Origin : OnClock(o) => OnClock(o)'
  BY <1>4 DEF OnClock
<1> QED
  BY <1>2, <1>4, <1>5, <1>6 DEF NetInv, IsTerminal

\* Every step of the net beside a drive, and a crash that ends both, keep the schedule.
LEMMA NetKeepsNet ==
    ASSUME TypeOK, NoCommand => DiskInv, RecoveryInv, NetInv, Next,
           UNCHANGED drive \/ (Crash /\ drive' = IdleDrive)
    PROVE  NetInv'
<1>1. (AtStake' => AtStake) /\ (now' = now \/ now' = now + 1)
  BY NetIsOrderly, StakeIsOld
<1>2. NoCommand' => NoCommand
  BY NetCountsCommands, BoundAssumption DEF NoCommand, Poll, TypeOK
<1>3. CASE Crash
  <2>1. /\ alive' = FALSE /\ raised' = {} /\ UNCHANGED <<legA, rec, polls>>
        /\ \A o \in Origin : recl'[o].pc = "off"
    BY <1>3 DEF Crash, NoRecls, IdleRecl, chain
  <2>2. drive' = drive \/ drive'.pc = "idle"
    BY DEF IdleDrive
  <2> QED
    BY <2>1, <2>2 DEF NetInv, NoCommand, AtStake, IsTerminal
<1> SUFFICES ASSUME UNCHANGED drive, Outside \/ DeskFunds \/ NetNext
             PROVE  NetInv'
  BY <1>3 DEF Next
<1>4. CASE Outside \/ DeskFunds
  BY <1>1, <1>2, <1>4, IdleKeepsNet DEF Outside, DeskFunds, app, tasks
<1>5. CASE UiNext
  <2>1. polls' # polls + 1 \/ ~NoCommand'
    BY BoundAssumption DEF TypeOK, NoCommand
  <2>2. ~NoCommand'
    BY <1>2, <1>5, <2>1 DEF UiNext, StatusAsks, StatusAnswered, StatusMirrored, DeskAborts, DiskInv,
       Poll
  <2>3. UNCHANGED recl
    BY <1>5 DEF UiNext, StatusAsks, StatusAnswered, StatusMirrored, DeskAborts, tasks
  <2> QED
    BY <2>2, <2>3 DEF NetInv
<1>6. CASE Launch
  <2>1. booting' = TRUE /\ UNCHANGED <<legA, rec, raised, recl, polls>>
    BY <1>6 DEF Launch, chain, tasks, budget
  <2> QED
    BY <2>1 DEF NetInv, NoCommand, AtStake, IsTerminal
<1>7. CASE Rehydrate
  <2>1. /\ UNCHANGED <<legA, rec, raised, polls>> /\ "boot" \in Origin
        /\ IF rec.present /\ ~IsTerminal(rec) THEN Spawn("boot") ELSE UNCHANGED recl
    BY <1>7 DEF Rehydrate, Origin, chain, budget
  <2>2. WeLead => \A o \in Origin : recl'[o].pc \in {"off", "watching", "asked"}
    BY <2>1, SpawnOnClock DEF NetInv
  <2>3. SUFFICES ASSUME NoCommand', AtStake' PROVE NetInv'
    BY <2>2 DEF NetInv
  <2>4. NoCommand /\ AtStake
    BY <2>1, <2>3 DEF NoCommand, AtStake
  <2>5. rec.present /\ ~IsTerminal(rec)
    BY <2>4 DEF NetInv, DiskInv
  <2>6. OnClock("boot")'
    BY <2>1, <2>5, SpawnOnClock
  <2>7. \E o \in Origin : OnClock(o)'
    BY <2>1, <2>6
  <2> QED
    BY <2>1, <2>2, <2>4, <2>7 DEF NetInv, IsTerminal
<1>8. CASE \E o \in Origin : TaskNext(o)
  <2>1. PICK p \in Origin : TaskNext(p)
    BY <1>8
  <2>2. ASSUME NEW k \in Kind, FireNext(p, k) PROVE NetInv'
    BY <1>1, <2>2, FireKeepsNet
  <2>3. CASE PlanSwipe(p)
    BY <2>3, PlanKeepsNet DEF DiskInv
  <2>4. CASE ReclNext(p)
    BY <2>4, ReclKeepsNet
  <2> QED
    BY <2>1, <2>2, <2>3, <2>4 DEF TaskNext
<1> QED
  BY <1>4, <1>5, <1>6, <1>7, <1>8 DEF NetNext

\* The schedule of the composed system, over any number of failures, kills and drives.
LEMMA NetInvHolds == ConductorSpec => [](ConductorTypeOK /\ NetInv)
<1>1. ConductorInit => NetInv
  BY DEF ConductorInit, NetInv, NoRecls, IdleRecl, IdleDrive, NoRecord, IsTerminal, Terminal
<1>2. ASSUME ConductorTypeOK, OrderInv, NoCommand => DiskInv, TruthInv, NetInv, ConductorNext
      PROVE  NetInv'
  <2>1. OrderlyMove /\ TypeOK /\ RecoveryInv
    BY <1>2, ConductorKeepsOrder DEF ConductorTypeOK, TruthInv
  <2>2. CASE DriveNext
    BY <1>2, <2>1, <2>2, DriveKeepsNet
  <2>3. CASE Observe
    BY <1>2, <2>1, <2>3, StakeIsOld, IdleKeepsNet
    DEF Observe, recoveryVars, app, tasks, budget, NoCommand
  <2>4. CASE World
    BY <1>2, <2>1, <2>4, NetKeepsNet DEF World, Aside, Next, conductorVars
  <2>5. CASE Killed
    BY <1>2, <2>1, <2>5, NetKeepsNet DEF Killed, Next
  <2> QED
    BY <1>2, <2>2, <2>3, <2>4, <2>5 DEF ConductorNext
<1>3. ASSUME NetInv, UNCHANGED vars
      PROVE  NetInv'
  BY <1>3 DEF NetInv, OnClock, NoCommand, AtStake, IsTerminal, vars, recoveryVars, conductorVars,
     chain, app, tasks, budget
<1> QED
  BY <1>1, <1>2, <1>3, OrderInvHolds, DiskInvHolds, TruthInvHolds, PTL DEF ConductorSpec

\* Until the tracker sends a command, a leader's coin that the record knows of has its refund
\* scheduled to T1 and its swipe to T2: no drive that fails, stands down, is killed or driven
\* again beside the relaunched net leaves the coin without them (should_stand_down, rehydrate).
THEOREM RecordedLegIsOnClock == ConductorSpec => [](NoCommand => RecordedLegIsScheduled)
<1>1. NetInv => (NoCommand => RecordedLegIsScheduled)
  <2> SUFFICES ASSUME NetInv, NoCommand, rec.locked, alive, ~booting, WeLead, legA = "locked"
               PROVE  /\ now < AdvertisedT1   => \E o \in Origin : Scheduled(o, "refund")
                      /\ now < T2 /\ rec.t2 => \E o \in Origin : Scheduled(o, "swipe")
    BY DEF RecordedLegIsScheduled, LockedLegIsScheduled
  <2>1. AtStake
    BY DEF AtStake
  <2>2. raised = {} /\ \E o \in Origin : OnClock(o)
    BY <2>1 DEF NetInv
  <2>3. PICK o \in Origin : OnClock(o)
    BY <2>2
  <2> QED
    BY <2>2, <2>3 DEF OnClock, Scheduled, Stopped
<1> QED
  BY <1>1, NetInvHolds, PTL
=============================================================================
