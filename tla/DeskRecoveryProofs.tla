------------------------- MODULE DeskRecoveryProofs -------------------------
(***************************************************************************)
(* Proofs about the recovery net: its type invariant, and that the record  *)
(* never claims a recovery the chains did not see.                         *)
(***************************************************************************)
EXTENDS DeskRecovery, TLAPS

\* The resting values have the types of the variables that hold them (the structs and
\* tasks the code starts from).
LEMMA RestTypes ==
    /\ NoRecord \in Record
    /\ IdleFire \in FireTask /\ IdleRecl \in ReclTask /\ IdleUi \in Ui
    /\ NoFires \in [Origin -> [Kind -> FireTask]]
    /\ NoRecls \in [Origin -> ReclTask]
<1>1. NoRecord \in Record
  BY DEF NoRecord, Record, State, Terminal
<1>2. IdleFire \in FireTask
  BY <1>1 DEF IdleFire, FireTask, FirePc, NoFlag
<1>3. IdleRecl \in ReclTask
  BY <1>1 DEF IdleRecl, ReclTask, ReclPc, NoFlag
<1>4. IdleUi \in Ui
  BY <1>1 DEF IdleUi, Ui, UiPc, State, Terminal
<1> QED
  BY <1>1, <1>2, <1>3, <1>4 DEF NoFires, NoRecls

\* One transaction, the clock, or nothing.
ChainMove == \/ Tick \/ LockA \/ LockB \/ ClaimA \/ RefundA \/ SwipeA \/ SweepB \/ ReclaimB
             \/ ReleaseSig \/ UNCHANGED chain

\* A chain move keeps the chains well formed (external: what a chain accepts).
LEMMA ChainTypes ==
    ASSUME ChainTypeOK, ChainMove
    PROVE  ChainTypeOK'
<1> USE DEF ChainMove, Tick, LockA, LockB, ClaimA, RefundA, SwipeA, SweepB, ReclaimB,
            ReleaseSig, chain
<1>1. now' \in 0..EndOfTime
  <2>1. now' = now \/ (now < EndOfTime /\ now' = now + 1)
    OBVIOUS
  <2> QED
    BY <2>1, TimeAssumption DEF ChainTypeOK
<1>2. legA' \in {legA, "locked", "claimed", "refunded", "swiped"}
  OBVIOUS
<1>3. legB' \in {legB, "locked", "swept", "reclaimed"}
  OBVIOUS
<1>4. sigOut' \in BOOLEAN
  BY Zenon DEF ChainTypeOK
<1> QED
  BY <1>1, <1>2, <1>3, <1>4 DEF ChainTypeOK, LegA, LegB

\* A call that fails or succeeds stays within its bound (MaxFaults, MaxPolls are the model's).
LEMMA BudgetTypes ==
    ASSUME faults \in 0..MaxFaults, crashes \in 0..MaxCrashes, polls \in 0..MaxPolls,
           Fault \/ NoFault \/ Poll
    PROVE  faults' \in 0..MaxFaults /\ crashes' \in 0..MaxCrashes /\ polls' \in 0..MaxPolls
  BY BoundAssumption DEF Fault, NoFault, Poll, budget

\* A change of a watcher's position, snapshot or mark is a well-formed watcher again.
LEMMA FireTaskUpdates ==
    ASSUME NEW t \in FireTask, NEW pc \in FirePc, NEW r \in Record
    PROVE  /\ [t EXCEPT !.pc = pc] \in FireTask
           /\ [t EXCEPT !.pc = pc, !.snap = r] \in FireTask
           /\ [t EXCEPT !.last = TRUE] \in FireTask
  BY DEF FireTask

\* What a watcher's step may write: its own entry, and nothing or "no flag" in the registry.
FireWrites(o, k) == /\ fire' \in [Origin -> [Kind -> FireTask]]
                    /\ reg' \in Origin \cup {NoFlag}

LEMMA FireStepWrites ==
    ASSUME TypeOK, NEW o \in Origin, NEW k \in Kind, NEW t \in FireTask, FireStep(o, k, t),
           reg' = reg \/ AfterEnd(o, k)
    PROVE  FireWrites(o, k)
<1>1. fire' \in [Origin -> [Kind -> FireTask]]
  BY DEF TypeOK, FireStep
<1>2. reg' \in Origin \cup {NoFlag}
  BY DEF TypeOK, AfterEnd
<1> QED
  BY <1>1, <1>2 DEF FireWrites

LEMMA EndFireWrites ==
    ASSUME TypeOK, NEW o \in Origin, NEW k \in Kind, EndFire(o, k)
    PROVE  FireWrites(o, k)
  BY FireStepWrites, RestTypes DEF EndFire

LEMMA BeginRefundWrites ==
    ASSUME TypeOK, NEW o \in Origin, NEW k \in Kind, NEW t \in FireTask, BeginRefund(o, k, t)
    PROVE  FireWrites(o, k)
<1>1. "deciding" \in FirePc /\ "refunding" \in FirePc /\ rec \in Record
  BY DEF FirePc, TypeOK
<1>2. CASE EndFire(o, k)
  BY <1>2, EndFireWrites
<1>3. CASE FireStep(o, k, [t EXCEPT !.pc = "deciding"]) /\ UNCHANGED reg
  BY <1>1, <1>3, FireStepWrites, FireTaskUpdates
<1>4. CASE FireStep(o, k, [t EXCEPT !.pc = "refunding", !.snap = rec]) /\ UNCHANGED reg
  BY <1>1, <1>4, FireStepWrites, FireTaskUpdates
<1> QED
  BY <1>2, <1>3, <1>4 DEF BeginRefund

LEMMA RefundFailedWrites ==
    ASSUME TypeOK, NEW o \in Origin, NEW k \in Kind, RefundFailed(o, k)
    PROVE  FireWrites(o, k)
<1>1. "deciding" \in FirePc /\ fire[o][k] \in FireTask
  BY DEF FirePc, TypeOK
<1>2. CASE EndFire(o, k)
  BY <1>2, EndFireWrites
<1>3. CASE /\ FireStep(o, k, [fire[o][k] EXCEPT !.pc = "deciding", !.snap = NoRecord])
           /\ UNCHANGED reg
  BY <1>1, <1>3, FireStepWrites, FireTaskUpdates, RestTypes
<1> QED
  BY <1>2, <1>3 DEF RefundFailed

\* The steps of a refund or swipe watcher keep every variable well formed (refund.rs: what
\* execute_refund and the deep abort write).
LEMMA FireTypes ==
    ASSUME TypeOK, NEW o \in Origin, NEW k \in Kind, FireNext(o, k)
    PROVE  TypeOK'
<1>1. /\ fire[o][k] \in FireTask
      /\ \A pc \in FirePc : [fire[o][k] EXCEPT !.pc = pc] \in FireTask
      /\ [fire[o][k] EXCEPT !.last = TRUE] \in FireTask
  <2>1. fire[o][k] \in FireTask
    BY DEF TypeOK
  <2>2. "off" \in FirePc
    BY DEF FirePc
  <2> QED
    BY <2>1, <2>2, FireTaskUpdates, RestTypes
<1>2. \A r \in Record :
         [r EXCEPT !.refunded = TRUE, !.state = "A_REFUNDED", !.present = TRUE] \in Record
  BY DEF Record, State, Terminal
<1>3. {"saving", "deciding", "swiping", "retrying"} \subseteq FirePc
  BY DEF FirePc
<1> DEFINE Frame == /\ ChainTypeOK' /\ rec' \in Record
                    /\ faults' \in 0..MaxFaults /\ crashes' \in 0..MaxCrashes
                    /\ polls' \in 0..MaxPolls
                    /\ UNCHANGED <<alive, booting, raised, recl, ui>>
<1>4. CASE StandDown(o, k)
  <2>1. FireWrites(o, k)
    BY <1>4, EndFireWrites DEF StandDown
  <2>2. Frame
    BY <1>4, ChainTypes DEF ChainMove, StandDown, TypeOK, app, budget
  <2> QED
    BY <2>1, <2>2 DEF FireWrites, TypeOK
<1>5. CASE Fires(o, k)
  <2>1. FireWrites(o, k)
    BY <1>1, <1>5, BeginRefundWrites DEF Fires
  <2>2. Frame
    BY <1>5, ChainTypes DEF ChainMove, Fires, TypeOK, app, budget
  <2> QED
    BY <2>1, <2>2 DEF FireWrites, TypeOK
<1>6. CASE RetryRefund(o, k)
  <2>1. FireWrites(o, k)
    BY <1>1, <1>6, BeginRefundWrites DEF RetryRefund
  <2>2. Frame
    BY <1>6, ChainTypes DEF ChainMove, RetryRefund, TypeOK, app, budget
  <2> QED
    BY <2>1, <2>2 DEF FireWrites, TypeOK
<1>7. CASE RefundGoesOut(o, k)
  <2>1. FireWrites(o, k)
    BY <1>1, <1>3, <1>7, FireStepWrites, RefundFailedWrites DEF RefundGoesOut
  <2>2. Frame
    BY <1>7, ChainTypes, BudgetTypes DEF ChainMove, RefundGoesOut, TypeOK, app
  <2> QED
    BY <2>1, <2>2 DEF FireWrites, TypeOK
<1>8. CASE RefundRefused(o, k)
  <2>1. FireWrites(o, k)
    BY <1>8, RefundFailedWrites DEF RefundRefused
  <2>2. Frame
    BY <1>8, ChainTypes, BudgetTypes DEF ChainMove, RefundRefused, TypeOK, app
  <2> QED
    BY <2>1, <2>2 DEF FireWrites, TypeOK
<1>9. CASE SaveRefund(o, k)
  <2>1. FireWrites(o, k)
    BY <1>9, EndFireWrites, RefundFailedWrites DEF SaveRefund
  <2>2. rec' \in Record
    BY <1>1, <1>2, <1>9 DEF SaveRefund, Save, FireTask, TypeOK
  <2>3. Frame
    BY <1>9, <2>2, ChainTypes, BudgetTypes DEF ChainMove, SaveRefund, TypeOK, app
  <2> QED
    BY <2>1, <2>3 DEF FireWrites, TypeOK
<1>10. CASE Decide(o, k)
  <2>1. FireWrites(o, k)
    BY <1>1, <1>3, <1>10, FireStepWrites, EndFireWrites DEF Decide
  <2>2. Frame
    BY <1>10, ChainTypes DEF ChainMove, Decide, TypeOK, app, budget
  <2> QED
    BY <2>1, <2>2 DEF FireWrites, TypeOK
<1>11. CASE SwipeGoesOut(o, k)
  <2>1. FireWrites(o, k)
    BY <1>1, <1>3, <1>11, FireStepWrites, EndFireWrites DEF SwipeGoesOut
  <2>2. Frame
    BY <1>11, ChainTypes, BudgetTypes DEF ChainMove, SwipeGoesOut, TypeOK, app
  <2> QED
    BY <2>1, <2>2 DEF FireWrites, TypeOK
<1>12. CASE SwipeRefused(o, k)
  <2>1. FireWrites(o, k)
    BY <1>1, <1>3, <1>12, FireStepWrites DEF SwipeRefused
  <2>2. Frame
    BY <1>12, ChainTypes, BudgetTypes DEF ChainMove, SwipeRefused, TypeOK, app
  <2> QED
    BY <2>1, <2>2 DEF FireWrites, TypeOK
<1> QED
  BY <1>4, <1>5, <1>6, <1>7, <1>8, <1>9, <1>10, <1>11, <1>12 DEF FireNext

\* A swipe watcher that plans its instant stays well formed (swipe_plan).
LEMMA PlanSwipeTypes ==
    ASSUME TypeOK, NEW o \in Origin, PlanSwipe(o)
    PROVE  TypeOK'
<1>1. "swipe" \in Kind /\ "armed" \in FirePc /\ fire[o]["swipe"] \in FireTask
  BY DEF Kind, FirePc, TypeOK
<1>2. FireWrites(o, "swipe")
  BY <1>1, FireStepWrites, FireTaskUpdates, RestTypes DEF PlanSwipe
<1> QED
  BY <1>2, ChainTypes DEF ChainMove, PlanSwipe, FireWrites, TypeOK, app, budget

\* A change of a reclaim watch's position, snapshot or ruling is a well-formed watch again.
LEMMA ReclTaskUpdates ==
    ASSUME NEW t \in ReclTask, NEW pc \in ReclPc, NEW r \in Record
    PROVE  /\ [t EXCEPT !.pc = pc] \in ReclTask
           /\ [t EXCEPT !.pc = pc, !.snap = r] \in ReclTask
           /\ [t EXCEPT !.pc = pc, !.ruledOut = TRUE, !.flag = t.flag] \in ReclTask
           /\ [IdleRecl EXCEPT !.pc = pc, !.ruledOut = TRUE, !.flag = t.flag] \in ReclTask
  BY RestTypes DEF ReclTask

LEMMA ReclStepWrites ==
    ASSUME TypeOK, NEW o \in Origin, NEW t \in ReclTask, ReclStep(o, t)
    PROVE  recl' \in [Origin -> ReclTask]
  BY DEF TypeOK, ReclStep

\* The steps of a reclaim watch keep every variable well formed (reclaim.rs: what
\* attempt_reclaim writes).
LEMMA ReclTypes ==
    ASSUME TypeOK, NEW o \in Origin, ReclNext(o)
    PROVE  TypeOK'
<1>1. recl[o] \in ReclTask /\ rec \in Record
  BY DEF TypeOK
<1>2. {"watching", "asked", "extracting", "reclaiming", "saving"} \subseteq ReclPc
  BY DEF ReclPc
<1>3. ReclRetry(o) => recl' \in [Origin -> ReclTask]
  BY <1>1, <1>2, ReclStepWrites, ReclTaskUpdates, RestTypes DEF ReclRetry
<1> DEFINE Frame == /\ ChainTypeOK' /\ rec' \in Record
                    /\ faults' \in 0..MaxFaults /\ crashes' \in 0..MaxCrashes
                    /\ polls' \in 0..MaxPolls
                    /\ UNCHANGED <<alive, booting, reg, raised, fire, ui>>
<1>4. CASE ReclStops(o)
  <2>1. recl' \in [Origin -> ReclTask]
    BY <1>4, ReclStepWrites, RestTypes DEF ReclStops
  <2>2. Frame
    BY <1>4, ChainTypes DEF ChainMove, ReclStops, ReclRest, TypeOK, app, budget
  <2> QED
    BY <2>1, <2>2 DEF TypeOK
<1>5. CASE SeesSpend(o)
  <2>1. recl' \in [Origin -> ReclTask]
    BY <1>1, <1>2, <1>5, ReclStepWrites, ReclTaskUpdates, RestTypes DEF SeesSpend
  <2>2. Frame
    BY <1>5, ChainTypes DEF ChainMove, SeesSpend, ReclRest, TypeOK, app, budget
  <2> QED
    BY <2>1, <2>2 DEF TypeOK
<1>6. CASE Extract(o)
  <2>1. recl' \in [Origin -> ReclTask]
    <3>1. CASE ReclRetry(o)
      BY <1>3, <3>1
    <3>2. CASE ReclStep(o, [recl[o] EXCEPT !.pc = "reclaiming"])
      BY <1>1, <1>2, <3>2, ReclStepWrites, ReclTaskUpdates
    <3>3. CASE ReclStep(o, [IdleRecl EXCEPT !.pc = "watching", !.ruledOut = TRUE,
                                            !.flag = recl[o].flag])
      BY <1>1, <1>2, <3>3, ReclStepWrites, ReclTaskUpdates
    <3>4. CASE ReclStep(o, IdleRecl)
      BY <3>4, ReclStepWrites, RestTypes
    <3> QED
      BY <1>6, <3>1, <3>2, <3>3, <3>4 DEF Extract
  <2>2. Frame
    BY <1>6, ChainTypes, BudgetTypes DEF ChainMove, Extract, ReclRest, TypeOK, app
  <2> QED
    BY <2>1, <2>2 DEF TypeOK
<1>7. CASE ReclaimGoesOut(o)
  <2>1. recl' \in [Origin -> ReclTask]
    BY <1>1, <1>2, <1>3, <1>7, ReclStepWrites, ReclTaskUpdates DEF ReclaimGoesOut
  <2>2. Frame
    BY <1>7, ChainTypes, BudgetTypes DEF ChainMove, ReclaimGoesOut, ReclRest, TypeOK, app
  <2> QED
    BY <2>1, <2>2 DEF TypeOK
<1>8. CASE ReclaimRefused(o)
  <2>1. recl' \in [Origin -> ReclTask]
    BY <1>3, <1>8 DEF ReclaimRefused
  <2>2. Frame
    BY <1>8, ChainTypes, BudgetTypes DEF ChainMove, ReclaimRefused, ReclRest, TypeOK, app
  <2> QED
    BY <2>1, <2>2 DEF TypeOK
<1>9. CASE SaveReclaim(o)
  <2>1. recl' \in [Origin -> ReclTask]
    BY <1>3, <1>9, ReclStepWrites, RestTypes DEF SaveReclaim
  <2>2. \A r \in Record :
           [r EXCEPT !.reclaimed = TRUE, !.state = "A_REFUNDED", !.present = TRUE] \in Record
    BY DEF Record, State, Terminal
  <2>3. rec' \in Record
    BY <1>1, <1>9, <2>2 DEF SaveReclaim, Save, ReclTask, TypeOK
  <2>4. Frame
    BY <1>9, <2>3, ChainTypes, BudgetTypes DEF ChainMove, SaveReclaim, ReclRest, TypeOK, app
  <2> QED
    BY <2>1, <2>4 DEF TypeOK
<1>10. CASE ReclPolls(o)
  <2>1. recl' \in [Origin -> ReclTask]
    BY <1>1, <1>2, <1>10, ReclStepWrites, ReclTaskUpdates DEF ReclPolls
  <2>2. Frame
    BY <1>10, ChainTypes DEF ChainMove, ReclPolls, ReclRest, TypeOK, app, budget
  <2> QED
    BY <2>1, <2>2 DEF TypeOK
<1> QED
  BY <1>4, <1>5, <1>6, <1>7, <1>8, <1>9, <1>10 DEF ReclNext

\* The tracker's commands keep every variable well formed, whatever the desk answers
\* (commands.rs: desk_status mirrors the word into the record).
LEMMA UiTypes ==
    ASSUME TypeOK, UiNext
    PROVE  TypeOK'
<1> DEFINE Frame == /\ ChainTypeOK'
                    /\ faults' \in 0..MaxFaults /\ crashes' \in 0..MaxCrashes
                    /\ polls' \in 0..MaxPolls
                    /\ UNCHANGED <<alive, booting, reg, fire, recl>>
<1>1. ui \in Ui /\ rec \in Record
  BY DEF TypeOK
<1>2. CASE StatusAsks
  <2>1. \A w \in State, t \in BOOLEAN :
           [IdleUi EXCEPT !.pc = "asked", !.word = w, !.txid = t] \in Ui
    BY RestTypes DEF Ui, UiPc
  <2>2. Word \subseteq State
    BY DEF Word, HonestWord, State, Terminal, TypeOK, ChainTypeOK, LegA, LegB
  <2>3. PICK w \in Word, t \in BOOLEAN :
           ui' = [IdleUi EXCEPT !.pc = "asked", !.word = w, !.txid = t]
    BY <1>2, Zenon DEF StatusAsks
  <2>5. ui' \in Ui
    BY <2>1, <2>2, <2>3
  <2>4. Frame
    BY <1>2, ChainTypes, BudgetTypes DEF ChainMove, StatusAsks, TypeOK, app, tasks
  <2> QED
    BY <1>2, <2>4, <2>5 DEF StatusAsks, TypeOK, tasks
<1>3. CASE StatusAnswered
  <2>1. ui.word \in State /\ ui.txid \in BOOLEAN
    BY <1>1 DEF Ui
  <2>2. [rec EXCEPT !.state = ui.word, !.locked = @ \/ ui.txid] \in Record
    BY <1>1, <2>1 DEF Record
  <2>3. [ui EXCEPT !.pc = "mirroring",
                   !.snap = [rec EXCEPT !.state = ui.word, !.locked = @ \/ ui.txid]] \in Ui
    BY <1>1, <2>2 DEF Ui, UiPc
  <2>4. ui' \in Ui /\ rec' \in Record
    BY <1>1, <1>3, <2>3, RestTypes DEF StatusAnswered
  <2>5. raised' \subseteq Origin
    BY <1>3 DEF StatusAnswered, Raise, TypeOK
  <2>6. Frame
    BY <1>3, ChainTypes DEF ChainMove, StatusAnswered, TypeOK, app, budget
  <2> QED
    BY <2>4, <2>5, <2>6 DEF TypeOK
<1>4. CASE StatusMirrored
  <2>1. [ui.snap EXCEPT !.present = TRUE] \in Record
    BY <1>1 DEF Ui, Record
  <2>2. ui' \in Ui /\ rec' \in Record
    BY <1>1, <1>4, <2>1, RestTypes DEF StatusMirrored, Save
  <2>3. Frame
    BY <1>4, ChainTypes, BudgetTypes DEF ChainMove, StatusMirrored, TypeOK, app, tasks
  <2> QED
    BY <1>4, <2>2, <2>3 DEF StatusMirrored, TypeOK, tasks
<1>5. CASE DeskAborts
  <2>1. Frame
    BY <1>5, ChainTypes, BudgetTypes DEF ChainMove, DeskAborts, TypeOK, app, tasks
  <2> QED
    BY <1>5, <2>1, RestTypes DEF DeskAborts, TypeOK, tasks
<1> QED
  BY <1>2, <1>3, <1>4, <1>5 DEF UiNext

\* Spawning the watchers keeps the registry and the tasks well formed (register returns the
\* flag already there or a new one).
LEMMA SpawnTypes ==
    ASSUME TypeOK, NEW o \in Origin, Spawn(o)
    PROVE  /\ reg' \in Origin \cup {NoFlag}
           /\ fire' \in [Origin -> [Kind -> FireTask]]
           /\ recl' \in [Origin -> ReclTask]
<1>1. Flag(o) \in Origin \cup {NoFlag}
  BY DEF Flag, TypeOK
<1> QED
  BY <1>1, RestTypes DEF TypeOK, Spawn, FireTask, FirePc, ReclTask, ReclPc, IdleFire, IdleRecl

\* Every step of the net and of the world around it keeps every variable well formed.
LEMMA StepTypes ==
    ASSUME TypeOK, Next
    PROVE  TypeOK'
<1>1. CASE Outside
  BY <1>1, ChainTypes
  DEF ChainMove, Outside, DeskReleases, DeskRedeems, DeskRecovers, TypeOK, app, tasks, budget
<1>2. CASE DeskFunds
  BY <1>2, ChainTypes DEF ChainMove, DeskFunds, DeskLocks, TypeOK, app, tasks, budget
<1>3. CASE UiNext
  BY <1>3, UiTypes
<1>4. CASE Launch
  BY <1>4, ChainTypes DEF ChainMove, Launch, TypeOK, tasks, budget
<1>5. CASE Rehydrate
  <2>1. "boot" \in Origin
    BY DEF Origin
  <2> QED
    BY <1>5, <2>1, SpawnTypes, ChainTypes DEF ChainMove, Rehydrate, TypeOK, budget
<1>6. CASE \E o \in Origin : TaskNext(o)
  BY <1>6, FireTypes, PlanSwipeTypes, ReclTypes DEF TaskNext
<1>7. CASE Crash
  <2>1. crashes' \in 0..MaxCrashes
    BY <1>7, BoundAssumption DEF Crash, TypeOK
  <2>2. reg' \in Origin \cup {NoFlag} /\ raised' \subseteq Origin
    BY <1>7 DEF Crash
  <2> QED
    BY <1>7, <2>1, <2>2, RestTypes, ChainTypes DEF ChainMove, Crash, TypeOK
<1> QED
  BY <1>1, <1>2, <1>3, <1>4, <1>5, <1>6, <1>7 DEF Next, NetNext

\* Every variable of the recovery net always has its type, for every advertised T1, every
\* desk and every bound (the code's structs, and Raise's guard on a missing flag).
THEOREM TypeCorrect == Spec => []TypeOK
<1>1. Init => TypeOK
  <2> SUFFICES ASSUME Init PROVE TypeOK
    OBVIOUS
  <2>1. ChainTypeOK
    BY DEF Init, ChainTypeOK, LegA, LegB
  <2>2. rec \in Record
    <3>1. \A t \in BOOLEAN, w \in {"A_LOCKED", "B_LOCKED"} :
             [NoRecord EXCEPT !.present = TRUE, !.locked = TRUE, !.presig = TRUE, !.t2 = t,
                              !.state = w] \in Record
      BY RestTypes DEF Record, State
    <3> QED
      BY <3>1 DEF Init
  <2>3. faults \in 0..MaxFaults /\ crashes \in 0..MaxCrashes /\ polls \in 0..MaxPolls
    BY BoundAssumption DEF Init
  <2>4. reg \in Origin \cup {NoFlag} /\ raised \subseteq Origin
    BY DEF Init
  <2> QED
    BY <2>1, <2>2, <2>3, <2>4, RestTypes DEF Init, TypeOK
<1>2. TypeOK /\ UNCHANGED recoveryVars => TypeOK'
  BY DEF TypeOK, ChainTypeOK, recoveryVars, chain, app, tasks, budget
<1> QED
  BY <1>1, <1>2, StepTypes, PTL DEF Spec
-----------------------------------------------------------------------------
\* What a copy of the record, or a task that holds one, may say when the legs are a and b.
RecordTrue(r, a, b) == /\ r.refunded  => a = "refunded"
                       /\ r.reclaimed => b = "reclaimed"
FireTrue(t, a, b)   == RecordTrue(t.snap, a, b) /\ (t.pc = "saving" => a = "refunded")
ReclTrue(t, a, b)   == RecordTrue(t.snap, a, b) /\ (t.pc = "saving" => b = "reclaimed")

\* The strengthening of RecoveredOnlyOnChain: every copy of the record that some task may
\* still save is as true as the record, and a task about to record a recovery made it.
RecoveryInv == /\ RecordTrue(rec, legA, legB) /\ RecordTrue(ui.snap, legA, legB)
               /\ \A o \in Origin, k \in Kind : FireTrue(fire[o][k], legA, legB)
               /\ \A o \in Origin : ReclTrue(recl[o], legA, legB)

\* A recovery on chain is final.
Final == /\ legA = "refunded"  => legA' = "refunded"
         /\ legB = "reclaimed" => legB' = "reclaimed"

LEMMA ChainFinal ==
    ASSUME ChainMove
    PROVE  Final
  BY DEF ChainMove, Final, Tick, LockA, LockB, ClaimA, RefundA, SwipeA, SweepB, ReclaimB,
         ReleaseSig,
     CanClaimA, CanRefundA, CanSwipeA, CanSweepB, CanReclaimB, chain

\* So what was true of a copy stays true of it.
LEMMA StaysTrue ==
    ASSUME Final, NEW r, RecordTrue(r, legA, legB)
    PROVE  RecordTrue(r, legA', legB')
  BY DEF Final, RecordTrue

LEMMA FireStaysTrue ==
    ASSUME Final, NEW t, FireTrue(t, legA, legB)
    PROVE  FireTrue(t, legA', legB')
  BY DEF Final, RecordTrue, FireTrue

LEMMA ReclStaysTrue ==
    ASSUME Final, NEW t, ReclTrue(t, legA, legB)
    PROVE  ReclTrue(t, legA', legB')
  BY DEF Final, RecordTrue, ReclTrue

\* The resting values claim nothing.
LEMMA RestTrue ==
    ASSUME NEW a, NEW b
    PROVE  /\ RecordTrue(NoRecord, a, b) /\ RecordTrue(IdleUi.snap, a, b)
           /\ FireTrue(IdleFire, a, b) /\ ReclTrue(IdleRecl, a, b)
           /\ \A o \in Origin, k \in Kind : FireTrue(NoFires[o][k], a, b)
           /\ \A o \in Origin : ReclTrue(NoRecls[o], a, b)
  BY DEF RecordTrue, FireTrue, ReclTrue, NoRecord, IdleFire, IdleRecl, IdleUi, NoFires, NoRecls

\* A step of one watcher that leaves its own task true leaves all of them true.
FiresTrue == \A o \in Origin, k \in Kind : FireTrue(fire'[o][k], legA', legB')

LEMMA FireStepTrue ==
    ASSUME TypeOK, RecoveryInv, Final, NEW o \in Origin, NEW k \in Kind, NEW t,
           FireStep(o, k, t), FireTrue(t, legA', legB')
    PROVE  FiresTrue
<1>1. \A p \in Origin, j \in Kind : FireTrue(fire[p][j], legA', legB')
  BY FireStaysTrue DEF RecoveryInv
<1>2. \A p \in Origin, j \in Kind :
         fire'[p][j] = IF p = o /\ j = k THEN t ELSE fire[p][j]
  BY DEF FireStep, TypeOK
<1> QED
  BY <1>1, <1>2 DEF FiresTrue

LEMMA EndFireTrue ==
    ASSUME TypeOK, RecoveryInv, Final, NEW o \in Origin, NEW k \in Kind, EndFire(o, k)
    PROVE  FiresTrue
  BY RestTrue, FireStepTrue DEF EndFire

\* A position other than "saving" says no more than the copy.
LEMMA FireMoveTrue ==
    ASSUME NEW t \in FireTask, NEW a, NEW b, FireTrue(t, a, b), NEW pc \in FirePc \ {"saving"}
    PROVE  /\ FireTrue([t EXCEPT !.pc = pc], a, b)
           /\ \A r : RecordTrue(r, a, b) => FireTrue([t EXCEPT !.pc = pc, !.snap = r], a, b)
           /\ FireTrue([t EXCEPT !.last = TRUE], a, b)
  BY DEF FireTask, FireTrue

LEMMA BeginRefundTrue ==
    ASSUME TypeOK, RecoveryInv, Final, NEW o \in Origin, NEW k \in Kind, NEW t \in FireTask,
           FireTrue(t, legA', legB'), BeginRefund(o, k, t)
    PROVE  FiresTrue
<1>1. {"deciding", "refunding"} \subseteq FirePc \ {"saving"}
  BY DEF FirePc
<1>2. RecordTrue(rec, legA', legB')
  BY StaysTrue DEF RecoveryInv
<1>3. CASE EndFire(o, k)
  BY <1>3, EndFireTrue
<1>4. CASE FireStep(o, k, [t EXCEPT !.pc = "deciding"])
  BY <1>1, <1>4, FireMoveTrue, FireStepTrue
<1>5. CASE FireStep(o, k, [t EXCEPT !.pc = "refunding", !.snap = rec])
  <2>1. FireTrue([t EXCEPT !.pc = "refunding", !.snap = rec], legA', legB')
    BY <1>1, <1>2, FireMoveTrue
  <2> QED
    BY <1>5, <2>1, FireStepTrue
<1> QED
  BY <1>3, <1>4, <1>5 DEF BeginRefund

LEMMA RefundFailedTrue ==
    ASSUME TypeOK, RecoveryInv, Final, NEW o \in Origin, NEW k \in Kind, RefundFailed(o, k)
    PROVE  FiresTrue
<1>1. "deciding" \in FirePc \ {"saving"} /\ fire[o][k] \in FireTask
  BY DEF FirePc, TypeOK
<1>2. FireTrue(fire[o][k], legA', legB')
  BY FireStaysTrue DEF RecoveryInv
<1>3. CASE EndFire(o, k)
  BY <1>3, EndFireTrue
<1>4. CASE FireStep(o, k, [fire[o][k] EXCEPT !.pc = "deciding", !.snap = NoRecord])
  <2>1. FireTrue([fire[o][k] EXCEPT !.pc = "deciding", !.snap = NoRecord], legA', legB')
    BY <1>1, <1>2, RestTrue, FireMoveTrue
  <2> QED
    BY <1>4, <2>1, FireStepTrue
<1> QED
  BY <1>3, <1>4 DEF RefundFailed

\* The refund and swipe watchers keep every copy true (execute_refund saves only after the
\* engine returned a txid).
LEMMA FireKeepsTrue ==
    ASSUME TypeOK, RecoveryInv, NEW o \in Origin, NEW k \in Kind, FireNext(o, k)
    PROVE  RecoveryInv'
<1> DEFINE t == fire[o][k]
           Others == UNCHANGED <<recl, ui>>
<1>1. /\ {"deciding", "refunding", "swiping", "retrying"} \subseteq FirePc \ {"saving"}
      /\ t \in FireTask
  BY DEF FirePc, TypeOK
<1>2. SUFFICES ASSUME Final
               PROVE  FiresTrue /\ Others /\ RecordTrue(rec', legA', legB')
  <2>1. Final
    BY ChainFinal DEF FireNext, StandDown, Fires, RetryRefund, RefundGoesOut, RefundRefused,
       SaveRefund, Decide, SwipeGoesOut, SwipeRefused, ChainMove
  <2>2. RecordTrue(ui.snap, legA', legB') /\ \A p \in Origin : ReclTrue(recl[p], legA', legB')
    BY <2>1, StaysTrue, ReclStaysTrue DEF RecoveryInv
  <2> QED
    BY <2>1, <2>2 DEF RecoveryInv, FiresTrue
<1>3. FireTrue(t, legA', legB') /\ RecordTrue(rec, legA', legB')
  BY <1>2, FireStaysTrue, StaysTrue DEF RecoveryInv
<1>4. CASE StandDown(o, k)
  BY <1>2, <1>3, <1>4, EndFireTrue DEF StandDown
<1>5. CASE Fires(o, k)
  BY <1>1, <1>2, <1>3, <1>5, BeginRefundTrue DEF Fires
<1>6. CASE RetryRefund(o, k)
  <2>1. FireTrue([t EXCEPT !.last = TRUE], legA', legB') /\ [t EXCEPT !.last = TRUE] \in FireTask
    BY <1>1, <1>3, FireMoveTrue, FireTaskUpdates, RestTypes
  <2> QED
    BY <1>2, <1>3, <1>6, <2>1, BeginRefundTrue DEF RetryRefund
<1>7. CASE RefundGoesOut(o, k)
  <2>1. legA' = "refunded"
    BY <1>7 DEF RefundGoesOut, RefundA
  <2>2. FireTrue([t EXCEPT !.pc = "saving"], legA', legB')
    BY <1>1, <1>3, <2>1 DEF FireTrue, FireTask
  <2> QED
    BY <1>2, <1>3, <1>7, <2>2, FireStepTrue, RefundFailedTrue DEF RefundGoesOut
<1>8. CASE RefundRefused(o, k)
  BY <1>2, <1>3, <1>8, RefundFailedTrue DEF RefundRefused
<1>9. CASE SaveRefund(o, k)
  <2>1. FiresTrue
    BY <1>2, <1>9, EndFireTrue, RefundFailedTrue DEF SaveRefund
  <2>2. legA' = "refunded" /\ RecordTrue(t.snap, legA', legB') /\ t.snap \in Record
    BY <1>1, <1>3, <1>9 DEF SaveRefund, FireTrue, FireTask
  <2>3. RecordTrue([[t.snap EXCEPT !.refunded = TRUE, !.state = "A_REFUNDED"]
                       EXCEPT !.present = TRUE], legA', legB')
    BY <2>2 DEF RecordTrue, Record
  <2>4. RecordTrue(rec', legA', legB')
    BY <1>3, <1>9, <2>3 DEF SaveRefund, Save
  <2> QED
    BY <1>9, <2>1, <2>4 DEF SaveRefund
<1>10. CASE Decide(o, k)
  BY <1>1, <1>2, <1>3, <1>10, FireMoveTrue, FireStepTrue, EndFireTrue DEF Decide
<1>11. CASE SwipeGoesOut(o, k)
  BY <1>1, <1>2, <1>3, <1>11, FireMoveTrue, FireStepTrue, EndFireTrue DEF SwipeGoesOut
<1>12. CASE SwipeRefused(o, k)
  BY <1>1, <1>2, <1>3, <1>12, FireMoveTrue, FireStepTrue DEF SwipeRefused
<1> QED
  BY <1>4, <1>5, <1>6, <1>7, <1>8, <1>9, <1>10, <1>11, <1>12 DEF FireNext

LEMMA PlanKeepsTrue ==
    ASSUME TypeOK, RecoveryInv, NEW o \in Origin, PlanSwipe(o)
    PROVE  RecoveryInv'
<1>1. Final
  BY DEF PlanSwipe, Final, chain
<1>2. "swipe" \in Kind /\ "armed" \in FirePc \ {"saving"} /\ fire[o]["swipe"] \in FireTask
  BY DEF Kind, FirePc, TypeOK
<1>3. FireTrue(fire[o]["swipe"], legA', legB')
  BY <1>1, <1>2, FireStaysTrue DEF RecoveryInv
<1>4. FiresTrue
  BY <1>1, <1>2, <1>3, FireMoveTrue, FireStepTrue, RestTrue DEF PlanSwipe
<1>5. /\ RecordTrue(rec, legA', legB') /\ RecordTrue(ui.snap, legA', legB')
      /\ \A p \in Origin : ReclTrue(recl[p], legA', legB')
  BY <1>1, StaysTrue, ReclStaysTrue DEF RecoveryInv
<1> QED
  BY <1>4, <1>5 DEF PlanSwipe, RecoveryInv, FiresTrue

\* A step of one reclaim watch that leaves its own task true leaves all of them true.
LEMMA ReclStepTrue ==
    ASSUME TypeOK, RecoveryInv, Final, NEW o \in Origin, NEW t,
           ReclStep(o, t), ReclTrue(t, legA', legB')
    PROVE  \A p \in Origin : ReclTrue(recl'[p], legA', legB')
<1>1. \A p \in Origin : ReclTrue(recl[p], legA', legB')
  BY ReclStaysTrue DEF RecoveryInv
<1>2. \A p \in Origin : recl'[p] = IF p = o THEN t ELSE recl[p]
  BY DEF ReclStep, TypeOK
<1> QED
  BY <1>1, <1>2

LEMMA ReclMoveTrue ==
    ASSUME NEW t \in ReclTask, NEW a, NEW b, ReclTrue(t, a, b), NEW pc \in ReclPc \ {"saving"},
           NEW r, RecordTrue(r, a, b)
    PROVE  /\ ReclTrue([t EXCEPT !.pc = pc], a, b)
           /\ ReclTrue([t EXCEPT !.pc = pc, !.snap = r], a, b)
           /\ ReclTrue([IdleRecl EXCEPT !.pc = pc, !.ruledOut = TRUE, !.flag = t.flag], a, b)
<1>1. IdleRecl \in ReclTask /\ IdleRecl.snap = NoRecord
  BY RestTypes DEF IdleRecl
<1>2. /\ [t EXCEPT !.pc = pc].pc = pc /\ [t EXCEPT !.pc = pc].snap = t.snap
      /\ [t EXCEPT !.pc = pc, !.snap = r].pc = pc /\ [t EXCEPT !.pc = pc, !.snap = r].snap = r
  BY DEF ReclTask
<1>3. LET u == [IdleRecl EXCEPT !.pc = pc, !.ruledOut = TRUE, !.flag = t.flag]
      IN  u.pc = pc /\ u.snap = NoRecord
  BY <1>1 DEF ReclTask
<1> QED
  BY <1>2, <1>3, RestTrue DEF ReclTrue

\* The reclaim watches keep every copy true (attempt_reclaim saves only after the engine
\* returned a txid).
LEMMA ReclKeepsTrue ==
    ASSUME TypeOK, RecoveryInv, NEW o \in Origin, ReclNext(o)
    PROVE  RecoveryInv'
<1> DEFINE t == recl[o]
           Recls == \A p \in Origin : ReclTrue(recl'[p], legA', legB')
<1>1. /\ {"watching", "asked", "extracting", "reclaiming"} \subseteq ReclPc \ {"saving"}
      /\ t \in ReclTask
  BY DEF ReclPc, TypeOK
<1>2. SUFFICES ASSUME Final
               PROVE  Recls /\ UNCHANGED <<fire, ui>> /\ RecordTrue(rec', legA', legB')
  <2>1. Final
    BY ChainFinal DEF ReclNext, ReclPolls, ReclStops, SeesSpend, Extract, ReclaimGoesOut,
       ReclaimRefused, SaveReclaim, ChainMove
  <2>2. /\ RecordTrue(ui.snap, legA', legB')
        /\ \A p \in Origin, k \in Kind : FireTrue(fire[p][k], legA', legB')
    BY <2>1, StaysTrue, FireStaysTrue DEF RecoveryInv
  <2> QED
    BY <2>1, <2>2 DEF RecoveryInv
<1>3. /\ ReclTrue(t, legA', legB')
      /\ RecordTrue(rec, legA', legB') /\ RecordTrue(NoRecord, legA', legB')
  BY <1>2, ReclStaysTrue, StaysTrue, RestTrue DEF RecoveryInv
<1>4. ReclRetry(o) => Recls
  <2>1. ReclTrue([t EXCEPT !.pc = "watching", !.snap = NoRecord], legA', legB')
    BY <1>1, <1>3, ReclMoveTrue
  <2> QED
    BY <1>2, <2>1, ReclStepTrue DEF ReclRetry
<1>5. CASE ReclStops(o)
  BY <1>2, <1>3, <1>5, RestTrue, ReclStepTrue DEF ReclStops, ReclRest
<1>6. CASE SeesSpend(o)
  <2>1. ReclTrue([t EXCEPT !.pc = "extracting", !.snap = rec], legA', legB')
    BY <1>1, <1>3, ReclMoveTrue
  <2>2. CASE ReclStep(o, IdleRecl)
    BY <1>2, <1>3, <1>6, <2>2, RestTrue, ReclStepTrue DEF SeesSpend, ReclRest
  <2>3. CASE ReclStep(o, [t EXCEPT !.pc = "extracting", !.snap = rec])
    BY <1>2, <1>3, <1>6, <2>1, <2>3, ReclStepTrue DEF SeesSpend, ReclRest
  <2> QED
    BY <1>6, <2>2, <2>3 DEF SeesSpend
<1>7. CASE Extract(o)
  <2>1. ReclTrue([t EXCEPT !.pc = "reclaiming"], legA', legB')
    BY <1>1, <1>3, ReclMoveTrue
  <2>2. ReclTrue([IdleRecl EXCEPT !.pc = "watching", !.ruledOut = TRUE, !.flag = t.flag],
                 legA', legB')
    BY <1>1, <1>3, ReclMoveTrue
  <2>3. Recls
    <3>1. CASE ReclStep(o, [t EXCEPT !.pc = "reclaiming"])
      BY <1>2, <2>1, <3>1, ReclStepTrue
    <3>2. CASE ReclStep(o, [IdleRecl EXCEPT !.pc = "watching", !.ruledOut = TRUE, !.flag = t.flag])
      BY <1>2, <2>2, <3>2, ReclStepTrue
    <3>3. CASE ReclStep(o, IdleRecl)
      BY <1>2, <3>3, RestTrue, ReclStepTrue
    <3> QED
      BY <1>4, <1>7, <3>1, <3>2, <3>3 DEF Extract
  <2> QED
    BY <1>3, <1>7, <2>3 DEF Extract, ReclRest
<1>8. CASE ReclaimGoesOut(o)
  <2>1. legB' = "reclaimed"
    BY <1>8 DEF ReclaimGoesOut, ReclaimB
  <2>2. ReclTrue([t EXCEPT !.pc = "saving"], legA', legB')
    BY <1>1, <1>3, <2>1 DEF ReclTrue, ReclTask
  <2> QED
    BY <1>2, <1>3, <1>4, <1>8, <2>2, ReclStepTrue DEF ReclaimGoesOut, ReclRest
<1>9. CASE ReclaimRefused(o)
  BY <1>3, <1>4, <1>9 DEF ReclaimRefused, ReclRest
<1>10. CASE SaveReclaim(o)
  <2>1. Recls
    BY <1>2, <1>4, <1>10, RestTrue, ReclStepTrue DEF SaveReclaim
  <2>2. legB' = "reclaimed" /\ RecordTrue(t.snap, legA', legB') /\ t.snap \in Record
    BY <1>1, <1>3, <1>10 DEF SaveReclaim, ReclTrue, ReclTask
  <2>3. RecordTrue([[t.snap EXCEPT !.reclaimed = TRUE, !.state = "A_REFUNDED"]
                       EXCEPT !.present = TRUE], legA', legB')
    BY <2>2 DEF RecordTrue, Record
  <2>4. RecordTrue(rec', legA', legB')
    BY <1>3, <1>10, <2>3 DEF SaveReclaim, Save
  <2> QED
    BY <1>10, <2>1, <2>4 DEF SaveReclaim, ReclRest
<1>11. CASE ReclPolls(o)
  <2>1. ReclTrue([t EXCEPT !.pc = "asked"], legA', legB')
    BY <1>1, <1>3, ReclMoveTrue
  <2> QED
    BY <1>2, <1>3, <1>11, <2>1, ReclStepTrue DEF ReclPolls, ReclRest
<1> QED
  BY <1>5, <1>6, <1>7, <1>8, <1>9, <1>10, <1>11 DEF ReclNext

\* The tracker's commands keep every copy true: they copy the record, change its state word
\* and its lock, and claim no recovery (desk_status).
LEMMA UiKeepsTrue ==
    ASSUME TypeOK, RecoveryInv, UiNext
    PROVE  RecoveryInv'
<1>1. SUFFICES RecordTrue(rec', legA, legB) /\ RecordTrue(ui'.snap, legA, legB)
  BY DEF RecoveryInv, UiNext, StatusAsks, StatusAnswered, StatusMirrored, DeskAborts, chain, tasks
<1>2. RecordTrue(rec, legA, legB) /\ RecordTrue(ui.snap, legA, legB) /\ rec \in Record /\ ui \in Ui
  BY DEF RecoveryInv, TypeOK
<1>3. CASE StatusAsks
  <2>1. PICK w \in Word, x \in BOOLEAN :
           ui' = [IdleUi EXCEPT !.pc = "asked", !.word = w, !.txid = x]
    BY <1>3, Zenon DEF StatusAsks
  <2>2. ui'.snap = NoRecord
    BY <2>1 DEF IdleUi
  <2> QED
    BY <1>2, <1>3, <2>2, RestTrue DEF StatusAsks
<1>4. CASE StatusAnswered
  <2> DEFINE r == [rec EXCEPT !.state = ui.word, !.locked = @ \/ ui.txid]
  <2>1. RecordTrue(r, legA, legB)
    BY <1>2 DEF RecordTrue, Record
  <2>2. [ui EXCEPT !.pc = "mirroring", !.snap = r].snap = r
    BY <1>2 DEF Ui
  <2>3. rec' \in {rec, NoRecord}
    BY <1>4 DEF StatusAnswered
  <2>4. ui' \in {IdleUi, [ui EXCEPT !.pc = "mirroring", !.snap = r]}
    BY <1>4 DEF StatusAnswered
  <2> HIDE DEF r
  <2>5. RecordTrue(rec', legA, legB)
    BY <1>2, <2>3, RestTrue
  <2>6. CASE ui' = IdleUi
    <3>1. ui'.snap = NoRecord
      BY <2>6 DEF IdleUi
    <3> QED
      BY <2>5, <3>1, RestTrue
  <2>7. CASE ui' = [ui EXCEPT !.pc = "mirroring", !.snap = r]
    <3>1. ui'.snap = r
      BY <2>2, <2>7
    <3> QED
      BY <2>1, <2>5, <3>1
  <2> QED
    BY <2>4, <2>6, <2>7
<1>5. CASE StatusMirrored
  <2>1. RecordTrue([ui.snap EXCEPT !.present = TRUE], legA, legB)
    BY <1>2 DEF RecordTrue, Record, Ui
  <2> QED
    BY <1>2, <1>5, <2>1, RestTrue DEF StatusMirrored, Save
<1>6. CASE DeskAborts
  BY <1>2, <1>6, RestTrue DEF DeskAborts
<1> QED
  BY <1>3, <1>4, <1>5, <1>6 DEF UiNext

\* Freshly spawned watchers hold no copy and claim nothing (spawn_recovery_watchers).
LEMMA SpawnTrue ==
    ASSUME TypeOK, RecoveryInv, NEW o \in Origin, Spawn(o), UNCHANGED <<chain, rec, ui>>
    PROVE  RecoveryInv'
<1>1. /\ \A k \in Kind : FireTrue(fire'[o][k], legA, legB)
      /\ ReclTrue(recl'[o], legA, legB)
  BY RestTrue DEF Spawn, TypeOK, IdleFire, IdleRecl, FireTrue, ReclTrue
<1>2. \A p \in Origin \ {o} : fire'[p] = fire[p] /\ recl'[p] = recl[p]
  BY DEF Spawn, TypeOK
<1> QED
  BY <1>1, <1>2 DEF RecoveryInv, chain

\* Every step of the net and of the world around it keeps every copy true.
LEMMA StepKeepsTrue ==
    ASSUME TypeOK, RecoveryInv, Next
    PROVE  RecoveryInv'
<1>1. ASSUME Final, UNCHANGED <<rec, fire, recl, ui>>
      PROVE  RecoveryInv'
  BY <1>1, StaysTrue, FireStaysTrue, ReclStaysTrue DEF RecoveryInv
<1>2. CASE Outside
  BY <1>1, <1>2, ChainFinal DEF Outside, DeskReleases, DeskRedeems, DeskRecovers, ChainMove, tasks
<1>3. CASE DeskFunds
  BY <1>1, <1>3, ChainFinal DEF DeskFunds, DeskLocks, ChainMove, tasks
<1>4. CASE UiNext
  BY <1>4, UiKeepsTrue
<1>5. CASE Launch
  BY <1>1, <1>5, ChainFinal DEF Launch, ChainMove, tasks
<1>6. CASE Rehydrate
  <2>1. CASE UNCHANGED <<reg, fire, recl>>
    BY <1>1, <1>6, <2>1, ChainFinal DEF Rehydrate, ChainMove
  <2>2. CASE Spawn("boot")
    BY <1>6, <2>2, SpawnTrue DEF Rehydrate, Origin
  <2> QED
    BY <1>6, <2>1, <2>2 DEF Rehydrate
<1>7. CASE \E o \in Origin : TaskNext(o)
  BY <1>7, FireKeepsTrue, PlanKeepsTrue, ReclKeepsTrue DEF TaskNext
<1>8. CASE Crash
  BY <1>8, RestTrue DEF Crash, RecoveryInv, chain
<1> QED
  BY <1>2, <1>3, <1>4, <1>5, <1>6, <1>7, <1>8 DEF Next, NetNext

\* The record never claims a refund or a reclaim the chain did not see, for every desk, every
\* number of lost calls, crashes and commands (execute_refund, attempt_reclaim).
THEOREM RecoveryIsReal == Spec => []RecoveredOnlyOnChain
<1>1. Init => RecoveryInv
  BY RestTrue DEF Init, RecoveryInv, RecordTrue, NoRecord
<1>2. RecoveryInv /\ UNCHANGED recoveryVars => RecoveryInv'
  BY DEF RecoveryInv, recoveryVars, chain, tasks
<1>3. RecoveryInv => RecoveredOnlyOnChain
  BY DEF RecoveryInv, RecordTrue, RecoveredOnlyOnChain
<1>4. TypeOK /\ RecoveryInv /\ [Next]_recoveryVars => RecoveryInv'
  BY <1>2, StepKeepsTrue
<1> QED
  BY <1>1, <1>3, <1>4, TypeCorrect, PTL DEF Spec
=============================================================================
