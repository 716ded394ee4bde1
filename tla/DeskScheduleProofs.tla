------------------------- MODULE DeskScheduleProofs -------------------------
(***************************************************************************)
(* Proofs that the recovery net never leaves a locked coin alone, as long  *)
(* as no command of the tracker stops it: a follower's reclaim watch runs, *)
(* and a leader's refund and swipe are scheduled to their instants.        *)
(***************************************************************************)
EXTENDS DeskRecoveryProofs

\* The record still says what the watchers look for.
Intact == rec.present /\ rec.locked /\ ~IsTerminal(rec) /\ ~rec.reclaimed

\* Who looks after the coin of a running wallet: the tasks rehydrate spawned.
Guarded ==
    /\ WeFollow /\ legA \in {"locked", "refunded"} => recl["boot"].pc # "off"
    /\ WeLead /\ now < AdvertisedT1   => fire["boot"]["refund"].pc = "armed"
    /\ WeLead /\ now < T2 /\ rec.t2   => fire["boot"]["swipe"].pc \in {"spawned", "armed"}

\* Chain A is spent: the spending transaction may hold our secret.
Spent == {"claimed", "refunded", "swiped"}

\* The strengthening: nothing has raised a flag or overwritten the record of a coin that
\* is still in the joint output, no watcher acts on the other role's coin, and a watch that
\* looks for a secret looks at a spent chain A.
ScheduleInv ==
    NoCommand =>
        /\ raised = {} /\ ui.pc = "idle" /\ legA # "none"
        /\ WeFollow => \A o \in Origin, k \in Kind : fire[o][k].pc # "saving"
        /\ WeLead   => \A o \in Origin : recl[o].pc \in {"off", "watching", "asked"}
        /\ \A o \in Origin : recl[o].pc = "extracting" => legA \in Spent
        /\ OwnStuck => Intact
        /\ OwnStuck /\ alive /\ ~booting => Guarded
-----------------------------------------------------------------------------
\* A watcher's step writes its own task only; `moves` says to a position other than
\* "saving", in which it would write the record (execute_refund saves after the engine's txid).
Others(o, k) == \A p \in Origin, j \in Kind : p # o \/ j # k => fire'[p][j] = fire[p][j]
Moves(o, k)  == Others(o, k) /\ fire'[o][k].pc # "saving"

LEMMA FireStepMoves ==
    ASSUME TypeOK, NEW o \in Origin, NEW k \in Kind, NEW t, FireStep(o, k, t)
    PROVE  Others(o, k) /\ fire'[o][k] = t
  BY DEF TypeOK, FireStep, Others

LEMMA EndFireMoves ==
    ASSUME TypeOK, NEW o \in Origin, NEW k \in Kind, EndFire(o, k)
    PROVE  Moves(o, k)
  BY FireStepMoves DEF EndFire, Moves, IdleFire

\* A step to a position other than "saving", with or without a fresh copy of the record.
LEMMA FireStepTo ==
    ASSUME TypeOK, NEW o \in Origin, NEW k \in Kind, NEW t \in FireTask, NEW pc, NEW r,
           pc # "saving",
           \/ FireStep(o, k, [t EXCEPT !.pc = pc])
           \/ FireStep(o, k, [t EXCEPT !.pc = pc, !.snap = r])
    PROVE  Moves(o, k)
<1>1. /\ [t EXCEPT !.pc = pc].pc = pc
      /\ [t EXCEPT !.pc = pc, !.snap = r].pc = pc
  BY DEF FireTask
<1>2. CASE FireStep(o, k, [t EXCEPT !.pc = pc])
  BY <1>1, <1>2, FireStepMoves DEF Moves
<1>3. CASE FireStep(o, k, [t EXCEPT !.pc = pc, !.snap = r])
  BY <1>1, <1>3, FireStepMoves DEF Moves
<1> QED
  BY <1>2, <1>3

LEMMA BeginRefundMoves ==
    ASSUME TypeOK, NEW o \in Origin, NEW k \in Kind, NEW t \in FireTask, BeginRefund(o, k, t)
    PROVE  Moves(o, k)
<1>1. CASE EndFire(o, k)
  BY <1>1, EndFireMoves
<1>2. CASE FireStep(o, k, [t EXCEPT !.pc = "deciding"])
  BY <1>2, FireStepTo
<1>3. CASE FireStep(o, k, [t EXCEPT !.pc = "refunding", !.snap = rec])
  BY <1>3, FireStepTo
<1> QED
  BY <1>1, <1>2, <1>3 DEF BeginRefund

LEMMA RefundFailedMoves ==
    ASSUME TypeOK, NEW o \in Origin, NEW k \in Kind, RefundFailed(o, k)
    PROVE  Moves(o, k)
<1>1. fire[o][k] \in FireTask
  BY DEF TypeOK
<1>2. CASE EndFire(o, k)
  BY <1>2, EndFireMoves
<1>3. CASE FireStep(o, k, [fire[o][k] EXCEPT !.pc = "deciding", !.snap = NoRecord])
  BY <1>1, <1>3, FireStepTo
<1> QED
  BY <1>2, <1>3 DEF RefundFailed

\* What any step of a refund or swipe watcher leaves alone, and when it may leave "armed":
\* its flag is up or its instant has come (RefundWatcher::run, SwipeWatcher::run).
FireShape(o, k) ==
    /\ UNCHANGED <<now, legB, raised, recl, ui, alive, booting, polls>>
    /\ legA' = legA \/ (legA = "locked" /\ legA' \in {"refunded", "swiped"})
    /\ rec' = rec \/ fire[o][k].pc = "saving"
    /\ Others(o, k)
    /\ WeFollow => fire'[o][k].pc # "saving"
    /\ fire[o][k].pc # "spawned"
    /\ fire[o][k].pc = "armed" => Stopped(fire[o][k].flag) \/ Due(k)

LEMMA FireHasShape ==
    ASSUME TypeOK, NEW o \in Origin, NEW k \in Kind, FireNext(o, k)
    PROVE  FireShape(o, k)
<1> DEFINE t == fire[o][k]
<1>1. t \in FireTask
  BY DEF TypeOK
<1> USE DEF chain, app, budget, NoFault, Fault
<1>2. CASE StandDown(o, k)
  BY <1>2, EndFireMoves DEF StandDown, FireShape, Moves
<1>3. CASE Fires(o, k)
  BY <1>1, <1>3, BeginRefundMoves DEF Fires, FireShape, Moves
<1>4. CASE RetryRefund(o, k)
  <2>1. [t EXCEPT !.last = TRUE] \in FireTask
    BY <1>1 DEF FireTask
  <2>2. Moves(o, k)
    BY <1>4, <2>1, BeginRefundMoves DEF RetryRefund
  <2> QED
    BY <1>4, <2>2 DEF RetryRefund, FireShape, Moves
<1>5. CASE RefundGoesOut(o, k)
  <2>1. Others(o, k)
    BY <1>5, FireStepMoves, RefundFailedMoves DEF RefundGoesOut, Moves
  <2>2. ~WeFollow
    BY <1>5 DEF RefundGoesOut, WeLead, WeFollow
  <2> QED
    BY <1>5, <2>1, <2>2 DEF RefundGoesOut, RefundA, CanRefundA, FireShape
<1>6. CASE RefundRefused(o, k)
  BY <1>6, RefundFailedMoves DEF RefundRefused, FireShape, Moves
<1>7. CASE SaveRefund(o, k)
  <2>1. Moves(o, k)
    BY <1>7, EndFireMoves, RefundFailedMoves DEF SaveRefund
  <2> QED
    BY <1>7, <2>1 DEF SaveRefund, FireShape, Moves
<1>8. CASE Decide(o, k)
  <2>1. Moves(o, k)
    BY <1>1, <1>8, EndFireMoves, FireStepTo DEF Decide
  <2> QED
    BY <1>8, <2>1 DEF Decide, FireShape, Moves
<1>9. CASE SwipeGoesOut(o, k)
  <2>1. Moves(o, k)
    BY <1>1, <1>9, EndFireMoves, FireStepTo DEF SwipeGoesOut
  <2> QED
    BY <1>9, <2>1 DEF SwipeGoesOut, SwipeA, CanSwipeA, FireShape, Moves
<1>10. CASE SwipeRefused(o, k)
  <2>1. Moves(o, k)
    BY <1>1, <1>10, FireStepTo DEF SwipeRefused
  <2> QED
    BY <1>10, <2>1 DEF SwipeRefused, FireShape, Moves
<1> QED
  BY <1>2, <1>3, <1>4, <1>5, <1>6, <1>7, <1>8, <1>9, <1>10 DEF FireNext

\* No step of a refund or swipe watcher ends a schedule before its instant.
LEMMA FireKeepsSchedule ==
    ASSUME TypeOK, RecoveryInv, ScheduleInv, NEW o \in Origin, NEW k \in Kind, FireNext(o, k)
    PROVE  ScheduleInv'
<1> SUFFICES ASSUME NoCommand' PROVE ScheduleInv'
  BY DEF ScheduleInv
<1>1. FireShape(o, k)
  BY FireHasShape
<1>2. NoCommand
  BY <1>1 DEF FireShape, NoCommand
<1>3. /\ raised = {} /\ ui.pc = "idle" /\ legA # "none"
      /\ WeFollow => \A p \in Origin, j \in Kind : fire[p][j].pc # "saving"
      /\ WeLead   => \A p \in Origin : recl[p].pc \in {"off", "watching", "asked"}
      /\ \A p \in Origin : recl[p].pc = "extracting" => legA \in Spent
      /\ OwnStuck => Intact
      /\ OwnStuck /\ alive /\ ~booting => Guarded
  BY <1>2 DEF ScheduleInv
<1>4. /\ raised' = {} /\ ui'.pc = "idle" /\ legA' # "none"
      /\ WeLead   => \A p \in Origin : recl'[p].pc \in {"off", "watching", "asked"}
      /\ \A p \in Origin : recl'[p].pc = "extracting" => legA' \in Spent
  BY <1>1, <1>3 DEF FireShape, Spent
<1>5. WeFollow => \A p \in Origin, j \in Kind : fire'[p][j].pc # "saving"
  BY <1>1, <1>3 DEF FireShape, Others
<1>6. OwnStuck' => OwnStuck /\ rec' = rec
  <2>1. OwnStuck' => OwnStuck
    BY <1>1, RoleAssumption DEF FireShape, OwnStuck, WeLead, WeFollow
  <2>2. fire[o][k].pc = "saving" => WeLead /\ legA = "refunded"
    BY <1>3, RoleAssumption DEF RecoveryInv, FireTrue, WeLead, WeFollow
  <2> QED
    BY <1>1, <2>1, <2>2 DEF FireShape, OwnStuck
<1>7. OwnStuck' => Intact'
  BY <1>3, <1>6 DEF Intact, IsTerminal
<1>8. ASSUME OwnStuck', alive', ~booting'
      PROVE  Guarded'
  <2>1. Guarded /\ rec' = rec /\ now' = now /\ recl' = recl
    BY <1>1, <1>3, <1>6, <1>8 DEF FireShape
  <2>2. WeFollow /\ legA' \in {"locked", "refunded"} => recl'["boot"].pc # "off"
    BY <1>1, <2>1, <1>3, RoleAssumption DEF Guarded, FireShape, WeFollow, WeLead
  <2>3. WeLead /\ now' < AdvertisedT1 => fire'["boot"]["refund"].pc = "armed"
    <3> SUFFICES ASSUME WeLead, now' < AdvertisedT1 PROVE fire'["boot"]["refund"].pc = "armed"
      OBVIOUS
    <3>1. fire["boot"]["refund"].pc = "armed"
      BY <2>1 DEF Guarded
    <3>2. now < AdvertisedT1 /\ ~(now >= AdvertisedT1)
      BY <2>1, BoundAssumption DEF TypeOK, ChainTypeOK
    <3>3. ~(o = "boot" /\ k = "refund")
      BY <1>1, <1>3, <3>1, <3>2 DEF FireShape, Stopped, Due
    <3>4. "boot" \in Origin /\ "refund" \in Kind
      BY DEF Origin, Kind
    <3> QED
      BY <1>1, <3>1, <3>3, <3>4 DEF FireShape, Others
  <2>4. WeLead /\ now' < T2 /\ rec'.t2 => fire'["boot"]["swipe"].pc \in {"spawned", "armed"}
    <3> SUFFICES ASSUME WeLead, now' < T2, rec'.t2
                 PROVE  fire'["boot"]["swipe"].pc \in {"spawned", "armed"}
      OBVIOUS
    <3>1. fire["boot"]["swipe"].pc \in {"spawned", "armed"}
      BY <2>1 DEF Guarded
    <3>2. ~(now >= T2)
      BY <2>1, TimeAssumption DEF TypeOK, ChainTypeOK
    <3>3. ~(o = "boot" /\ k = "swipe")
      BY <1>1, <1>3, <3>1, <3>2 DEF FireShape, Stopped, Due
    <3>4. "boot" \in Origin /\ "swipe" \in Kind
      BY DEF Origin, Kind
    <3> QED
      BY <1>1, <3>1, <3>3, <3>4 DEF FireShape, Others
  <2> QED
    BY <2>2, <2>3, <2>4 DEF Guarded
<1> QED
  BY <1>4, <1>5, <1>7, <1>8 DEF ScheduleInv

\* A swipe watcher plans its instant: it gives up only where there is nothing to swipe.
LEMMA PlanKeepsSchedule ==
    ASSUME TypeOK, ScheduleInv, NEW o \in Origin, PlanSwipe(o)
    PROVE  ScheduleInv'
<1> SUFFICES ASSUME NoCommand' PROVE ScheduleInv'
  BY DEF ScheduleInv
<1>1. /\ UNCHANGED <<chain, app, rec, raised, recl, ui, budget>>
      /\ "swipe" \in Kind /\ fire[o]["swipe"] \in FireTask
  BY DEF PlanSwipe, TypeOK, Kind
<1>2. NoCommand
  BY <1>1 DEF NoCommand, budget
<1> DEFINE t == fire[o]["swipe"]
           Swipes == rec.present /\ ~IsTerminal(rec) /\ WeLead /\ rec.t2
<1>3. ASSUME Swipes
      PROVE  Others(o, "swipe") /\ fire'[o]["swipe"].pc = "armed"
  <2>1. [t EXCEPT !.pc = "armed"].pc = "armed"
    BY <1>1 DEF FireTask
  <2>2. FireStep(o, "swipe", [t EXCEPT !.pc = "armed"])
    BY <1>3 DEF PlanSwipe
  <2> QED
    BY <1>1, <2>1, <2>2, FireStepMoves
<1>4. ASSUME ~Swipes
      PROVE  Others(o, "swipe") /\ fire'[o]["swipe"].pc = "off"
  <2>1. FireStep(o, "swipe", IdleFire)
    BY <1>4 DEF PlanSwipe
  <2> QED
    BY <1>1, <2>1, FireStepMoves DEF IdleFire
<1>5. OwnStuck' /\ alive' /\ ~booting' => Guarded'
  <2> SUFFICES ASSUME OwnStuck, alive, ~booting PROVE Guarded'
    BY <1>1 DEF OwnStuck, chain, app
  <2>1. Guarded /\ Intact
    BY <1>2 DEF ScheduleInv
  <2>2. \A j \in Kind : j # "swipe" => fire'["boot"][j] = fire["boot"][j]
    BY <1>3, <1>4 DEF Others, Origin
  <2>3. o # "boot" => fire'["boot"]["swipe"] = fire["boot"]["swipe"]
    BY <1>1, <1>3, <1>4 DEF Others, Origin
  <2> QED
    BY <1>1, <1>3, <2>1, <2>2, <2>3 DEF Guarded, Intact, Kind, chain
<1>6. WeFollow => \A p \in Origin, j \in Kind : fire'[p][j].pc # "saving"
  BY <1>2, <1>3, <1>4 DEF ScheduleInv, Others
<1> QED
  BY <1>1, <1>2, <1>5, <1>6 DEF ScheduleInv, OwnStuck, Intact, IsTerminal, chain
-----------------------------------------------------------------------------
\* What any step of a reclaim watch leaves alone, and when it ends.  `Ends` lists the exits
\* of run_reclaim_watch and attempt_reclaim: stopped, nothing to reclaim, swiped, reclaimed.
Ends(o) == \/ Stopped(recl[o].flag)
           \/ recl[o].pc = "asked" /\ NothingToReclaim(rec)
           \/ recl[o].pc = "extracting" /\ legA \notin {"claimed", "refunded"}
           \/ recl[o].pc = "saving"

ReclShape(o) ==
    /\ UNCHANGED <<now, legA, raised, fire, ui, alive, booting, polls>>
    /\ legB' = legB \/ (legB = "locked" /\ legB' = "reclaimed")
    /\ rec' = rec \/ recl[o].pc = "saving"
    /\ \A p \in Origin : p # o => recl'[p] = recl[p]
    /\ recl[o].pc # "off"
    /\ recl'[o].pc = "off" => Ends(o)
    /\ recl'[o].pc = "extracting" => legA \in Spent
    /\ WeLead /\ recl[o].pc \in {"watching", "asked"} => recl'[o].pc \in {"off", "asked"}

LEMMA ReclStepMoves ==
    ASSUME TypeOK, NEW o \in Origin, NEW t, ReclStep(o, t)
    PROVE  recl'[o] = t /\ \A p \in Origin : p # o => recl'[p] = recl[p]
  BY DEF TypeOK, ReclStep

LEMMA ReclStepTo ==
    ASSUME TypeOK, NEW o \in Origin, NEW pc, NEW r,
           \/ ReclStep(o, [recl[o] EXCEPT !.pc = pc])
           \/ ReclStep(o, [recl[o] EXCEPT !.pc = pc, !.snap = r])
           \/ ReclStep(o, [IdleRecl EXCEPT !.pc = pc, !.ruledOut = TRUE, !.flag = recl[o].flag])
    PROVE  recl'[o].pc = pc /\ \A p \in Origin : p # o => recl'[p] = recl[p]
<1>1. recl[o] \in ReclTask /\ IdleRecl \in ReclTask
  BY RestTypes DEF TypeOK
<1>2. /\ [recl[o] EXCEPT !.pc = pc].pc = pc
      /\ [recl[o] EXCEPT !.pc = pc, !.snap = r].pc = pc
      /\ [IdleRecl EXCEPT !.pc = pc, !.ruledOut = TRUE, !.flag = recl[o].flag].pc = pc
  BY <1>1 DEF ReclTask
<1>3. CASE ReclStep(o, [recl[o] EXCEPT !.pc = pc])
  BY <1>2, <1>3, ReclStepMoves
<1>4. CASE ReclStep(o, [recl[o] EXCEPT !.pc = pc, !.snap = r])
  BY <1>2, <1>4, ReclStepMoves
<1>5. CASE ReclStep(o, [IdleRecl EXCEPT !.pc = pc, !.ruledOut = TRUE, !.flag = recl[o].flag])
  BY <1>2, <1>5, ReclStepMoves
<1> QED
  BY <1>3, <1>4, <1>5

LEMMA ReclHasShape ==
    ASSUME TypeOK, NEW o \in Origin, ReclNext(o)
    PROVE  ReclShape(o)
<1> DEFINE Rest == \A p \in Origin : p # o => recl'[p] = recl[p]
<1> USE DEF chain, app, budget, NoFault, Fault, ReclRest, Spent
<1>1. ReclRetry(o) => recl'[o].pc = "watching" /\ Rest
  BY ReclStepTo DEF ReclRetry
<1>2. ReclStep(o, IdleRecl) => recl'[o].pc = "off" /\ Rest
  BY ReclStepMoves DEF IdleRecl
<1>3. CASE ReclStops(o)
  BY <1>2, <1>3 DEF ReclStops, ReclShape, Ends
<1>4. CASE SeesSpend(o)
  <2>1. CASE NothingToReclaim(rec)
    BY <1>2, <1>4, <2>1 DEF SeesSpend, ReclShape, Ends
  <2>2. CASE ~NothingToReclaim(rec)
    <3>1. recl'[o].pc = "extracting" /\ Rest
      BY <1>4, <2>2, ReclStepTo DEF SeesSpend
    <3>2. ~WeLead
      BY <2>2 DEF NothingToReclaim
    <3> QED
      BY <1>4, <3>1, <3>2 DEF SeesSpend, ReclShape
  <2> QED
    BY <2>1, <2>2
<1>5. CASE Extract(o)
  <2>1. recl'[o].pc \in {"watching", "reclaiming", "off"} /\ Rest
    <3>1. CASE ReclRetry(o)
      BY <1>1, <3>1
    <3>2. CASE ReclStep(o, [recl[o] EXCEPT !.pc = "reclaiming"])
      BY <3>2, ReclStepTo
    <3>3. CASE ReclStep(o, [IdleRecl EXCEPT !.pc = "watching", !.ruledOut = TRUE,
                                            !.flag = recl[o].flag])
      BY <3>3, ReclStepTo
    <3>4. CASE ReclStep(o, IdleRecl)
      BY <1>2, <3>4
    <3> QED
      BY <1>5, <3>1, <3>2, <3>3, <3>4 DEF Extract
  <2>2. recl'[o].pc = "off" => legA \notin {"claimed", "refunded"}
    <3>1. CASE ReclRetry(o)
      BY <1>1, <3>1
    <3>2. CASE ~ReclRetry(o) /\ legA = "refunded"
      <4>1. ReclStep(o, [recl[o] EXCEPT !.pc = "reclaiming"])
        BY <1>5, <3>2 DEF Extract
      <4>2. recl'[o].pc = "reclaiming"
        BY <4>1, ReclStepTo
      <4> QED
        BY <4>2
    <3>3. CASE ~ReclRetry(o) /\ legA = "claimed"
      <4>1. ReclStep(o, [IdleRecl EXCEPT !.pc = "watching", !.ruledOut = TRUE,
                                         !.flag = recl[o].flag])
        BY <1>5, <3>3 DEF Extract
      <4>2. recl'[o].pc = "watching"
        BY <4>1, ReclStepTo
      <4> QED
        BY <4>2
    <3> QED
      BY <3>1, <3>2, <3>3
  <2> QED
    BY <1>5, <2>1, <2>2 DEF Extract, ReclShape, Ends
<1>6. CASE ReclaimGoesOut(o)
  <2>1. recl'[o].pc \in {"saving", "watching"} /\ Rest
    BY <1>1, <1>6, ReclStepTo DEF ReclaimGoesOut
  <2> QED
    BY <1>6, <2>1 DEF ReclaimGoesOut, ReclaimB, CanReclaimB, ReclShape
<1>7. CASE ReclaimRefused(o)
  BY <1>1, <1>7 DEF ReclaimRefused, ReclShape
<1>8. CASE SaveReclaim(o)
  BY <1>1, <1>2, <1>8 DEF SaveReclaim, ReclShape, Ends
<1>9. CASE ReclPolls(o)
  <2>1. recl'[o].pc = "asked" /\ Rest
    BY <1>9, ReclStepTo DEF ReclPolls
  <2> QED
    BY <1>9, <2>1 DEF ReclPolls, ReclShape
<1> QED
  BY <1>3, <1>4, <1>5, <1>6, <1>7, <1>8, <1>9 DEF ReclNext

\* No step of a reclaim watch ends it while a follower's coin can come back.
LEMMA ReclKeepsSchedule ==
    ASSUME TypeOK, RecoveryInv, ScheduleInv, NEW o \in Origin, ReclNext(o)
    PROVE  ScheduleInv'
<1> SUFFICES ASSUME NoCommand' PROVE ScheduleInv'
  BY DEF ScheduleInv
<1>1. ReclShape(o)
  BY ReclHasShape
<1>2. NoCommand
  BY <1>1 DEF ReclShape, NoCommand
<1>3. /\ raised = {} /\ ui.pc = "idle" /\ legA # "none"
      /\ WeFollow => \A p \in Origin, j \in Kind : fire[p][j].pc # "saving"
      /\ WeLead   => \A p \in Origin : recl[p].pc \in {"off", "watching", "asked"}
      /\ \A p \in Origin : recl[p].pc = "extracting" => legA \in Spent
      /\ OwnStuck => Intact
      /\ OwnStuck /\ alive /\ ~booting => Guarded
  BY <1>2 DEF ScheduleInv, Spent
<1>4. /\ WeLead => \A p \in Origin : recl'[p].pc \in {"off", "watching", "asked"}
      /\ \A p \in Origin : recl'[p].pc = "extracting" => legA' \in Spent
  BY <1>1, <1>3 DEF ReclShape
<1>5. OwnStuck' => OwnStuck /\ rec' = rec /\ recl[o].pc # "saving"
  <2>1. OwnStuck' => OwnStuck
    BY <1>1 DEF ReclShape, OwnStuck
  <2>2. recl[o].pc = "saving" => WeFollow /\ legB = "reclaimed"
    BY <1>3, RoleAssumption DEF RecoveryInv, ReclTrue, WeLead, WeFollow
  <2> QED
    BY <1>1, <2>1, <2>2, RoleAssumption DEF ReclShape, OwnStuck, WeLead, WeFollow
<1>6. OwnStuck' => Intact'
  BY <1>3, <1>5 DEF Intact, IsTerminal
<1>7. ASSUME OwnStuck', alive', ~booting'
      PROVE  Guarded'
  <2>1. Guarded /\ Intact /\ rec' = rec /\ UNCHANGED <<now, legA, fire>>
    BY <1>1, <1>3, <1>5, <1>7 DEF ReclShape
  <2>2. ASSUME WeFollow, legA' \in {"locked", "refunded"}
        PROVE  recl'["boot"].pc # "off"
    <3>1. recl["boot"].pc # "off" /\ legA \in {"locked", "refunded"} /\ ~WeLead
      BY <2>1, <2>2 DEF Guarded, WeFollow, WeLead
    <3>2. CASE o # "boot"
      BY <1>1, <3>1, <3>2 DEF ReclShape, Origin
    <3>3. CASE o = "boot"
      <4>1. ~Ends(o)
        BY <1>3, <1>5, <1>7, <2>1, <3>1 DEF Ends, Stopped, NothingToReclaim, Intact, Spent
      <4> QED
        BY <1>1, <3>3, <4>1 DEF ReclShape
    <3> QED
      BY <3>2, <3>3
  <2> QED
    BY <2>1, <2>2 DEF Guarded
<1> QED
  BY <1>1, <1>3, <1>4, <1>6, <1>7 DEF ScheduleInv, ReclShape, Spent
-----------------------------------------------------------------------------
\* With the flags down and the watchers as they are, the world only moves on: a coin that is
\* stuck was stuck before, and an instant that is ahead was ahead before.
LEMMA WorldKeepsSchedule ==
    ASSUME TypeOK, ScheduleInv, Outside \/ DeskFunds
    PROVE  ScheduleInv'
<1> SUFFICES ASSUME NoCommand' PROVE ScheduleInv'
  BY DEF ScheduleInv
<1>1. UNCHANGED <<app, rec, tasks, ui, budget>> /\ NoCommand
  BY DEF Outside, DeskFunds, NoCommand, budget
<1>2. legA # "none" /\ legA \in LegA /\ legB \in LegB /\ now \in 0..EndOfTime
  BY <1>1 DEF ScheduleInv, TypeOK, ChainTypeOK
<1>3. legA' # "none" /\ (legA \in Spent => legA' \in Spent)
  BY <1>2 DEF Outside, DeskFunds, DeskLocks, DeskReleases, DeskRedeems, DeskRecovers, Tick, LockA,
     LockB, ClaimA, RefundA, SwipeA, SweepB, ReclaimB, ReleaseSig, LegA, Spent
<1>4. /\ now' = now \/ now' = now + 1
      /\ legA' = legA \/ legA = "locked"
      /\ OwnStuck' => OwnStuck
      /\ legA' \in {"locked", "refunded"} => legA \in {"locked", "refunded"}
  BY <1>2, RoleAssumption DEF Outside, DeskFunds, DeskLocks, DeskReleases, DeskRedeems,
     DeskRecovers, Tick, LockA, LockB, ClaimA, RefundA, SwipeA, SweepB, ReclaimB, ReleaseSig,
     CanClaimA, CanRefundA, CanSwipeA, CanSweepB, CanReclaimB, OwnStuck, WeLead, WeFollow
<1>5. OwnStuck' /\ alive' /\ ~booting' => Guarded'
  BY <1>1, <1>2, <1>4, TimeAssumption, BoundAssumption DEF ScheduleInv, Guarded, app, tasks
<1>6. OwnStuck' => Intact'
  BY <1>1, <1>4 DEF ScheduleInv, Intact, IsTerminal
<1> QED
  BY <1>1, <1>3, <1>5, <1>6 DEF ScheduleInv, Spent, tasks

\* A command of the tracker is counted, so that none is under way while none was sent.
LEMMA UiKeepsSchedule ==
    ASSUME TypeOK, ScheduleInv, UiNext
    PROVE  ScheduleInv'
<1> SUFFICES ASSUME NoCommand' PROVE FALSE
  BY DEF ScheduleInv
<1>1. polls \in Nat
  BY BoundAssumption DEF TypeOK
<1>2. ~Poll
  BY <1>1 DEF Poll, NoCommand
<1>3. ~StatusAsks /\ ~DeskAborts
  BY <1>2 DEF StatusAsks, DeskAborts
<1>4. (StatusAnswered \/ StatusMirrored) => NoCommand /\ ui.pc # "idle"
  BY DEF StatusAnswered, StatusMirrored, NoCommand, NoFault, Fault, budget
<1> QED
  BY <1>3, <1>4 DEF UiNext, ScheduleInv

\* The relaunch spawns every watcher over a record that still asks for them (rehydrate).
LEMMA RehydrateSchedules ==
    ASSUME TypeOK, ScheduleInv, Rehydrate
    PROVE  ScheduleInv'
<1> SUFFICES ASSUME NoCommand' PROVE ScheduleInv'
  BY DEF ScheduleInv
<1>1. UNCHANGED <<chain, alive, rec, raised, ui, budget>> /\ NoCommand
  BY DEF Rehydrate, NoCommand, budget
<1>2. CASE Spawn("boot")
  <2>1. /\ "boot" \in Origin /\ Kind = {"refund", "swipe"}
        /\ \A p \in Origin : p # "boot" => fire'[p] = fire[p] /\ recl'[p] = recl[p]
    BY <1>2 DEF Spawn, TypeOK, Origin, Kind
  <2>2. recl'["boot"].pc = "watching"
    BY <1>2, <2>1 DEF Spawn, TypeOK, IdleRecl
  <2>3. fire'["boot"]["refund"].pc = "armed" /\ fire'["boot"]["swipe"].pc = "spawned"
    BY <1>2, <2>1 DEF Spawn, TypeOK, IdleFire
  <2>4. Guarded'
    BY <2>2, <2>3 DEF Guarded
  <2>5. WeFollow => \A p \in Origin, j \in Kind : fire'[p][j].pc # "saving"
    BY <1>1, <2>1, <2>3 DEF ScheduleInv
  <2>6. /\ WeLead => \A p \in Origin : recl'[p].pc \in {"off", "watching", "asked"}
        /\ \A p \in Origin : recl'[p].pc = "extracting" => legA \in Spent
    BY <1>1, <2>1, <2>2 DEF ScheduleInv
  <2> QED
    BY <1>1, <2>4, <2>5, <2>6 DEF ScheduleInv, OwnStuck, Intact, IsTerminal, chain
<1>3. CASE ~(rec.present /\ ~IsTerminal(rec))
  <2>1. ~OwnStuck /\ UNCHANGED <<reg, fire, recl>>
    BY <1>1, <1>3 DEF Rehydrate, ScheduleInv, Intact
  <2> QED
    BY <1>1, <2>1 DEF ScheduleInv, OwnStuck, chain
<1> QED
  BY <1>2, <1>3 DEF Rehydrate

\* Every step of the net and of the world around it keeps the schedule.
LEMMA StepKeepsSchedule ==
    ASSUME TypeOK, RecoveryInv, ScheduleInv, Next
    PROVE  ScheduleInv'
<1>1. CASE Outside \/ DeskFunds
  BY <1>1, WorldKeepsSchedule
<1>2. CASE UiNext
  BY <1>2, UiKeepsSchedule
<1>3. CASE Launch
  BY <1>3 DEF Launch, ScheduleInv, NoCommand, OwnStuck, Intact, IsTerminal, chain, tasks, budget
<1>4. CASE Rehydrate
  BY <1>4, RehydrateSchedules
<1>5. CASE \E o \in Origin : TaskNext(o)
  BY <1>5, FireKeepsSchedule, PlanKeepsSchedule, ReclKeepsSchedule DEF TaskNext
<1>6. CASE Crash
  <2>1. /\ alive' = FALSE /\ raised' = {} /\ ui'.pc = "idle" /\ UNCHANGED <<chain, rec, polls>>
        /\ \A p \in Origin, j \in Kind : fire'[p][j].pc = "off"
        /\ \A p \in Origin : recl'[p].pc = "off"
    BY <1>6 DEF Crash, NoFires, NoRecls, IdleFire, IdleRecl, IdleUi
  <2> QED
    BY <2>1 DEF ScheduleInv, NoCommand, OwnStuck, Intact, IsTerminal, chain
<1> QED
  BY <1>1, <1>2, <1>3, <1>4, <1>5, <1>6 DEF Next, NetNext

\* The schedule is an invariant of the net (rehydrate.rs, refund.rs, reclaim.rs together).
THEOREM ScheduleInductive == Spec => []ScheduleInv
<1>1. Init => ScheduleInv
  <2> SUFFICES ASSUME Init PROVE ScheduleInv
    OBVIOUS
  <2>1. /\ raised = {} /\ ui.pc = "idle" /\ legA # "none" /\ alive = FALSE
        /\ \A p \in Origin, j \in Kind : fire[p][j].pc = "off"
        /\ \A p \in Origin : recl[p].pc = "off"
    BY DEF Init, NoFires, NoRecls, IdleFire, IdleRecl, IdleUi
  <2>2. Intact
    BY DEF Init, Intact, IsTerminal, Terminal, NoRecord
  <2> QED
    BY <2>1, <2>2 DEF ScheduleInv
<1>2. Init => RecoveryInv
  BY RestTrue DEF Init, RecoveryInv, RecordTrue, NoRecord
<1>3. ScheduleInv /\ UNCHANGED recoveryVars => ScheduleInv'
  BY DEF ScheduleInv, NoCommand, OwnStuck, Intact, Guarded, IsTerminal, recoveryVars, chain, app,
     tasks, budget
<1>4. RecoveryInv /\ UNCHANGED recoveryVars => RecoveryInv'
  BY DEF RecoveryInv, recoveryVars, chain, tasks
<1>5. TypeOK /\ RecoveryInv /\ [Next]_recoveryVars => RecoveryInv'
  BY <1>4, StepKeepsTrue
<1>6. TypeOK /\ RecoveryInv /\ ScheduleInv /\ [Next]_recoveryVars => ScheduleInv'
  BY <1>3, StepKeepsSchedule
<1> QED
  BY <1>1, <1>2, <1>5, <1>6, TypeCorrect, PTL DEF Spec

\* Until the tracker sends a command, a follower's reclaim watch never stops while its coin
\* can come back, however often calls fail and the wallet is killed (reclaim.rs: "a detected
\* refund must start work, not stop it").
THEOREM LegIsWatched == Spec => []WatchedUntilCommand
<1>1. TypeOK /\ ScheduleInv => WatchedUntilCommand
  <2> SUFFICES ASSUME ScheduleInv, NoCommand, alive, ~booting, WeFollow, legB = "locked",
                      legA \in {"none", "locked", "refunded"}
               PROVE  \E o \in Origin : Watching(o)
    BY DEF WatchedUntilCommand, LockedLegIsWatched
  <2>1. OwnStuck
    BY DEF OwnStuck, WeLead, WeFollow
  <2>2. recl["boot"].pc # "off" /\ raised = {}
    BY <2>1 DEF ScheduleInv, Guarded
  <2> QED
    BY <2>2 DEF Watching, Stopped, Origin
<1> QED
  BY <1>1, TypeCorrect, ScheduleInductive, PTL

\* A leader whose desk is not asked has its refund scheduled to T1 and its swipe to T2 as long
\* as its coin is locked, whatever T1 the desk advertised (rehydrate.rs: "nobody is watching
\* the clock").
THEOREM LegIsScheduled == Spec => [](NoCommand => LockedLegIsScheduled)
<1>1. ScheduleInv => (NoCommand => LockedLegIsScheduled)
  <2> SUFFICES ASSUME ScheduleInv, NoCommand, alive, ~booting, WeLead, legA = "locked"
               PROVE  /\ now < AdvertisedT1   => \E o \in Origin : Scheduled(o, "refund")
                      /\ now < T2 /\ rec.t2 => \E o \in Origin : Scheduled(o, "swipe")
    BY DEF LockedLegIsScheduled
  <2>1. OwnStuck
    BY DEF OwnStuck
  <2>2. Guarded /\ raised = {} /\ "boot" \in Origin
    BY <2>1 DEF ScheduleInv, Origin
  <2> QED
    BY <2>2 DEF Guarded, Scheduled, Stopped
<1> QED
  BY <1>1, ScheduleInductive, PTL
=============================================================================
