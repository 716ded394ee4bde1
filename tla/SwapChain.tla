----------------------------- MODULE SwapChain -----------------------------
(***************************************************************************)
(* The two block chains an atomic swap of the desk lives on, and the       *)
(* counterparty (the "desk") acting on them.  Nothing here is code of the  *)
(* wallet: it is what the code in src-tauri/src/desk relies on (the three  *)
(* branches of the chain-A script, the two time locks, the two adaptor     *)
(* secrets), so every definition is external.                              *)
(*                                                                         *)
(* The LEADER owns the coin locked on chain A, the FOLLOWER the coin       *)
(* locked on chain B.  The chain-A output can be spent by                  *)
(*   B1  the follower's claim, with the leader's released signature; it    *)
(*       reveals t, with which the leader sweeps chain B;                  *)
(*   B2  the leader's pre-signed refund, from T1 on; it reveals s_a, with  *)
(*       which the follower takes its chain-B coin back;                   *)
(*   B3  the leader alone, from T2 on ("swipe"); it reveals nothing.       *)
(***************************************************************************)
EXTENDS Integers

CONSTANTS
    Role,       \* the wallet's part in the swap: "Leader" or "Follower"
    T1,         \* time from which the chain accepts the refund (B2)
    T2,         \* time from which the chain accepts the swipe (B3)
    EndOfTime   \* bound: the clock is not advanced past this instant

ASSUME RoleAssumption == Role \in {"Leader", "Follower"}
ASSUME TimeAssumption == /\ T1 \in Nat /\ T2 \in Nat /\ EndOfTime \in Nat
                         /\ T1 < T2 /\ T2 <= EndOfTime

VARIABLES
    now,     \* wall clock
    legA,    \* the leader's coin
    legB,    \* the follower's coin
    sigOut   \* the follower holds the leader's claim signature

chain == <<now, legA, legB, sigOut>>

LegA == {"none", "locked", "claimed", "refunded", "swiped"}
LegB == {"none", "locked", "swept", "reclaimed"}

ChainTypeOK == /\ now \in 0..EndOfTime
               /\ legA \in LegA
               /\ legB \in LegB
               /\ sigOut \in BOOLEAN

WeLead   == Role = "Leader"
WeFollow == Role = "Follower"

\* Our own coin is on a chain, or was.
OwnLocked == IF WeLead THEN legA # "none" ELSE legB # "none"
\* Our own coin sits in the joint output, nobody having moved it yet.
OwnStuck  == IF WeLead THEN legA = "locked" ELSE legB = "locked"

-----------------------------------------------------------------------------
\* What the chains accept, whoever sends it.
Tick      == now < EndOfTime /\ now' = now + 1 /\ UNCHANGED <<legA, legB, sigOut>>

LockA     == legA = "none" /\ legA' = "locked" /\ UNCHANGED <<now, legB, sigOut>>
LockB     == legB = "none" /\ legB' = "locked" /\ UNCHANGED <<now, legA, sigOut>>

CanClaimA   == legA = "locked" /\ sigOut
CanRefundA  == legA = "locked" /\ now >= T1
CanSwipeA   == legA = "locked" /\ now >= T2
CanSweepB   == legB = "locked" /\ legA = "claimed"
CanReclaimB == legB = "locked" /\ legA = "refunded"

ClaimA   == CanClaimA   /\ legA' = "claimed"   /\ UNCHANGED <<now, legB, sigOut>>
RefundA  == CanRefundA  /\ legA' = "refunded"  /\ UNCHANGED <<now, legB, sigOut>>
SwipeA   == CanSwipeA   /\ legA' = "swiped"    /\ UNCHANGED <<now, legB, sigOut>>
SweepB   == CanSweepB   /\ legB' = "swept"     /\ UNCHANGED <<now, legA, sigOut>>
ReclaimB == CanReclaimB /\ legB' = "reclaimed" /\ UNCHANGED <<now, legA, sigOut>>

ReleaseSig == ~sigOut /\ sigOut' = TRUE /\ UNCHANGED <<now, legA, legB>>

\* The desk plays the part the wallet does not.  It may follow the protocol,
\* stall at any step, or take the refund the moment it may.
DeskLocks    == IF WeFollow THEN LockA ELSE legA # "none" /\ LockB
DeskReleases == WeFollow /\ legB = "locked" /\ legA = "locked" /\ ReleaseSig
DeskRedeems  == IF WeFollow THEN SweepB ELSE ClaimA
DeskRecovers == IF WeFollow THEN RefundA \/ SwipeA ELSE ReclaimB
=============================================================================
