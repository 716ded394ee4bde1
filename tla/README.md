# PwndaWallet: TLA+ models and proofs

PwndaWallet is a multi-coin desktop wallet (Tauri: a Rust backend in
`src-tauri/src`, a React front end in `src`). This directory models the parts of it
where the order of events decides whether money is lost or a user is misled:

* the *desk swap*, an atomic swap between the wallet and a market-making server,
  the desk, driven by `src-tauri/src/desk`;
* the *send* from the dashboard: the modal with its quoted transactions, and the
  session-signed sends whose submit may leave its outcome unknown;
* the *NEAR Intents swap* of the front end: one deposit per quote, and the history in
  which its outcome is followed;
* the *fee watcher* of the swap sidecar (`src-tauri/src/sidecar_fees`), which withdraws
  a fee from the swap node once per settled swap.

TLC checks the models on small instances, TLAPS proves their safety for all. Paths
below are relative to `src-tauri/src`; those that start with `src/` are relative to
the repository, and file names alone in the front-end sections to
`src/features/send` and `src/features/swap`.

Contents: 1 inventory, 2 modules, 3 model and code, 4 runs, 5 what the runs found,
6 proofs, 7 limits, 8 plan.

## 1. Inventory

### 1.1 The desk subsystem

A swap has two coins on two chains. The **leader**'s coin is locked on chain A, the
**follower**'s on chain B; the wallet is the follower when it sells and the leader
when it buys. The chain-A output has three exits: the follower's claim with the
leader's released signature (it reveals the secret with which the leader sweeps
chain B), the leader's pre-signed refund from T1 on (it reveals the secret with which
the follower takes chain B back), and the leader's lone "swipe" from T2 on (it
reveals nothing).

| part | state | operations | interacts with | hard because | correct when |
|---|---|---|---|---|---|
| `desk/store.rs`, durable store | one encrypted JSON file per swap (`StoredSwap`) | `save` (whole record, temporary file and rename), `load`, `load_all`, `remove` | everything below | five parties load, keep and save *whole* records with no lock between them | what one party recorded is not undone by another; the pre-signed refund is on disk before a lock |
| `desk/rehydrate.rs`, registry and relaunch | stop flag per swap (`DeskWatchers`) | `register`, `raise`, `clear`; the launch walk that spawns refund, swipe and reclaim watches | store, watchers, commands, conductor | flags shared or split between two sets of watchers; an entry cleared while others hold the flag | a locked coin always has somebody watching it |
| `desk/watch.rs`, `desk/refund.rs` | refund watcher at T1, swipe watcher at T2, each with a stop flag and a record loaded before a long engine call | sleep, fire once, `execute_refund`, `deep_abort_decision`, swipe, second refund | store, engine, registry | each call may succeed with its answer lost; the routine has five await points; two origins (relaunch and drive) may run it at once | a leader's coin leaves the joint output; nothing is recorded that did not happen |
| `desk/reclaim.rs`, reclaim watch | the spends ruled out, the loaded record, the stop flag | poll chain A, `attempt_reclaim` (extract the secret, reclaim, save) | same | has to run *after* the other watchers stop | a follower's coin comes back after the leader's refund |
| `desk/commands.rs` | none of its own | `desk_status` (ask, answer, mirror), `desk_abort`, `desk_proceed`, quoting and listing | desk server, store, registry, conductor | acts on the word of the desk; saves a record loaded across other tasks' writes | the desk's word cannot take the net away |
| `desk/conductor.rs` | the record in memory for the length of a drive, the deadline | both choreographies from M3 to the end, four saves, two gates, the hold of a failed drive, the stand-down | all of the above | a lock is on chain before it is on disk; a drive may end at any await | refund before lock, their lock before ours (follower), their lock before our signature (leader) |
| `desk/observer.rs`, `desk/depth.rs` | a cell with the last sighting | poll both legs, downgrade a stale sighting | gates of the conductor | "not yet", "could not look" and "seen a while ago" must not be confused | a gate opens only on a recent sighting of our own |
| `desk/engine.rs` | none (types and pure checks) | the state words, the M1 and size checks, the two gates | conductor, commands | | terminal means terminal |
| `desk/crypto.rs`, `desk/sidecar.rs` | a Python engine process behind a two-lane pipe | lock, refund, swipe, extract, claim | all callers share it | budgets, time-outs, poisoned lanes, restarts | an answer reaches the caller that asked |
| `desk/wire.rs`, `client.rs`, `arm.rs` | none | message shapes, signed HTTP calls, start-up checks | conductor, commands | | |

### 1.2 The rest of the repository

| part | state | operations | hard because | correct when |
|---|---|---|---|---|
| `sidecar_fees/*` | one file per bid (`Watching`, `Deferred`, `Attempting`, `Paid`, `Indeterminate`, ...), a baseline time | decide, mark, withdraw, record, reconcile at start | a crash between a withdrawal and its record; a reply that is lost | a fee is charged at most once |
| `swap_sidecar.rs` | phase, child processes, ports, opt-in file | set up, start, supervise and stop the BasicSwap stack | a set-up of several minutes that can be cancelled or killed | no second instance on one data directory |
| `swap_daemon.rs`, `swap_bid.rs`, `swap_bridge.rs` | counters, in-flight bids | sends through a coin daemon, bids, recovery of a bid | locked outputs of live swaps, repeated commands | no input of a live swap is spent |
| `miners.rs` | three lanes: child, generation, recycling flag, launch parameters | start, stop, death watch, recycle on memory growth | a watch of an old generation acting on a new process | a stopped miner stays stopped; an unasked death is reported once |
| `mem_guard.rs`, `mem_watch.rs`, `mem_pressure.rs` | samples, thresholds | sample, reload the web view | | |
| `proxy_pool.rs`, `http_proxy.rs` | candidates, health, rotation | refresh, validate, record failures | refreshes that overlap | |
| `pool_*.rs` | caches | poll and parse mining pools | | |
| `xmr_rpc.rs`, `zph_rpc.rs`, `zano_rpc.rs`, `xelis_rpc.rs`, `wallet_rpc_common.rs` | wallet processes | open, refresh, send, close | a close that overtakes a send | |
| `swap/*` | keystore session | sign and broadcast swaps of the intents backend | retry after an unknown outcome | one deposit per swap |
| `sidecar_update.rs`, `bundle.rs`, `grove.rs` | bundled binaries | download, verify, switch | | |
| `src/features/mining`, `activity`, `vault`; `src/wallets`; `src/store.ts` | vault, session store, lanes, caches | unlock, migrate, derive, sign, merge lists | many chains, much I/O | |
| `src-lite`, `scripts`, `upstream` | | a smaller front end; tooling | | |

### 1.3 Sending and NEAR Intents in the front end

| part | state | operations | interacts with | hard because | correct when |
|---|---|---|---|---|---|
| `quoteController.ts`, `useSendQuote.ts`, `SendModal.tsx`, `useSend.ts`, `src/wallets/send-quote.ts`: the send modal | the snapshot shown, one timer, one wallet call, a queued run, the kept build | inputs change, review, retry, confirm, discard, close, the call ends | the wallet process, the form | the call outlives the inputs it was made for; on Monero and Zephyr a quote *is* the signed spend | what is relayed was reviewed for what the form held; it is built and relayed once |
| `session-send.ts`, `App.tsx`: sends on Stellar, Sui, NEAR | the task of one send; Rust holds *one* signing session for the whole wallet | unlock, prepare, sign, submit, settle by hash, lock | `swap/state.rs`, the network, Horizon's pool, other screens that unlock and lock | a lost answer, servers that lag, clocks that differ | what is called failed was not paid and never will be; nothing is paid twice |
| `intents-attempts.ts`, `SwapConfirmModal.tsx`, `useSwapQuote.ts`, `swap-execute.ts`: a deposit for a quote | the table of attempts (memory), the form's quote, the modal's stage, the executor's task | fetch, open, close, submit, claim, broadcast, follow | 1Click, the session, the history | quotes that land late or twice, two forms, unknown outcomes, a modal reused for the next swap | a quote is paid once; one that is still offered was neither paid nor is it being paid |
| `swap-history-store.ts`, `intents-status-resume.ts`, `swap-details.ts`: what became of it | one stored list, a queue of writes, pollers | append, update, resume, time out, show details | 1Click, the store | pollers of several swaps write whole lists; on Stellar all swaps share one address | no row is lost, each settles by its own status, none is forgotten |

`PROJECT.json` lists the same parts with their status, and the hazards of the modelled
ones, each at its line.

## 2. Modules

| module | what it is |
|---|---|
| `SwapChain` | the two chains with their time locks and secrets, and the desk as an actor on them (external to the wallet) |
| `DeskRecovery` | the recovery net: record, registry, relaunch, refund, swipe and reclaim watchers of both origins, `desk_status`, `desk_abort`, crashes |
| `DeskConductor` | one drive of the conductor, composed with the whole net and the desk |
| `Exchange` | the abstract specification of a desk swap: what it promises its user |
| `Payments` | the abstract specification of whatever is paid for over a network that may not answer: implemented by `SessionSend`, `IntentsDeposit` and `FeeLedger` |
| `SendReview` | one opening of the send modal: quote controller, effects, wallet call, confirm |
| `SessionSend` | session-signed sends over one session, a network and a pool of servers |
| `IntentsDeposit` | quotes, the modal, the table of attempts and the submissions |
| `IntentsHistory` | the history's queue and the three pollers, from the deposit on |
| `FeeLedger` | the fee watcher, its records on disk, the node's bids and withdrawals |
| `MC...` | the instances of the runs |
| `DeskRecoveryProofs`, `DeskScheduleProofs`, `DeskConductorProofs`, `SessionSendProofs`, `SendReviewProofs`, `IntentsDepositProofs`, `IntentsHistoryProofs`, `FeeLedgerProofs` | theorems about each |

`DeskRecovery` EXTENDS `SwapChain` and `DeskConductor` EXTENDS `DeskRecovery`;
`DeskConductor` also INSTANCEs `Exchange` under a refinement mapping, and `SessionSend`,
`IntentsDeposit` and `FeeLedger` each INSTANCE `Payments` under one of their own (3.6). Otherwise the four front-end modules and `FeeLedger` stand alone. The
front-end ones meet at two places: `IntentsHistory` starts a swap with its deposit, of which
`IntentsDeposit` makes one per quote; and the session that `SessionSend` shares with the swap
modal is one variable there, set by `SwapUnlock`.

## 3. How the models correspond to the code

### 3.1 The desk

**Time.** `now` counts abstract instants. `T1` and `T2` are the chain's time locks,
`AdvertisedT1` is the T1 in the desk's accept, which the record keeps and the refund
watcher is scheduled by; the engine-derived T2 (`rec.t2`) is what the swipe watcher
needs. All three differ in general; `recovery_leader` has an
advertised T1 before the chain's.

**The record.** `rec` keeps those fields of `StoredSwap` that some guard reads: the state
word, whether our lock txid, the refund pre-signature, the engine's T2, a refund txid
and a reclaim txid are recorded. `NoRecord` is the missing file. `Save` replaces the
whole record; a caller that loaded it earlier saves its old copy with its own edit,
which is what makes the interleavings interesting: the copies are the `snap` fields of
`fire`, `recl` and `ui`, and `drive.mem`.

**Tasks.** Every async task is a position (`pc`) plus what it holds across an await; one
action is one stretch of code between two awaits. `fire[o][k]` is the refund (`k =
"refund"`) or swipe watcher of origin `o`; both run `execute_refund` and
`execute_deep_abort_and_report`, so they share their actions. `recl[o]` is the reclaim
watch, which reads its flag before it asks for the spend of chain A and not again when the
answer comes (`ReclPolls`, `SeesSpend`), `ui` the `desk_status` command, `drive` the conductor. The origin "boot" is the
net that `rehydrate` spawns, "drive" the one `desk_proceed` spawns; both may be alive.

**Stop flags.** A flag is named by the origin that created it. `reg` is the registry's
entry, `raised` the set of flags that are up. `register` returns the entry if there is
one. A rehydrated refund watcher that ends clears the entry although the swipe and
reclaim watches still hold the flag (`AfterEnd`).

**Engine calls.** Each publishes or not, and answers or not. A successful call whose
answer is lost is an action that moves the chain and takes the error branch; a call the
chain would refuse always takes it. `Fault` counts the failures of calls that could have
succeeded, bounded by `MaxFaults`; refusals are free. The follower's wallet
has no refund of its own on chain B: the engine refuses it.

**The desk.** On chain it may follow the protocol, stop anywhere, or refund as soon as it
may, whatever it says. In `/status` it is "silent", "honest" (its word agrees with
the chains) or "any". For "any" the model uses one unfinished word and one of each pair
of terminal words the commands treat alike.

**Crash.** The process dies at any step; `reg`, `raised`, all tasks and the drive are lost,
the record stays. `Launch`, then `Rehydrate`, bring the net back from the record.

**The drive.** `Proceed` loads the record; with it in hand the drive asks the desk for its
depths, may be told that the swap is over (`DeskTerminal`), and only then registers its flag and
spawns its watchers (`Registers`). Then one action per step of the two choreographies, in
their order; any step that can return an error may end the drive (`Fails`). `Persist` is each of the four
saves of the record in memory. The gate reads the observer's cell, which holds the last
good sighting; one older than `MaxAge` is no sighting. `movedAt` is a history variable, read by
no action: when the coin in sight left the joint output. A claim signature may be delivered twice
(`Releases`). `StandsDown` is the decision at
the end, taken from the durable record.

**What the user sees.** `Exchange` has two coins, each at home, locked, then moved once:
ours is given only while theirs is locked for us or taken; as follower we never lock first.
The mapping reads it off the two legs by role.

### 3.2 The send modal (`SendReview`)

`snap`, `timer`, `flight`, `rerun` and `lastBuild` are the controller's variables;
`form` is what the user sees, `given` what the effect last passed on: between the two
lies a render, and `Sync` is the effect. The counter `generation` is compared only with
the value a running call started under, so the call carries `current`, which every bump
clears; `forgetCount` is `kept` in the same way. `mode` is "on-request" on the chains
whose quote is the spend. A press of Confirm or Send is rendered and its effects (the
discard, then no inputs) run before anything else, hence they are one action. Confirm of a
quote that is not for what the form holds sends nothing, but has discarded the quote by then
(`Refused`).
A built transaction is a number; a number is used again once nothing holds it, and
`NewBuild` picks one nothing holds, so that the state stays finite without limiting
how many are built.

### 3.3 The session-signed send (`SessionSend`)

`now` is the network's clock and a ledger closes at every instant; `seen[s]` is what
server `s` has ingested. `pool` and `included` are the network's; `paid` says which
payments were made. A send's `pc` is the await its task is at. The wallet's clock
appears twice and is arbitrary both times: the time limit it writes into a Stellar
transaction, and the end of its patience (`Deadline`). A lookup goes to any server, the
ledger clock may come from another, or from none. The three chains share the task
and differ in what the code makes different: NEAR's broadcast proves nothing, only
Stellar has a time limit. Sequence numbers, object versions and nonces, which only
make fewer payments possible, are left out, so that "paid once" rests on the wallet
alone. `session` is Rust's single session: every unlock replaces it and every lock
clears it, whosever it is.

### 3.4 The deposit and the history (`IntentsDeposit`, `IntentsHistory`)

A quote stands for its address and memo, the key of the table of attempts. The modal's
component is mounted while it is open or the form hands a quote out; a submission keeps
`screen` while the component it was started on is mounted, which decides whether its
`setStage` still reaches anybody. `exec` has two slots: portrait and landscape mount a
form each, and a submission runs on behind a closed modal once its deposit is out.
Review and password are one stage. The checks before the claim and the builders behind
it are one refusal each (`Fails`). A deposit is two steps: the network takes it
(`Broadcast`), and its answer comes (`HashKnown`), or none does (`OutcomeUnknown`, also where
the network took nothing). In between the table still says "claimed", or what a failing
submission over the same quote made of that. A restart empties everything
but the network and the history.

In the history a write is two steps, read and store, so that the queue that keeps them
apart is part of what is checked. A poller is asking, has a write in the queue, or is
over; the modal's and the resume pass's ask with the memo and drop foreign answers
(`Describes`), the details view's does neither. `resume` loads the list, waits (for the
settling of old rows), then divides what it loaded with the pollers already active; a
list that cannot be read ends the pass for the session (`LoadFails`).

### 3.5 The fee watcher (`FeeLedger`)

There is one task, and `pc` is where it is: reconciling at its start, asleep, sweeping,
resolving, withdrawing, or in one of the two halves of a write. `rec` is the state word
of each bid's file, "none" without a file; `tries` and `waits` are the two fields of a
deferred record, the second read as "its time has not come". `todo` is what is left of
the list a loop runs over, loaded once at its head; an error from a write ends the pass,
or in the reconciliation the watcher, which starts again only with the wallet.
`job` is the record being written and where to go on after it.

`ledger::write` is two steps, because the code removes the old file before it renames
the new one into its place: `Unlink` and `Rename`, with `Torn` for a kill or a failing
rename in between. A record is opened without a file to remove and needs one step
(`OpenRecord`). The state "attempting" is written before the withdrawal, and
the position "withdraw" is reached only behind that write.

The withdrawal has the four outcomes the code tells apart, by what became of the reply:
a txid; a refusal, or a node that cannot be reached; a reply lost before its head
(`is_transport_failure`, hence "indeterminate"); a reply cut in its body, whose error is
classified as a refusal. In the last two the payment may have been made.
`lost` counts, per bid, records lost in a torn write and replies cut in their body:
it is there to say exactly when a fee may be charged twice.

`old` is the set of bids made before the baseline marker was written; `mode` may differ
at every start. `Chargeable` is what the schedule says of a bid's pair; the balance gate
and the reserve for running swaps either let it pass or defer it. A deferral counts up
to `MaxTries` and then closes the record; a refusal defers without looking at the count,
which is then counted no further than `MaxTries`.

### 3.6 What is promised of a payment (`Payments`)

Three parts of the wallet pay for something and may not learn what became of it. What they
promise is one abstract machine. Of each item the wallet says one thing (`told`): nothing,
that a payment is open, paid, unpaid, unknown, or nothing any more because the session in
which it was begun is over ("forgotten"). An item is paid only while it is open or unknown;
it is opened only where nothing was paid and its *rivals*, the other items that stand for
the same payment, are unpaid for good; "unpaid" and "paid" are true when they are said, and
nothing leaves them but a loss. A loss (`Lapse`) is what the wallet knew being lost, and
allows one payment more.

| | item | rivals | told | lapses |
|---|---|---|---|---|
| `SessionSend` | a press of Send | every other press | the verdict of the dialog: refused, failed or expired is "unpaid" | none |
| `IntentsDeposit` | a quote | none | the attempt in the table; a quote is "open" from its claim on as long as a submission that has it may still sign or deposit, whatever another one wrote there | none |
| `FeeLedger` | a bid's fee | none | the state of the record on disk; between the two halves of a write, of the record being written | records lost in a torn write and replies cut in their body |

The second line shows why `told` is not the table alone: the failure of one submission may relabel
the attempt of another that is signing, or whose deposit is out and awaits its answer. The table
then says "retired" of a deposit that is made, and until the answer relabels it the user is
shown an error and offered a new quote (section 5). What the table does promise is that
a retired quote is not offered again: `OfferedIsUntouched`.

## 4. Runs

| run | checks | question |
|---|---|---|
| `recovery_leader` | `LockedLegIsScheduled`, `LeaderLegMoves` | A leader with a locked coin and a silent desk: is somebody scheduled at every instant, and does the coin leave in the end, although the advertised T1 is earlier than the chain's, two calls fail and the wallet is killed once? |
| `recovery_follower` | `TypeOK`, `RecoveredOnlyOnChain`, `WatchedUntilCommand`, `FollowerReclaims` | The same for a follower, three failures and a crash, and a tracker that may send one status or abort command to a desk that says anything. Until that command somebody watches at every instant and a refunded swap's coin comes back; with or without it a reclaim is recorded only when it is on chain. |
| `drive_leader` | `PresigBeforeLock`, `ReleaseNeedsTheirLock`, `RecordedLegIsScheduled`, `LockAndPresigKept`, `GateOpensOnLiveLeg`, `RecordedLegMoves`, `ImplementsExchange` | The drive and the net together, one fault, a desk that moves as it likes: the pre-signed refund is on disk before the coin is on chain and stays there through all whole-record saves; a recorded coin has its refund and its swipe scheduled while the drive runs and when it stands down, and leaves in the end; no gate opens on a coin gone for longer than a sighting may be old, the signature is released only against a lock, and the composed system implements `Exchange`. |
| `drive_crash_follower` | `LockAndPresigKept`, `ImplementsExchange` | The follower's drive with a kill at any step and a second drive after the relaunch, hence watchers of both origins: no save drops the pre-signature or the lock, and the same refinement, in which it never locks first. |
| `send_settles` | `TypeOK`, `SafeVerdictIsFinal`, `SessionNotLeftOpen`, `SendSettles`, `ImplementsPayments` | Two presses for one payment over a lagging pool, lost answers and other users of the session: are the verdicts true for good, is one press of them paid (`Payments`), does every press end? |
| `send_review` | `TypeOK`, `ShownForInputs`, `RelaysWhatWasReviewed`, `RelaysOnce`, `BuildsOnReview`, `BuildsOnce`, `PricingSettles` | Three payments typed and edited under a running call, in both modes: is what is shown, built and relayed the right one, once, and is it ever shown? |
| `intents_deposit` | `TypeOK`, `OfferedIsUntouched`, `ImplementsPayments` | Two quotes, two submissions, closed modals, layout switches, unknown outcomes, restarts: is a quote paid once, is what the table ends up saying of it true, and is a quote that is still offered neither paid nor in a submission's hands? |
| `intents_history` | `TypeOK`, `WrittenIsKept`, `PendingIsFollowed`, `RowsMoveForward`, `RowSettles` | Two swaps at one shared address, three pollers, refused reads and writes, time-outs, restarts: is a row kept, settled once and by its own answer, and never forgotten? |
| `fees_settle` | `TypeOK`, `ChargedOnceUnlessLost`, `OnlySettledIsCharged`, `RecordCloses`, `ImplementsPayments` | Two bids, one of them chargeable; deferrals, refusals, lost replies, failed writes, restarts in both modes, and one kill, torn write or cut reply anywhere: is a fee charged once and for the right swap, and is every record closed in the end? |
| `status_stops_reclaim`, `stale_done`, `fee_taken_twice` | one property each, violated | see section 5 |

That every follower locks second whatever the desk says is the theorem `FollowerIsSecond`;
the run has a silent desk and a crash. The follower's pre-signature before its lock is
`PresigIsOnDisk`, for both roles. A status or abort command beside the drive is
covered by the theorems of `DeskConductorProofs` only; the runs have it beside the net.

**Bounds of the desk runs.** The clocks have an instant before T1, T1, T2 and where it matters one before the
advertised T1 and one between it and the chain's; more instants only repeat these.
Two or three faults per run suffice to fail every attempt but the last
of a launch, and one crash to meet every position of every task; each `polls` bound lets a
status command start, answer and mirror around every other step. `MaxAge = 0`: a
sighting goes stale at the next instant. Deadlock is not
checked, because a swap ends: with the coins moved, the clock at its end and the tasks
finished nothing is left to do.

**Bounds of the front-end runs.** `send_review`: three payments are needed for a call
in flight, a review queued behind it and an edit back; numbers of builds are reused, so
nothing else is bounded. `send_settles`: two presses are enough for "again"; two servers
two ledgers apart with a margin of one is the widest spread the assumption allows, so
the margin matters; at `EndOfTime` 3 a transaction with every time limit can expire,
land late, and be missed by the lagging server. `intents_deposit`: a quote to retire
and one to replace it or to land late; two slots for the two forms, so that two submissions
meet over one quote or over both. Quotes touch each other only through the form and the
modal, which hold one each; the theorems are for any number of quotes and slots. `intents_history`:
two swaps share an address, one of them looked at; details are opened again only once
their last write is over (`QuietDetails`), which keeps the queue finite and drops only
repetitions of one patch.

**Bounds of `fees_settle`.** Two bids, because an error while one is written ends the pass
of the other, and because one settles with a fee and one without. `MaxTries` 2 gives a deferral
that is tried again and one that expires. One fault is a kill, a torn write or a cut reply at any
step; restarts without a fault follow from it, as does the watcher that a failing
reconciliation ends. More bids and faults multiply the states of the liveness check
and bring no new step; the safety theorems hold for any number of both.

**Fairness of the desk.** Liveness is stated under weak fairness of the clock, of the relaunch
(launch and rehydrate), and of each watcher task, which the async runtime polls and whose
engine calls all carry time-outs. The drive and the desk owe nothing: the user may never
press "proceed", and every step of the drive may fail. A crash is never fair.

**Fairness of the front end.** `SendReview`: React runs effects, timers fire, and a wallet
call ends (all have time-outs); the user owes nothing. `SessionSend`: the web view runs a
task whose call has ended, calls end, the wallet's clock reaches the deadline; the
network owes nothing, not even a ledger. `IntentsHistory`: the store answers every call,
if only with an error, the resume pass goes on, a poller that asks on is answered; nobody
owes a restart, an open details view or a decision of 1Click. A poller may time out before
it is answered, and the list of an earlier session's rows may not be readable, so
`RowSettles` excepts a row whose poller gave up, and one that nobody took up because
this session could not read the list.

**Fairness of the fee watcher.** The watcher goes on, and the user starts the wallet
again; a backoff ends. What can fail every time is assumed not to: the removal and renaming of
a file, the node's list, a bid's details, a withdrawal (strong fairness of the
successful outcome). Kills are never fair, and the user owes no swap.

**What liveness needs.** A leader's coin survives three failing calls per launch (the refund
at T1, then at T2 the refund, the swipe and the retried refund by each of
two watchers); with more it waits for the next launch. `recovery_leader` allows two
because there the early watcher uses up its one refund before the chain allows it.

## 5. What the runs found

Three runs show the code doing otherwise than a comment in it says; `PROJECT.json`
quotes the lines.

* `status_stops_reclaim`: `desk_status` raises the stop flag and removes the record when
  the desk truthfully reports A_REFUNDED, and stops the follower's reclaim that this
  refund made possible (`commands.rs:761`, against `reclaim.rs:15-17`).
* `stale_done`: a quote fetch that is running when the modal opens lands while the form is
  paused (`useSwapQuote.ts:964`), so that on close the next quote is there at once and
  the modal component stays mounted. The last swap's poller then sets `setStage("done")`
  (`SwapConfirmModal.tsx:484`) on the modal that is signing the next swap: it shows
  "done", is not busy (`modalIsBusy`) and can be closed while the signature runs.
* `fee_taken_twice`: `ledger::write` promises "temp file + rename" and at most one charge
  (`ledger.rs:14-24`) but removes the old record first (`ledger.rs:121`). The fee is paid, its
  attempt marker removed, and the rename fails or the wallet is killed: no record is left, the next
  sweep opens the bid as new, and the fee is withdrawn again. `ChargedOnceUnlessLost`, checked and
  proved, says that besides a cut reply this is the only way.

More were met while modelling and are kept here without a run of their own; the first
four were reproduced by TLC with one status command, or one lost or early answer:

* `desk_status` saves a record loaded earlier and drops a refund recorded in between
  (`commands.rs:775`).
* A lock that was published while its answer was lost is unknown to the record, so the
  stand-down tears the net down (`conductor.rs:1839`).
* The reclaim watch of a drive ends for good if it sees a spent chain A before our lock is
  recorded (`reclaim.rs:434`).
* `desk_proceed` on an already locked swap, after a crash, locks a second output
  (`commands.rs:876`), which the resume entry calls "the double-lock this entry exists
  to make impossible".
* The refund is announced to be retried until T2 (`refund.rs:430-433`,
  `conductor.rs:1873-1876`); the watcher fires once and ends (`watch.rs:197-225`). The swipe
  at T2 catches it, which `LeaderLegMoves` checks.
* One terminal word of the desk, true or not, stops a leader's refund and swipe watchers
  (`commands.rs:761`), although `mod.rs:42-44` says the refund watcher recovers "with the
  desk offline or hostile".
* `desk_abort` removes the record under a running drive without raising its flag
  (`commands.rs:811`); a drive past its last call to the desk goes on to lock with nothing
  on disk.
* The drive deadline is read in the wait loops only (`conductor.rs:2107-2118`), so a lock can
  go out past T1, although `conductor.rs:1855-1858` says that locking there is
  pointless.
* `closeSendSession` checks that the session is its own and then locks whichever is open
  (`session-send.ts:160-171`): a swap that unlocks in between loses its session, which the
  comment above it says cannot happen, and so it does when the sweep card resets
  (`SweepBackSection.tsx:307`). The definition `SwapKeepsSession` states it.
* Review pressed for inputs whose build still runs, after an edit and back, is swallowed
  and the snapshot does not say "pending" (`quoteController.ts:201`): `PendingWhileCalling`.
* "A quote that broadcast (or may have) is never re-labelled 'retired' by a later error"
  (`intents-attempts.ts:187`) is kept once the hash or the unknown outcome is recorded, not
  while the deposit is out and its RPC awaited (`swap-execute.ts:811-1156`): the entry is
  "claimed" then, and a submission that overlaps on the quote and fails makes it "retired". The
  modal shows the error and offers a new quote. One deposit per quote holds all the same
  (`QuotesArePaidOnce`); the user may pay the new one too.
* The details view asks for a status by the address alone (`swap-details.ts:436`) and takes
  any answer, so that one XLM swap at the shared address is settled by the status of
  another. The definition `DetailsTellOwn` states that this never happens; TLC refutes it.
* A reply that breaks off in its body is an error "could not read the swap node's reply"
  (`swap_bridge.rs:434-440`), without the prefix of a transport failure, although the comment on
  that prefix names "a reset mid-body" (`swap_bridge.rs:377-384`). The withdrawal that may
  have gone out counts as refused and is made again: the action `ReplyCut`.
* A refused withdrawal is deferred without a look at `MAX_DEFER_TRIES`
  (`sidecar_fees/mod.rs:1072-1083`), so that "give up deferring after this many attempts"
  holds for the balance gate only.
* `reserve_for_active_swaps` skips a row whose amount is not a string
  (`sidecar_fees/mod.rs:498-506`), although its comment says that such a reply fails closed.

## 6. Proofs

### 6.1 The desk

The theorems hold for every clock, role, advertised T1 and bound; they rest only on the
named assumptions of the modules (times are naturals, T1 before T2 within the clock, the
bounds are naturals, the two roles and three kinds of desk).

`DeskRecoveryProofs`, the net alone:

* `TypeCorrect == Spec => []TypeOK`. Direct induction. One lemma per task (`FireTypes`,
  `PlanSwipeTypes`, `ReclTypes`, `UiTypes`, `SpawnTypes`), one step per action.
* `RecoveryIsReal == Spec => []RecoveredOnlyOnChain`. The property is not inductive: a
  task may save a copy of the record loaded long ago, or be about to record a recovery. The
  strengthening `RecoveryInv` says that every copy in flight is as true as the record, and
  that a task in position "saving" has made the recovery it will record; it is kept
  because recoveries are final on chain (`ChainFinal`).

`DeskScheduleProofs`, the net alone, as long as no status or abort command was sent:

* `LegIsWatched == Spec => []WatchedUntilCommand` and
  `LegIsScheduled == Spec => [](NoCommand => LockedLegIsScheduled)`, for every number of lost
  calls, refused writes and kills. Neither is inductive: whether a watcher stays depends on
  the record it will load and on the chain it will look at. `ScheduleInv` adds that no flag
  is up, that the record of a coin still in the joint output is intact (`Intact`), that no
  watcher acts on the other role's coin, and where the tasks that rehydrate spawned stand
  (`Guarded`): the reclaim watch has not ended, the refund waits until T1, the swipe is
  planned or waits until T2. `FireShape` and `ReclShape` say what a step of a watcher can do
  at most and when it may end; that a save comes only after a recovery on chain is
  `RecoveryInv`.

`DeskConductorProofs`, the drive and the net together:

* `ConductorTypeCorrect == ConductorSpec => []ConductorTypeOK`, in no run of its own. The net's steps reuse
  `StepTypes`; the drive's steps are grouped by what they touch (`DriveSteps`).
* `GatesOpenOnLiveLegs == ConductorSpec => GateOpensOnLiveLeg`, for every `MaxAge`. `GateInv`
  says that the coin in sight is still locked, or left at an instant `movedAt` no earlier than
  the sighting; what it rests on is that a leg once gone stays gone (`LegsOnlyLeave`), that only
  a locked leg is sighted, and that a step forgets both or keeps the history up (`SightSteps`).
* `FollowerIsSecond` (`FollowerLocksSecond`, in no run of its own), `ReleaseIsCovered` and
  `ConductorImplementsExchange` share the invariant
  `OrderInv`. `LegsInOrder` is the order on chain (no signature without the follower's coin, no
  follower's coin without the leader's, no exit of chain B without its counterpart on A);
  it needs `DriveInOrder`, which says that a drive in front of a commitment, or holding
  a sighting, has the other leg behind it. Each step is then an `OrderlyMove` of the
  chains, and an orderly move, read through the refinement mapping, is a step of
  `Exchange` or a stutter (`OrderlyIsPromised`).
* `PresigIsOnDisk == ConductorSpec => [](NoCommand => PresigBeforeLock)` and
  `SavesKeepLockAndPresig == ConductorSpec /\ []NoCommand => LockAndPresigKept` hold until the tracker
  sends a command, whatever the desk answers to the drive (after one, `desk_abort` and
  `desk_status` break them, section 5). Both runs are instances: `NoCommandStays` shows that none
  comes from a silent desk or where none is allowed. The invariant `DiskInv` follows
  the pre-signature through every copy of the record: each copy a task may save has
  the lock and the pre-signature, the drive's copy has the pre-signature from M3 on and the
  lock whenever the disk has it, and the disk has the pre-signature before the drive
  reaches its lock.
* `RecoveryIsRealUnderDrive` carries `RecoveryInv` over to the composed system, with the
  drive's copy in it.
* `RecordedLegIsOnClock == ConductorSpec => [](NoCommand => RecordedLegIsScheduled)`: beside any
  drive, a leader's recorded coin keeps its refund and its swipe. For the follower this is
  false: its reclaim watch may end before the lock is recorded (section 5). The
  property is not inductive, because a save may record a lock long after the watchers were
  spawned, and a stand-down may raise the flag they share. `NetInv` adds, for a coin at stake,
  that no copy of the record says the swap is over or has lost the T2 the swipe was planned by,
  that only a drive which ended before the lock was recorded has raised a flag, and
  that whoever drives has watchers on the clock (`OnClock`). It rests on `DiskInv` (the record is
  there), `TruthInv` (a refund is saved only after it), the order of the chains, and the
  shapes of the watchers' steps from `DeskScheduleProofs`.

### 6.2 The front end

Each module has one inductive invariant, proved by one lemma per action, from which each
result follows by its definition. The assumptions are those of the modules: `None` is no
quote or input, every swap has an address, the spread of the pool is at most a ledger more
than the margin.

* `SessionSendProofs`. `SendInv` adds to the types that ledgers and servers are in order and
  the pool together (`LedgersInOrder`, `PoolTogether`), that a transaction is waiting,
  included or not yet submitted (`OneFate`, `NotYetSubmitted`), that one send is under
  way at a time (`OneAtATime`), and what each verdict and each clock reading says of the
  network (`VerdictsTrue`). The heart is "expired": the ledger clock read *before* the
  lookup, less the margin, is past the time limit, so every server the lookup can reach
  already holds every ledger the transaction could be in. `SafeVerdictHolds`, `PaysOnce`,
  `SuccessHolds`, `SessionsAreClosed`, and the refinement `SendsArePayments` (6.4).
* `SendReviewProofs`. The invariant says which inputs a snapshot, a kept build and a call
  stand for (`ShownOK`), that the builds handed out differ from those held (`BuildsOK`),
  and that a queued review was asked for (`ReviewOK`). `AnswersKeepInputs`,
  `RelaysTheReviewedBuild`, `RelaysTheBuildOnce`, and the action properties
  `BuildsForReviews` and `BuildsSpendsOnce`, from the lemma `StartsWhenAsked`.
* `IntentsDepositProofs`. One submission at most is past the claim of a quote; what was
  sent is what the table says of it, or of an earlier session. `QuotesArePaidOnce`,
  `OfferedQuotesAreUntouched`, and the refinement `DepositsArePayments` (6.4).
* `IntentsHistoryProofs`. A write that has read the list read the list as it is, because
  it is the only one; a job carries the status of its own swap unless the details view made
  it; a pending row of an earlier session is in the list the resume pass loaded.
  `WrittenRowsAreKept`, `RowsAreSettledByOwn`, `PendingRowsAreFollowed`, and the action property
  `RowsOnlyMoveForward`: every change of a row is its first write or its settlement. For the first
  write one more fact is needed, `FirstWriteOnce`: while a swap's first row is on its way into the
  list there is no row of it yet, and no second such write (`HistoryWritesOnce`).

### 6.3 The fee watcher

`FeeLedgerProofs` proves, for any set of bids and any number of faults, `FeeTypeCorrect`,
`FeeIsChargedOnceUnlessLost`, `FeeIsChargedOnce` (without lost records and cut replies,
plainly once) and `FeeIsForSettled`, all from one invariant. `ChargedOnceUnlessLost` is not
inductive: a withdrawal could start on a bid that was charged. What is added says that a
withdrawal runs under its own marker on disk, that only a bid whose charge is still
due is marked, that what is left of a pass still has the record it was loaded with, and that a
record about to be written as unpaid was not charged. The whole of it is `LedgerInductive`; the
refinement `FeesArePayments` (6.4) adds to it what the record being written replaces
(`StartIsFresh`, `JobFollows`) and that one written as paid was charged (`JobIsPaid`).

### 6.4 The refinements of `Payments`

`SendsArePayments`, `DepositsArePayments` and `FeesArePayments` prove
`Spec => ImplementsPayments` for every value of the constants. Each rests on the module's inductive
invariant and follows one pattern: a lemma per action says which abstract step it is, with the
item whose telling changes, or that it is none. What the proofs have to establish beyond the
invariants is where the code's promise lies:

* a send opens (`Start`) only when every other press has a safe verdict, which by
  `SafeVerdictIsFinal` stays unpaid; "expired" is a true report by the argument of 6.2;
* a submission that ends without a deposit reports nothing while another one holds the same
  quote, and the quote is closed with the last of them; a restart is `Forget`, after which no
  quote that was used is offered again;
* a fee's record is opened, marked and closed in two-step writes, of which the abstract step is the first;
  a torn write, a cut reply and a kill in between are the `Lapse` that counts in `lost`.

That of two presses one is paid, that no quote is paid twice and that a fee is charged once but
for losses are then facts about `Payments`; they are also theorems of their own (`PaysOnce`,
`SuccessHolds`, `QuotesArePaidOnce`, `FeeIsChargedOnceUnlessLost`).

### 6.5 Only model-checked

The liveness properties (`LeaderLegMoves`, `FollowerReclaims`, `RecordedLegMoves`,
`SendSettles`, `PricingSettles`, `RowSettles`, `RecordCloses`), which need fairness and ENABLED, out of the
prover's reach. Every safety invariant, action property and refinement of a passing run is proved;
`PresigBeforeLock`, `LockAndPresigKept`, `RecordedLegIsScheduled` and `LockedLegIsScheduled` as
long as no command was sent, which is so throughout the runs that check them.

## 7. Limits of the models

The desk:

* One swap at a time; nothing in the net shares state between swaps but the registry map
  and the engine's pipe.
* `save` is atomic and complete. Two saves at the same moment share a temporary file in the
  code; that is a hazard no property covers yet.
* At most one drive per launch. A second `desk_proceed` while one runs, or after it ended in
  the same launch, is not modelled; one after a relaunch is.
* Claims are atomic and confirmed at once: no mempool, no reorganisation, no fee bump.
  Depth is part of what a sighting means.
* The verdict `SecretUnreachable` of the reclaim watch (an engine backend without
  extraction), the command-line entries for resume and reclaim, and the hold that only the
  command line uses are left out. The claim of a buyer is not resumed after a restart by
  any code in `src`, nor here.
* The engine's T2 and the record's T1 are never changed after the accept.
* Data are abstract: amounts, addresses, keys and signatures do not appear; the checks on
  them are a `Fails` of the step that makes them.

The front end:

* `SendReview` leaves out fee tiers, destination tags and memos, and the age limit of an
  estimate (a reviewed build has none). One opening of the modal: a new one starts afresh.
* `SessionSend` leaves out the NEP-141 token send, which may need two transactions, and
  what the builders check of the data. A crash ends the presses; nothing of a send is stored.
* `IntentsDeposit` leaves out the quotes of other providers and their confirm branches. That
  1Click never repeats, in a later session, a quote that an earlier one used is assumed:
  the table of attempts is in memory only.
* `IntentsHistory` leaves out the 200-row cap (a pending row can be cut off by 200 newer
  ones), the settling of rows older than deposit addresses (`intents-stale-rows.ts`), and
  the age after which a pending row is no longer asked about. A refused write changes
  nothing; a kill between the deposit and its row loses the row, and nothing in the code
  covers that.

The fee watcher:

* A record that cannot be parsed (it is an error, never "no record"), the sleeps and what wakes the
  watcher, the read-only commands of the settings, and the figures of the schedule, of the
  balance and of the reserve are left out. Bids the wallet received are not swept by the
  code. Creation times are compared with the baseline without regard to clocks that differ.
* A withdrawal is one step of the node; that the node pays at most once per call is assumed.

Not modelled, and why: see the notes in `PROJECT.json`. The BasicSwap side
(`swap_sidecar.rs`, `swap_daemon.rs`, `swap_bid.rs`, `src/features/swap-sidecar`) and the
miners are state machines around external processes whose behaviour is not in this
repository; the wallets of the chains, the pools and the bundles are cryptography, parsing
and I/O.

## 8. Plan

Done: the desk, the send modal, the session-signed send, the deposits and their
history, the fee watcher.
Worth doing next, in this order:

1. `EnginePipe`: the two lanes of `desk/sidecar.rs` with time-out, poison and restart;
   property: an answer is never delivered to another request.
2. `LockObserver`: the poll order of `observer.rs`, its staleness rule and switch; refined
   by the cell of `DeskConductor`.
3. `MinerLane`: generations, death watch and recycle of one miner lane.
4. A store with two-step saves, and a second concurrent drive, as variants of
   `DeskConductor`.
