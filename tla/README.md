# Verification of BrainMVB: payments and their evidence

BrainMVB is a React client and an Express server in front of *brain-core*, whose
snapshot lives in `src/.tmp-brain-core/`. Agents propose payments, members of the
tenant approve them, and brain-core executes them on a bank or on-chain rail. This
project models first the part where a mistake moves money: how a PaymentIntent is
approved, how the funds of an account are promised to several of them, how one is handed
to the execution outbox, and how the outbox worker drives it to an outcome although
processes die, rails time out and audit writes fail. Then it models what the tenant is
told of it: the hash-chained audit log, its anchors on chain, and the webhooks that
forward its events.

Paths below are relative to `src/.tmp-brain-core/`.

## Inventory

| Component | State | Operations | Interacts by | What makes it correct |
|---|---|---|---|---|
| Payment intents (`services/execution/src/payment-intents`) | `ledger_payment_intents.status` | create, approve, reject, cancel, pause, resume, execute, haltAgent; completeExecution and failExecution for the worker | conditional `UPDATE ... WHERE status = from`; one transaction for the hand-off | one outcome per intent; a decision stands; nothing handed off without its approvals |
| Approvals, members, gate (`approvals`, `members`, `shared/src/gate`) | signatures (version, stale), members, gate decisions | sign, list, mark stale, authorizeApproval, runPreExecutionGate | called inside approve, resume, execute; several awaits apart from the status transition | no signature counted twice or for another version; dual control holds under concurrent requests |
| Policy (`services/policy`) | versions with one active; per-agent spend windows | draft, sign, activate, evaluate | read by approvals and gate, each in a transaction of its own | a replaced version no longer authorises |
| Execution outbox and worker (`services/execution/src/outbox`) | `execution_outbox` rows: status, lock, attempts, receipt | claimNext, reclaimStale, dispatch, mark*, settle, park | `FOR UPDATE SKIP LOCKED`, age of the lock, `setInterval` cycles in several processes | one settlement; no stranded payment; bounded attempts; a stored receipt stops the rail |
| Rails (`services/execution/src/rails`, `services/api/src/rails`) | transactions in flight | bank_ach, onchain_base, x402_base, escrow_base, erp_writeback | external calls with timeouts | a receipt means money moved |
| Reservations (`services/ledger/src/repository/reservations.ts`) | a hold per intent, against an account whose balance the bank feed writes | reserve, consume, release, expire | inside the hand-off and settlement transactions; a row lock on the account | a hold is active exactly while the payment is out; the same balance is not reserved twice |
| Smart account and session keys (`contracts/src/BrainSmartAccount.sol`) | replay nonce, grants, caps, windows, pause | execute, grant, revoke | transactions under one key | nonce used once; caps hold |
| Escrow, policy, reputation, anchor and registry contracts (`contracts/src`) | on-chain records | lock, release, refund, dispute; publish; anchor; register | transactions | see the plan |
| Audit log, anchoring, reconciler (`services/audit`, `services/api/src/anchor-cycle.ts`) | hash-chained events, anchor rows, recorded roots | emit, cut a window, publish, broadcast, confirm, reconcile | one lock per tenant for emits, none between publishers; the chain | no event lost between windows; confirmed means on chain; proofs match roots |
| Webhooks and dead letters (`services/audit`, `shared/src/webhooks`) | endpoints, dead letters, receipts | dispatch, retry, reconcile, replay | HTTP, workers under an advisory lease, requests | delivered, or exhausted and reported; attempts bounded; resending ends |
| Idempotency (`shared/src/idempotency`) | key, request hash, stored answer | begin, complete, replay | middleware around handlers | one effect per key |
| Leases and interval workers (`shared/src/workers`) | advisory locks, timers | try, run, unlock, stop | shared by all workers | one holder; a cycle is never overlapped by itself |
| OAuth and agent keys (`services/auth`) | codes, refresh families, keys | authorize, exchange, rotate, revoke | concurrent token requests | single use; reuse revokes the family |
| Agent router, agent runs, proposals, sagas | runs, proposals, decisions | route, run, propose, decide | queue, LLM | a proposal is decided once |
| Agent registration relay | registration rows, relayed transactions | request, relay, confirm | registry contract | registered once |
| Tenant deletion, graduation, provisioning | deletion and blob-purge rows | delete, purge, provision | workers | nothing left behind, nothing deleted of another tenant |
| Raw, canonical, ledger projection, wiki, rate limits | documents and projections | ingest, extract, project | queues | data conversion; little protocol |
| BFF server and web client (`src/server`, `src/client` of the repository) | sessions, demo tenants | proxy, create and delete demo tenants | HTTP | a session acts for its own tenant |

What is hard to test is listed, at its line, under `hazards` in `PROJECT.json`: a
process that dies between a rail's answer and the row that records it; rows taken from
workers that are slow and not dead; transfers that land after the caller stopped
waiting; transitions decided on a status read several awaits ago; signatures, policy
versions and members that change between the steps of a request; a balance that falls
days after the money has left; events that commit behind the window that should hold
them; dead letters that three kinds of sender work on and nobody claims.

## Modules

| Module | What it is |
|---|---|
| `ExecutionOutbox` | execute's hand-off, the kill-switch, the outbox row, the worker's cycle, the rails and the chain |
| `PaymentSettlement` | the abstract promise: each payment is handed off, then settled or failed, at most once, with its posting and its hold |
| `ExecutionOutbox_proofs` | theorems about `ExecutionOutbox` |
| `OutboxBudget_proofs` | what one payment can cost, that none is stranded, and when money moves once |
| `IntentApproval` | one intent from creation to the hand-off: approve requests, signatures, policy versions, the gate's approval checks, execute and resume |
| `ApprovalByQuorum` | the abstract promise: a signature each, enough signers to approve, a quorum to hand off or resume |
| `IntentApproval_proofs` | theorems about `IntentApproval` |
| `ApprovalPromises_proofs` | when the two documented promises hold that approvals break in general |
| `AccountReservations` | several intents against one account: the gate's balance check, the hand-off's row lock, holds, settlement, the bank feed, the agent's spend window |
| `AccountReservations_proofs` | theorems about `AccountReservations` |
| `AuditLog` | one tenant's log: emit under its lock, stamps, predecessors, idempotency keys |
| `AuditAnchoring` | EXTENDS `AuditLog`: the scheduler and the publish route, the contract, the reconciler |
| `AuditEvidence` | the abstract promise: logged, anchored, on chain, in this order and for good |
| `AuditAnchoring_proofs` | theorems about both |
| `WebhookDelivery` | endpoints, the inline dispatch, the dispatch worker under its lease, the replay route |
| `WebhookDelivery_proofs` | theorems about `WebhookDelivery` |
| `MC...` | instances for TLC |

The modules meet where the code does: `ExecutionOutbox` and `AccountReservations` both
implement `PaymentSettlement`, each keeping what the other abstracts (what the rails and
the workers do to one payment; what several payments do to one balance), and
`IntentApproval`, which implements `ApprovalByQuorum`, ends at the hand-off with which
they begin: what leaves it as `dispatching` is a payment that is handed off there.

`map` in `PROJECT.json` gives the source lines of every definition. Operators named
`X_Something` and marked `Mutant` are plausible bugs in the code of `X`; no
specification uses them, they exist to show that each property can fail.

### ExecutionOutbox

Each intent has a ledger status, a reservation, a count of postings (`executions`), an
outbox row (`rowStatus`, `lockedBy`, `attempts`, `receipt`) and a count of how often its
money `moved`; each worker has a step `pc`, the row it processes (`current`), the rest of
its claimed batch, and the snapshot of which claimed rows carried a receipt (`resumed`).

* `Gate`, `Handoff`, `HandoffAborts` are execute: the gate and the hand-off are awaits
  apart, the hand-off is one transaction. `Pause`, `Reject`, `ResumeGate`, `Resume`,
  `HaltAgent`, `RestoreAgent` are the requests that race it. Pause and reject read the
  status and move the intent in two statements; since the second one is conditional on
  the status read, they are one action.
* `Reclaim`, `Claim`, `Start`, `Dispatch`, `RailAccepts`, `RailDeclines`, `RailTimesOut`,
  `RailReverts`, `Record`, `Settle`, `SettleAgain`, `SettleThrows`, `MarkSettled`, `Retry`,
  `Park`, `Announce`, `FailIntent`, `FailIntentThrows`, `MarkFailed` are the steps of
  `processClaimedRow` between which the process can die; `Abort` is that death, or an
  audit write that ends the cycle.
* On-chain, x402 and escrow payments spend under one session key. A call reads the live
  nonce, its transfer uses it up, and whatever else was broadcast under that nonce
  reverts. A transfer whose caller stopped waiting is *stray*: it lands later or never.
  The bank is keyed by the idempotency key, so a repeated create moves nothing more.
* `LockStale` abstracts the clock. A worker in `SlowWorkers` may lose its row while it
  works; any other one is assumed to finish a row before `staleSeconds`.
* What each rail's parser demands and what its receipt carries is modelled as sets of
  fields, since it decides whether a payment can settle at all.

### IntentApproval

An approve request is five steps: `ApproveReads` (the status), `Authorize` (member,
stored signatures and policy), `SignReads` (the version the signature will carry),
`Sign` (the insert) and `Advance` (the conditional transition). `ApproveThrows` is every
refusal, `ApproveAbandoned` a failed call or a dead process after any step; a stored
signature stays in both. Reading the member, the signatures and the policy is one step:
these reads decide nothing before the last of them. execute and resume are
`GateReads`, `GateEvaluates` (policy version), `GateCounts` (mark stale, count),
`GateMoves`. `Activate` replaces the policy, `ChangeMember` takes a member's authority
away or gives it back, `Reject`, `Cancel` and `Pause` are the other requests.

A policy is a table: what each version decides of this intent, and which slots it
requires. The quorum counts *roles*, as the code does: `RoleQuorum` is
`hasRequiredRoleQuorum` stated without its loop. That every slot then has a member of
its own is not assumed but proved (below).

### AccountReservations

execute is `GateReads`, `GateChecks` (balance net of the active holds, and the window
cap), then the hand-off transaction: `LockAccount`, `SumHolds`, `Grant`. Between them
other intents settle (`Settle`, which takes no lock), fail, or a feed writes a balance it
fetched earlier (`FeedReads`, `FeedWrites`; the write waits for the row lock). The
balance is what the last written snapshot of the bank's debits leaves of `Opening`. Sums
of amounts are cardinalities of disjoint unions (`UnitsOf`), which theorems can use
where a fold could not be unrolled. `failExecution` asks nobody whether the money moved,
so `FailPayment` may release the hold of a payment that did (`failed_after_timeout` shows
how). `Gone` are the payments that were paid and are no longer reserved, consumed or
released. `blind` and `overtaken` are history variables: they record when a hold was
granted while one of `Gone` was not yet in the balance, and who was in flight while
another executed. Both are real weaknesses of the code; the properties say exactly what
remains true.

### AuditLog and AuditAnchoring

`Emit` is the transaction up to its commit: it holds the tenant's lock, looks the key up,
picks the newest event (any of those with the latest stamp, since ids of one millisecond
are in no order), and stamps with the process's clock, which `Offsets` lets be off. It
becomes visible at `Commit`, later: an event may commit behind a window that was cut
meanwhile.

A publisher takes the time (`Start`; the scheduler first broadcasts again what is
pending), asks for the oldest event after `covered_to` and derives a window (`Cover`,
`TakeWindow`), lists the window's events (`ListEvents`), stores a row (`CreateAnchor`),
sends (`Send`, `SendRefused`), waits (`Mined`, `MinedReverted`) and writes each result
(`WriteResult`). Listing and insert are two statements at READ COMMITTED, so an event may
commit between them. `Stop` ends a publisher at any point and may leave its transaction in
the mempool, to be mined late. A root stands for the set of its leaves.

When the coverage query finds nothing the two kinds of publisher differ: the scheduler has
no row for the tenant and stops (`NothingToCover`), while the route goes on with its own
time as the oldest event (`CoverNow`, `routes.ts:329`) and lists whatever has committed
since.

The log and its windows are in milliseconds. The broadcaster floors both ends of a period
to seconds (`Seconds`, `anchorBroadcaster.ts:349-350`, `460-461`) and the contract compares
those, so `latest` is the root the pointer names with its end in seconds.

Two history variables name the events that windows miss. A *straggler* commits behind a
window that has been listed, or behind a later event that is already visible. An event is
*passed* if it commits behind the window a call of the route is about to list.

What the model shows of the code besides its properties:

* A straggler behind a window is in no later one and breaks the proofs of the window it
  fell into, which the route builds from the events now in the window (`routes.ts:106`); so stragglers are
  named in `ProofsMatchAnchors` and `NothingSkipped`.
* "publishAnchor's existing 'no events' path fires below" (`routes.ts:327-328`) is not
  what happens if events commit between the coverage query and the listing. The route may
  then anchor an event of its own time and put one of an earlier stamp, which committed
  just before it, behind `covered_to` and in no root. That is why `NothingSkipped` names
  the passed events too.
* Within one second the latest pointer can go back: an older window that ends in the same
  second as the newest and is mined after it takes the pointer over, the "stale root as
  current" that the contract's comment rules out (`BrainAuditAnchor.sol:133-137`).
  `LatestIsNewest` says what is left: the pointer is behind by less than a second.
* The route reverts its row on status 0 without another look at the chain, also when the
  scheduler published that root meanwhile (`SchedulerNeverReverts` is about the other kind
  of publisher).
* A chain may fork when clocks tie or disagree, which is all that is left of "cannot fork
  under concurrency" in `emitter.ts`.

### WebhookDelivery

A pair of an endpoint and an event has at most one dead letter, whose `attempt_count` is
`rows`. Every sender first lists what it will send, calls the endpoint (`Dispatch`,
`Retry`, `Redeliver`, `Replay`) and records the outcome in a later step, so any of them
may act on rows that others have changed or deleted: `stale` holds listed rows whose id
is gone, which an update or delete by id then misses. A transaction's writes are one
step, at its commit: they come after the last call, and earlier row locks only order the
commits. `Crash`, `DispatchLost`, `ReplayLost` end a sender at any point; `LoseLease` is
the session with the advisory lock ending under a cycle that goes on.

`wide` says whether the worker's pool sees all tenants. Its comment requires it
(`webhook-dispatch-worker.ts:18`), but `main.ts:1493` passes the application pool, and
the tables it scans are under FORCE ROW LEVEL SECURITY
(`services/audit/migrations/0007_force_rls.sql`): with a role that does not bypass it
both scans return nothing. Safety is checked for both; progress is stated where `wide`
holds.

What the model shows besides: a redelivered dead letter leaves no receipt, so the
reconcile scan sends the event once more, and if that fails the count starts anew
(`ResendingEnds` is what is true: resending ends unless calls fail for ever). Exhaustion
can go unreported when another sender counts the attempt that reaches the cap, or the
process dies before it reports; and it can be reported for a row that was deleted
meanwhile. A new endpoint is sent the events of the past seven days.

## Runs

| Run | Instance | Question | States |
|---|---|---|---|
| `outbox_timely` | 2 payments (on-chain by an agent, escrow by a member), 2 timely workers, all faults, 1 execute each, 1 abort | books, claims, receipts, attempt budget, kill-switch, refinement | 316 000 |
| `outbox_slow` | 1 payment, 2 slow workers, 2 executes, 2 aborts | what two workers on one row can cost, and what survives them | 114 000 |
| `outbox_live` | 1 payment, 2 workers, fairness | every hand-off ends settled, failed or parked | 11 000 |
| `intent_approval` | 2 members (one under dual control), 3 policy versions, 2 gates, any request may die | quorum at the hand-off, enough signers, finality, refinement | 877 000 |
| `account_reservations` | 3 intents (two of 2 units that reserve, one of 1 that does not) against 3 units, 2 feed jobs | holds against a moving balance, double promises, failures of what was paid, the window cap, refinement | 71 000 |
| `audit_anchoring` | scheduler and publish route, 2 events in windows of 1 ms, seconds of 2 ms, 1 late transaction, reconciler; 3 events and a key for the chain alone | gaps, the latest pointer, confirmed and reverted rows, proofs, forks, refinement | 445 000 |
| `webhook_delivery` | 1 endpoint, 1 event, 2 replicas, 1 replay, cap 2, 1 crash, 1 lost lease, fairness | attempts, reports, nothing written off, delivered or exhausted, resending ends | 237 000 |
| `crash_moves_twice` | 1 payment, 1 abort, no fault | "a crash-retry never moves money twice" fails | |
| `failed_after_timeout` | 1 payment, a time-out and a revert | "definitive rejection (nothing moved)" fails | |
| `x402_never_settles` | 1 x402 payment, no fault | "converges to exactly one settlement" fails | |
| `overlapping_approvals` | 2 members, 1 policy, no fault | "distinct second approver signed" does not approve | |
| `two_admins` | 2 admins under admin-and-approver, no fault | "clears it for dispatch" does not | |

### Properties

`LedgerConsistent` ties status, row, postings and reservation together;
`NoPaymentWithoutMoney` says that receipts and executed intents have money behind them and
money moves only after the hand-off; `ExclusiveClaim` is about the lock and
`RowRecoverable` about its recovery: the row of a payment that is out can be claimed, is
parked for operators at the ceiling, or is in flight under a lock that `reclaimStale`
sees. `ReceiptStopsRail` is what prevents paying again once the receipt
is stored; `MovesPaidFor` bounds repeated movement by counted attempts and crashes, and
`SpendingBounded` is what is left of both the ceiling and that bound when several workers
hold one row;
`ExhaustedOnce` is about the alert for operators; `HaltIsEffective` is the kill-switch;
`ImplementsSettlement` is the refinement of `PaymentSettlement`; `EventuallyResolved` is
progress. `HandoffHasQuorum`, `ApprovedByEnough` and `DecisionIsFinal` are about
approvals; `ImplementsApproval`, the refinement of `ApprovalByQuorum`, says them of every
step at once, of the resume after a pause too, and that no signature is ever replaced.

`ReservationsFit`, `FundsPromisedOnce` and `CapExactWhenSequential` are about money
promised twice. `NothingSkipped`, `ProofsMatchAnchors`, `ConfirmedIsOnChain`,
`LatestIsNewest`, `SchedulerNeverReverts`, `KeyedOnce` and `ForksOnlyWhenClocksTie` say
what an auditor may rely on; `ImplementsEvidence` is the refinement of `AuditEvidence`.
`AttemptsBounded`, `OneReplicaDrains`, `WrittenOffOnlyIfDelivered` and `ReportedAtTheCap`
bound what unclaimed dead letters suffer from concurrent senders; `EventuallyHandled` and
`ResendingEnds` are their progress. Each passing run keeps its property list short and
each property has a mutant of the code that breaks it under the run's own bounds.

### Bounds

* `MaxTotalAttempts = 3`, `MaxDispatchAttempts = 2` stand for 12 and the row's
  `max_attempts`: small enough to reach both ceilings, and different, so that confusing
  them shows.
* `MaxRequests` bounds the execute calls that pass the gate, per payment, and `MaxAborts`
  the abandoned cycles; pauses, rejections, resumes, halts and restores are not bounded.
  One of each against two payments and two workers gives the races between payments; two
  executes that race each other and two crashes are explored with one payment.
* Two workers are enough for contention on a row; a batch of two (`ClaimLimit`) for a
  row that waits behind another. Workers are symmetric.
* Two members and three policies: quorums of one, of two with a generic slot, and a hard
  floor without slots; activations before and after each signature and gate. Policies are
  never re-activated, as `deactivated` is final in the code.
* The account has room for one of its two reserving payments only, so every interleaving
  in which both are granted matters; two feeds give a stale snapshot over a fresh one.
* Two events and `MaxWindow = 1` give two windows, an oldest event that a window leaves
  out and a straggler; two publishers, one of each kind, race on one row. The third event
  and the keys matter to the chain alone and exist only while nothing is anchored
  (`Scenarios`). `MaxClock = 3` and `Second = 2`: times 2 and 3 share a second, so that
  windows of one second and of different ones both compete for the pointer, and the route's
  window of its own time can pass an event. Of the three roots of two events two get a
  row. One late transaction (`MaxLoose`) overtakes its retry; it and the reconciler, which
  touch no window, are explored one at a time, until time 2, and while no window is being
  cut. Clocks agree in the run; the theorems allow any skew.
* All guarantees of webhooks are about one pair of endpoint and event, so the run has one,
  with four senders busy on it; a cap of 2 lets a row be retried once below it. The
  attempts reach `2 + 2 + 1`, so the bound of `AttemptsBounded` is tight. `MaxCrashes`
  and `MaxLosses` keep liveness meaningful: a worker that always crashes delivers nothing.
* The theorems hold without these bounds.

### Fairness

`FairSpec` asks for weak fairness of each worker's own steps: `startOutboxWorker` starts a
cycle every `intervalMs` for as long as the process lives, a process that dies is
restarted, and every step of a cycle either returns or throws. Nothing is assumed of
requests, faults, aborts or the chain: a stray transfer need not land and a rail may
refuse until the attempts run out. Aborts and requests are finite by their bounds.

`WebhookDelivery` asks for weak fairness of each replica's cycle (`startManagedInterval`
starts one every five seconds, calls time out after ten), and that time passes
(`GraceOver`, `BackoffOver`). The inline dispatch and replays are not promised: the first
dies with its process, the second is an operator's choice. No success of a call is
assumed. `AuditAnchoring` and `AccountReservations` are checked for safety: an anchor that
the chain refuses for ever is pending for ever.

### What the violations show

1. *A crash can pay twice.* A worker that dies after the rail answered and before
   `markDispatched` leaves no receipt; the next attempt reads a fresh nonce and sends
   again. The session-key rails do not look at the idempotency key.
2. *Failed although paid.* A transfer that timed out lands, and the retry then reverts
   for good, so the intent is failed and its hold released. There is a second way without
   a time-out, found by a proof that would not go through: `failExecution` commits, its
   audit write (`PaymentIntentService.ts:1425`) throws, the worker parks the row
   (`worker.ts:399`), and the next claim passes the guard before dispatch, which does not
   read the intent's status, so the rail may send the money of a failed intent.
3. *x402 and escrow payments never settle.* Their execution record violates
   the CHECK on `executions.rail` in `services/execution/migrations/0002_executions.sql`,
   which no later migration widens.
4. *Two approvers at once block the intent.* Both see themselves as the first; the
   second's transition fails after its signature was stored, and neither may sign again.
   The transition from `pending_approval` is hard-coded (`PaymentIntentService.ts:680`), so
   the second of three required approvers sees an error too, although nobody overlaps;
   the signature is stored, and the third approves.
5. *Members are counted when approving, roles when executing.* Two admins approve an
   intent that wants an admin and an approver; it can then be neither executed nor signed.

## Proofs

TLAPS proves, for every set of intents, workers, agents, members, gates, policies,
events, publishers, endpoints, replicas and replay calls and every value of the bounds,
under the `ASSUME`s of the modules (types of the
constants, the "no such" values outside their sets, finitely many members, versions are
positive naturals, slots only where the outcome is confirm). Hypotheses beyond them are
part of the theorem's statement and named below:

* `ExecutionOutbox_proofs`
  * `TypeCorrect`, and from `BooksInv = TypeOK /\ LedgerConsistent /\ RowsHandedOff`:
    `BooksAgree` and `OutboxImplementsSettlement`. `LedgerConsistent` alone is not
    inductive: a worker that settles must know that its row belongs to an intent that was
    handed off, which is `RowsHandedOff`. The refinement then is step by step: each
    transaction maps to an abstract step, everything else to a stutter.
  * `MoneyInv = BooksInv /\ NoPaymentWithoutMoney /\ MoneyTrail`, which follows the money
    of each call from `Dispatch` to the stored receipt: `MoneyBehindEveryPayment`; and
    `HaltHolds`, an action property from the same invariants.
  * `TimelyInv = MoneyInv /\ ClaimInv`, assuming `SlowWorkers = {}`: claims are exclusive,
    rows in flight visibly locked, and the snapshot a worker decides on is still fresh. It
    gives `ClaimsAreExclusive` and `ReceiptsStopRails`. `outbox_slow` shows
    which guarantees do not need the assumption, and those are proved without it.
  * `MovesArePaidFor`, on top of `TimelyInv`: each step lets an intent rest (`Rests`),
    begins to account for one movement of it (`Reaches`), or counts an attempt or an
    abandoned cycle (`Pays`), and each of the three keeps the inequality (`PaidKept`).
    That the rail is reached only by a row without receipt, held by one worker, is what
    makes `Reaches` possible.
  * `ExhaustionIsAnnouncedOnce`, on top of `TimelyInv`: `Told` strengthens the property by
    "an announced row is held by nobody", which is why no second announcement follows.
* `OutboxBudget_proofs`
  * `SpendingIsBounded`, for workers of any speed, provided they are finitely many. Two
    inductive inequalities count them. `AttemptsPaid`: the attempts and the workers that
    may still count one (`Working`) stay below the ceiling and the number of workers,
    because a claim is made below the ceiling, and each counted attempt ends one worker's
    turn. `MovesAfforded`: before the first receipt each worker past the rail answers for
    one movement (`Sent`); afterwards nobody starts sending, and those that still may
    (`Sending`) are the ones that decided before it. Each worker has one role for a row
    (`OneRole`, part of `SlowInv`), so no worker is charged twice.
  * `TimelySpendingIsBounded`, assuming `SlowWorkers = {}`: the ceiling is then met
    exactly (`Capped`), and `MovesPaidFor` becomes a bound in the constants alone.
  * `RowsAreRecoverable`, assuming the same: a row that is neither parked nor finished is
    below the ceiling (`BelowCeiling`), so a pending row can be claimed. The assumption is
    needed: a slow worker that marks a row dispatched after it was reclaimed leaves it in
    flight without a lock, and one that counts the last attempt of a row reclaimed to
    pending leaves a row that nobody claims and nobody parked.
  * `UndisturbedMovesOnce`: with timely workers, no abandoned cycle and no rail call given
    up (`Calm`), money moves at most once, whatever else fails. `UndisturbedFailsUnpaid`: if audit
    writes succeed too, a failed intent's money did not move and never will. Each
    hypothesis is needed: `crash_moves_twice` drops the second, `failed_after_timeout` the
    third, and violation 2 above names what the last one excludes.
* `IntentApproval_proofs`
  * `ApprovalTypeCorrect` and `DecisionsAreFinal`, by cases on who steps.
  * `ApprovalsAreEnough` from `EnoughInv`: a request that found its signature to be the
    last one needed knows that the *other* signers suffice with one more
    (`Sufficient`), which stays true because signatures are never removed. Counting the
    others, and not everyone, is what makes it inductive while the request's own
    signature is not yet, or already, there.
  * `HandoffsHaveQuorum` from `QuorumInv`: a gate that passed is backed by signatures that
    stay. The lemma behind it, `QuorumFillsSlots`, shows that counting roles is sound: if
    `hasRequiredRoleQuorum` accepts, there is a one-to-one choice of members for the
    slots, by mapping the generic slots into the roles the named ones leave over.
  * `ApprovalsImplementQuorums`, from both invariants, step by step: a signature carries a
    version that was in force, an approval rests on enough signers, and a gate's
    transition on a quorum; the reads, checks and awaits map to stutters.
* `ApprovalPromises_proofs`
  * `SequentialSignaturesApprove`: what `overlapping_approvals` violates holds where
    approve requests do not overlap (`[]Sequential`, a hypothesis on behaviours), none
    dies between its steps, no signer has a threshold of their own and all versions ask
    for the same number. Gates and administration may interleave. A request that runs
    alone knows that the status is still the one it read, and whether its signature leaves
    room for another (`AloneInv`). A crash after the insert strands the signature just as
    an overlap does.
  * `ApprovedPassesWhereAnyoneFits`: what `two_admins` violates holds where the policies
    leave roles no say, any members of the number asked for filling the slots
    (`AnyoneFits`, for instance one slot for any signer, or two with one member per role),
    with requests overlapping and dying at will. While one version has been in force, all
    signatures carry it and none is stale (`OneVersionInv`).
* `AccountReservations_proofs`
  * `ReservationsAlwaysFit`: a call that has summed the holds knows a bound of them that
    stays one, because only the holder of the row lock adds a hold, while settlements and
    failures only remove some; and the balance it read is still the row's, since feeds
    wait for the lock.
  * `FundsArePromisedOnce` from the same bound: while nothing was granted blindly, what
    is `Gone` is reflected or left its reservation after the grants, whether it executed
    or failed although paid. `CapIsExactWhenSequential`:
    a call past its gate knows the window's sum unless something executed meanwhile.
  * `ReservationsImplementSettlement`: the second refinement of `PaymentSettlement`.
* `AuditAnchoring_proofs`
  * `KeysAreUnique` and `ChainForksOnlyAtTies` about the log: at most one emit is open,
    and its predecessor is still a newest event when it commits.
  * `ConfirmedRowsAreOnChain` and `LatestPointerIsNewest` from `RowInv` and `LatestInv`: a
    published root keeps its row and its period, and the pointer's root and second agree
    (`RecordKeepsLatest`). `PointerLagsLessThanASecond` says the same in milliseconds, by
    the arithmetic of `Seconds` (`SecondsBounds`, `SecondsOrder`). `BatchesNeverRevert`.
  * `NoEventIsSkipped` and `WindowsMatchRoots` from `WindowInv`: every event that committed
    in time and is stamped before a derived window is covered already (`SpanInv`), and a
    listed root holds all of its window's events but the stragglers (`ListedInv`), which
    the other publishers and late commits keep true. Without the exception of the passed
    events the first part fails for the route's window of its own time.
  * `AnchoringImplementsEvidence`, step by step.
* `WebhookDelivery_proofs`: one inductive invariant, `IInv`. For the bound on attempts it
  charges the senders: `rows[x]` plus the number of senders that may still count an
  attempt of `x` (`Busy`) never exceeds the bound. A sender becomes busy only while the
  row is below the cap, and each attempt counted ends one sender's turn. The pieces are
  one lemma per action kind (`Stays`, `Counts`, `Few`). From it `AttemptsAreBounded`,
  `OneReplicaAtATime`, `NothingWrittenOff`, `ReportsAreExact`.

Only model-checked: the liveness properties `EventuallyResolved`, `EventuallyHandled` and
`ResendingEnds` (liveness is out of this prover's reach), and the violations, which are
counterexamples.

## What is not modelled

The live ACH rail (it demands a field that no payload carries) and the unregistered ERP
rail occur only as rails that always decline; the development stubs of `rails/stubs.ts`
not at all. Calldata encoding, SQL text, the row's tamper hash, audit contents and metrics
are data. In the gate only the approval checks and the agent check are modelled; the other
checks may fail at any time. Members keep their role and threshold. Signatures without a
version, which only demo mode and old rows have, are left out. `PROJECT.json` lists every
component that is not modelled with the reason.

Of anchoring, tenants without on-chain anchors, the batch size, the route's cooldown, gas
and funds, and the trigger that decides when a cycle starts are left out; the change of
publisher is a refusal that may happen at any time; the check, the estimate and the send
of a broadcast are one step because a root published in between counts as anchored
either way; of a batch's roots that end in one second any may be the last. The reconciler takes one row at a time; its report is one of the keyed emits.
Of webhooks, signatures, the URL guard, the limit of a scan and the seven days it looks
back (assumed not exceeded) and the `enabled` flag, which nothing sets, are left out.

Most of the repository is client code, conversion of documents, question answering over
a wiki, HTTP plumbing and tests: no protocol whose interleavings a model could check. The
components that do have one and are not modelled are in the plan.

## Plan

Done, in this order: `PaymentSettlement`, `ExecutionOutbox`, `IntentApproval`,
`AccountReservations`, `AuditLog` with `AuditAnchoring` and `AuditEvidence`,
`WebhookDelivery`, each with its proofs. What is left, in order of importance:

1. `PaymentPipeline`: `IntentApproval` composed with `ExecutionOutbox` at the hand-off, so
   that "no money without quorum" is one theorem.
2. `SessionKeyAccount` and `EscrowContract`: nonces, caps, spending windows, grants;
   lock, release, refund, dispute. Integer widths matter here.
3. `IdempotencyStore`, `RefreshRotation`: concurrent requests under one key, single-use
   tokens.
4. Registration relay, tenant deletion and blob purge, BFF tenancy.
