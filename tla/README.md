# Agroasys Web3 layer: TLA+ models, checks and proofs

The repository holds a milestone escrow for commodity trades: a Solidity
contract that keeps buyers' USDC, and the off-chain services that drive it,
observe it and account for it. This directory models that system in TLA+, checks
the models with TLC on small instances, and proves the main safety results of
the contract, of the oracle service, of the gateway, of the indexer, of the treasury and of
the services at the edge with TLAPS for every value of the constants.

`PROJECT.json` is the machine-readable index: which definition stands for which
source lines, what each run checks, the mutants that show each property can
fail, the hazards the properties are aimed at, the findings and the theorems.

## 1. The system

| Component | State | Operations | Hard behaviour |
|---|---|---|---|
| Escrow contract, trades (`contracts/src/AgroasysEscrow.sol`) | trades and their status, buyers' nonces, dispute proposals and their "active" entries, claimable balances, USDC | `createTrade`, the oracle's two milestones, `openDispute`, permissionless finalization, two buyer timeouts, dispute proposals (propose, approve, cancel expired), pull claims | transactions of six roles in any order; timeouts against milestones; boundaries of time windows; lazy expiry; the same money reachable by several paths |
| Escrow contract, governance (same file) | pause, claim pause, oracle switch, oracle, payout receiver, admins, the unpause proposal, three proposal families | pause, quorum unpause, kill switch, propose / approve / execute / cancel for oracle update, admin addition, payout update | timelock, expiry and emergency fast track; approval flags cleared by a loop over a list that grows |
| SDK (`sdk/`) | the user's allowance and nonce on-chain, transactions under way | buyer calls (approve, create, dispute, timeouts, claim), admin calls, oracle calls, login | reads that are stale when the signed call lands; lost receipts |
| Oracle service (`oracle/`) | table `oracle_triggers`, requests in progress, the confirmation worker's memory of its last checks | trigger, redrive, approve, reject; execute with retries; confirmation polls | handlers and polls interleave at each await; lost receipts, retries, crashes; unconditional UPDATEs after stale reads; overlapping polls |
| Gateway governance (`gateway/src/core/governance*`, `gateway/src/executor`) | table `governance_actions`, executors' locks, audit log | queue with intent deduplication and preflight, execute with a timeout, cleanup of expired actions | check and save in different transactions; a local timeout while the transaction goes on; crash after the broadcast |
| Gateway sessions, idempotency, compliance (`gateway/src/middleware`, `compliance*`) | reserved keys and stored answers, decisions, progression blocks | reserve, complete, decide, block, resume, page through the history | failing statements before and after a commit; two requests about one trade; crash between reservation and completion |
| Gateway trade read side (`tradeReadService.ts`) | none | trade record, timeline, list | reads tables that different handlers fill |
| Gateway governance read side (`routes/governance.ts`, `governanceStore.ts`) | none | page through the queued actions | rows are added, dated alike or late, and change status between two pages |
| Indexer (`indexer/src/main.ts`) | projected trades, proposals, events | one handler for each contract event, over batches of blocks | parents in this batch, in an earlier one, or missing |
| Reconciliation (`reconciliation/`) | runs by key, findings | run, retry, classify, report | pages that move under the run; failed and crashed runs |
| Treasury (`treasury/`) | ledger entries, payout events, the offset | ingest by offset, append a payout transition, list, export | overlapping ingestions; read-check-append without a lock |
| Auth (`auth/`) | challenges in memory, profiles and sessions in Postgres | challenge, login, refresh, revoke, look up | refresh in two statements; lost answers; restarts |
| Shared authentication (`shared-auth/`, oracle middleware) | nonces kept | sign; check skew, consume a nonce | expiry against skew, eviction at the limit, clocks that differ |
| Ricardian documents (`ricardian/`) | documents by hash, rate-limit counters | canonicalise and hash; limit | equal content in different order; two windows counted one after the other |
| Notifications (`notifications/`) | last delivery per key, in memory | notify with cooldown and retries | check before and record after the await; restarts |

How they interact. The oracle service reads trades from the contract, sends
`releaseFundsStage1`, `confirmArrival` and `finalizeAfterDisputeWindow`, and waits
for receipts; its worker looks for the resulting events in the indexer and falls
back to the contract. The gateway queues governance calls that an executor, a
process started by hand, signs and sends through the SDK. The indexer projects the
contract's events; reconciliation compares the projection with the contract; the
treasury ingests fee events from the indexer; the dashboard shows both. The
gateway resolves bearer tokens with the auth service. Services authenticate to
each other by HMAC with nonces and report failures through the notifications
package. The contract is the only authority over money; every other component
keeps a possibly stale copy.

What makes each correct: the contract pays each unit once, to its owner, and by
nobody's lone decision; an SDK call has the effect it reports; the oracle
service records nothing that did not happen and leaves no trigger undecided; the
gateway sends a queued action once and reports what became of it; a mutation is
carried out once for each key; the index, the ledger, the dashboard and the
reports follow the chain; sessions and messages are used once; limits and
cooldowns neither leak nor silence.

## 2. Modules

| Module | Stands for | Extends |
|---|---|---|
| `EscrowGovernance` | the administrative half of the contract | |
| `AgroasysEscrow` | the whole contract: trades, disputes and claims on top | `EscrowGovernance` |
| `TradeCustody` | abstract: what may happen to one trade's money | |
| `TradeLifecycle` | abstract: what the services see of one trade | |
| `BuyerSDK` | a buyer's application over the contract | `AgroasysEscrow` |
| `AdminSDK` | admins' calls over the contract, and the mempool | `EscrowGovernance` |
| `GatewayGovernance` | the governance queue, executors and cleanup | `AdminSDK` |
| `OracleService` | the oracle service working on one trade | `TradeLifecycle` |
| `EscrowEvents` | the contract as a stream of transactions, their events and their blocks | |
| `Indexer` | the event handlers and the batches they run in | `EscrowEvents` |
| `TradeRead`, `Treasury`, `Reconciliation` | the services that read the index | `Indexer`; `Reconciliation` extends `Treasury` and `Listing` |
| `WallClock` | the services' clock | |
| `AuthSessions`, `AuthClient` | the auth service and its client | `WallClock` |
| `Idempotency`, `Compliance` | the front of the gateway's mutation routes, and the compliance routes | `AuthSessions` |
| `ServiceAuth` | signed messages and nonces | `WallClock` |
| `RateLimiter` | the rate limits of the Ricardian service | `ServiceAuth` |
| `RicardianService` | documents and their hashes, behind the limits | `RateLimiter` |
| `Notifications` | the notifications package | `WallClock` |
| `Listing` | the rows of a query in its order, what a filter leaves | |
| `GovernancePages` | the listing of the governance queue | `WallClock`, `Listing` |
| `EscrowGovernanceProofs` | proofs about the contract's governance | `EscrowGovernance` |
| `AgroasysEscrowProofs` | types, money, custody, disputes and the life of a trade | `AgroasysEscrow`, `EscrowGovernanceProofs` |
| `EscrowSolvencyProofs` | solvency; a buyer's calls | `AgroasysEscrowProofs`, `BuyerSDK` |
| `GatewayGovernanceProofs` | the queue, its executors and the contract | `GatewayGovernance`, `EscrowGovernanceProofs` |
| `OracleServiceProofs` | rows, handlers, polls and the chain | `OracleService` |
| `ListingProofs` | what the lists of `Listing` hold | `Listing` |
| `ReadSideProofs` | the index, the treasury's fees and payouts, the audit's reports | `Reconciliation`, `ListingProofs` |
| `EdgeProofs` | sessions, keys, compliance, signed messages, notifications, rate limits, the gateway's lists | `Compliance`, `AuthClient`, `RateLimiter`, `Notifications`, `GovernancePages`, `ListingProofs` |
| `MC...` | instances for TLC | |

`AgroasysEscrow` implements `TradeLifecycle` for each of its trades
(`ImplementsLifecycle`), which is what makes it sound for `OracleService` to run
against the small module in place of the contract. `GatewayGovernance` and
`BuyerSDK` run against the contract's own actions.

### EscrowGovernance

Each external function is an action with the caller as a parameter; a `require`
that fails is an action that is not enabled; `block.timestamp` is `now`, moved
by `Tick`, and starts at 1 because the contract uses 0 for "never written". The
three proposal families have the same code up to their payload and share
`NewProposal`, `ApproveProposal`, `ExecuteProposal` and
`CancelExpiredProposal`, with one action per function on top. A proposal record
joins the struct with its `HasApproved`, `ExpiresAt` and `Cancelled` mappings.
`admins[]` and `isAdmin` always agree and are one set. Events and the proposer
field, which is only emitted, are left out.

### AgroasysEscrow

Amounts and balances are naturals; no operation can overflow a `uint256` that
the token's supply does not already bound, and the contract reverts on one. The
ECDSA check is what it decides: the signature was made by the caller for exactly
this nonce, deadline and order (`Authorised`). The token is external and is its
balances. `claimableAccrued` adds up the `ClaimableAccrued` events by trade and
claim type; it is the only history the properties use and it is emitted by the
code. `createTrade` is tried with wrong orders too (wrong sum, empty tranche,
no supplier, no hash), so its checks matter.

### TradeCustody and TradeLifecycle

`TradeCustody` is a set of books, one per trade, with four moves: deposit,
release of stage 1, refund of all, settlement of the rest to either side.
`TradeLifecycle` keeps the status of one trade, the executed milestones, whether
the dispute window is over, and the two switches.

### BuyerSDK

A call is a record: where it is (`at`), what it has read, what it sent and what
it answered. `createTrade` goes through the SDK's validation, the allowance, an
approval that replaces the allowance, the nonce, the signature and the send, each
a step, with other calls, other parties and the clock in between. A transaction
is sent only if it would not revert on the state at that moment (gas estimation: `WouldLand`, which asks the contract's own `AcceptsTrade`)
and may revert later; its receipt may be lost while it lands. `BuyerAssumption` sees to it
that the bounds on trades and time refuse no call that the contract would accept. Other
buyers make no trades in this module (theirs would have other signers and nonces).

### AdminSDK and GatewayGovernance

Broadcast and inclusion are two steps, with the `mempool` between them; what the
contract would revert stays there. An admin may also call the contract directly
(`DirectCall`), and does for the addition of admins, which no route queues. A row of `actions` is a row of
`governance_actions`. Queueing is one action (preflight read, then the
transaction with the advisory lock on the intent). An executor holds the row it
read and the transaction it sent: lock and read, send, then either a receipt and
the read of the final status, which may fail and be replaced by a fallback, or a
failure, or a timeout, or a crash (one before the send leaves everything as it was
and is not a step). The cleanup re-reads a candidate in one step
and saves it in another. The contract is met in four situations
(`FourSituations`) instead of from its first block, so that every queued method
is callable within a few steps; each is a state the contract reaches. (The proofs
start from the contract's own first block.)

### OracleService

A process is a request handler or a poll, and a step is what runs between two
awaits. A handler's `pc` is the await at which it is; its locals are the
row, the type, the attempt and the kind of the last error. The table is `rows`, in
order of creation; `IndexAllows` is the partial unique index. Errors are kept by
what the code tells apart: terminal or retryable (`classifyError`). A
transaction that was sent lands, is refused, fails before it left, or is left in
`inFlight`, to be mined or dropped later (`Lands`). A crash loses handlers, polls and
the rate limiter's memory, keeps the table, and may leave transactions behind.
Other parties act on the trade at any time (`OthersAct`): the buyer's timeouts and
disputes, the admins, anybody's finalization.

The lookup by idempotency key in `executeTrigger` uses a freshly generated key
and finds nothing; `handleExistingTrigger` is unreachable. A database query is
assumed to succeed. The soft confirmation timeout only logs. A batch of 100 rows
is never full with one trade.

### EscrowEvents, Indexer and the services that read it

`EscrowEvents` keeps of the contract what decides which events a transaction
emits (statuses, dispute and governance proposals), and emits them in the
contract's order; an event's id is its transaction and its place in it, and a block holds
any number of transactions (`NextBlock`). `Indexer` has a
step for each thing the processor does: `startBatch` takes any number of whole
blocks, `handleEvent` runs one event's handler on the rows of the batch, `saveBatch`
writes these and the processor's position in one transaction, and `batchFails`, at any
time before, loses the batch and nothing else. Events wait in `pending` until they are
saved. A handler reads a row from the batch or else from the store (`getOrLoad`), which
is where an event could be dropped. `asOf` and `processed` are history: the contract and
the events as of the last block saved. `Treasury` and `Reconciliation` have one step per request or
statement; a page of the index is read in one query and in any order that its
ORDER BY leaves open. `borders` is history too: the offsets at which pages of fees ended.
`TradeRead` is functions of the tables.

### The services at the edge

`WallClock` is the clock all of them read. `AuthSessions` has one step per
statement; a challenge is checked and removed before the first await. A wallet's
signature is what was signed. `Idempotency` reserves and completes a key in
steps of their own, with the handler's statements (`Compliance`) in between, any
of which may fail; the completion of the key is not waited for.
`ServiceAuth` signs messages by clocks that may be ahead and lets the network
deliver them late and again; the nonce stores differ in what they forget.
`RateLimiter` counts each request in the two windows of its route, in either store,
and decides whether it passes; apart from `RicardianService` because that needs
recursive operators, which a module with proofs cannot reach.
`RicardianService` has JSON values as trees: scalars, arrays, and objects whose
members have an order when sent and none in meaning; a hash is an injective
constructor. `ServiceAuth` keeps the set of messages consumed, and a stored row
of any table is the whole record the code stores, so that the proofs can say what
type it has. `GovernancePages` has the writers of the queue as the listing sees
them (a row is dated by its process and stored up to `MaxDelay` later, and saved
again by whoever holds a copy) and the client that passes on the cursors; both
stores of the listing, Postgres and the one in memory, are modelled, as they are
for the history of compliance decisions. A page is made of `Listing`'s operators, which
give the element at each place of a list directly, where the library sorts and filters
by search and recursion. `Notifications` keeps in-memory cooldowns, attempts and what the
webhook received, and takes its dedup keys from the callers that make them up.

## 3. Runs

| Run | Question | Instance |
|---|---|---|
| `gov` | are approvals counted once per admin, cleared with their proposal, and are privileged changes and unpauses made only by matured, approved proposals? | 2 admins, quorum 2, one proposal of each family, so the admin list may grow while an unpause is pending; timelock 1, TTL 2, 4 ticks |
| `escrow_disputes` | settlement once, conservation, dispute bookkeeping, quorum, the window's boundary, both refinements | one trade, 2 admins, quorum 2, two dispute proposals (one expires and is replaced), all timeouts within 6 ticks |
| `escrow_buyers` | solvency, one call - one trade, what a single admin's pause means | two trades, two calls at a time, prior allowances 0 and 13 (nothing, and enough for both), one lost receipt, one admin, one approval decides |
| `escrow_liveness` | no trade is stranded; fees while the payout receiver moves | one trade, one payout update, under fairness |
| `oracle_redrives` | submitted triggers are resolved | 3 milestones, 2 requests or redrives, both approval modes, 1 crash, one poll at a time, under fairness |
| `oracle_concurrent` | confirmed means executed, no orphan, nothing sent unapproved, settled rows yield to those who overlap only | 2 handlers, 2 polls, 2 requests, 2 attempts, both approval modes, 1 crash |
| `gateway_queue` | sent once, outcome true, approvals signed by who queued them, one open row per intent | 2 actions, 2 executors, the cleanup, 2 broadcasts, 1 crash, or 1 direct call beside a single queued action; both actions have the same of the 16 methods, any of them, from four situations |
| `read_side` | do tables, dashboard, ledger and reports follow the chain? | 2 trades, 2 proposals, up to 8 transactions; 2 ingestions, 2 releases in one block or in two, 2 operators on one entry and 3 payout transitions; 2 workers with one key, 2 attempts |
| `edge` | the properties of the edge services, and of the listing of the queue | 2 calls at a time each, 1 crash or failing statement, 5 ticks at most; 3 queued actions and 1 later save while one operator pages |
| `oracle_redrive_confirms`, `gateway_cleanup_race`, `indexer_dispute_outcome` | violations, section 6 | smallest instance that shows each |

`read_side` and `edge` run several scenarios: components that share no state
would only multiply each other's states, so the initial state chooses which of
them runs beside the chain and the indexer, or beside the clock, and the others
stay as they are. Components that do interact run together: gateway requests
with sessions, the client with the auth service, messages with the rate limits
they count for, indexer with its readers. Nobody sees a batch before it is saved, so
beside the treasury and the audit the indexer handles new events at once and others
wait until it may save or fail (`Undisturbed`); in the other scenarios it waits and fails
as it likes. Only the treasury meets a block of two transactions, because to the indexer that
is a batch which is not cut between them; the payouts rest there (`ReleasesShareABlock`),
since they do not depend on how entries were fetched. A property of a component that does
not run in a scenario is checked in the one where it does. The sessions of the
compliance scenario start with one that exists, the fees scenario with two locked
trades and the audit scenario with a trade in dispute; these are states the
components reach in the other scenarios.

Bounds. Every timeout is 0, 1 or 2 ticks: only the order of events and the
equality of two instants are told apart by the code, so an instance needs a tick
before, at and after each limit. `MaxTime` lies past the last deadline reachable
from `LastInputTime`. The `Max...` constants are upper bounds in guards; two
disputes are needed for a replacement, two trades for the accounts to mix, two
handlers for a shared row, two executors for the lock, two attempts for a retry,
two workers for a key that is taken, two messages for a nonce to be evicted.
Page sizes of 1 and 2 make every list span pages. Symmetry is used for values
that nothing in the constants tells apart (admins, handlers, polls, executors,
calls, keys), in safety runs only.

`oracle_redrives` asks for all three milestones. The runs with overlapping handlers ask for
the release: the other two differ from it only in the row's type and in what `Valid`
compares, and the index and the rows of different types do not meet.

Deadlock is checked in the contract's and the oracle's runs, where the
switches keep every system moving. In `gateway_queue`, `read_side`, `edge` and two of the
violations it is not: when the bound on calls is used up and the clock has
stopped, nothing is left to happen, and the services' own waiting is on requests
that the bounds refuse.

Fairness. `escrow_liveness`: the clock runs, and the transactions that exist for
the purpose are sent once they stay possible: the buyer's own timeouts and the
finalization that anybody may send. Nothing is assumed of the oracle or the
admins, and the property speaks of protocols that are not paused for ever.
`oracle_redrives`: the clock runs and `setInterval` starts polls whose reads
return a result or an error. Nothing is assumed of handlers: `tx.wait()` has no
timeout in the code. The other services promise nothing that must happen: their
requests are carried by whoever asks, the executor and the cleanup are started
by hand, and a key, a run or an action whose process died is left as it is
(section 7), so they have no liveness property.

## 4. Proofs

Each theorem is about the specification of its module for every value of the
constants that satisfies the named assumptions: any number of accounts, admins,
trades, orders, proposals, actions, executors, wallets, keys, messages, and any
timeout. TLC evaluates the assumptions in the runs. Each inductive invariant was
checked by TLC on the run of its module before it was proved, as far as TLC can
evaluate it: `PendingInv`, `BatchInv` and `LimiterInv` quantify over sequences of
contracts or over all integers, and only their other conjuncts, and those with the
integers bounded, were. TLAPS 1.4.5 checks
every proof to the last leaf, with Z3, Zenon and, for temporal steps, LS4.

Assumptions: `GovernanceAssumption` (what the constructor requires, and natural
numbers as bounds), `EscrowAssumption` (the contract is not one of the
accounts, orders are made of naturals), `BuyerAssumption` (there is room for the
trades of all calls, and trades are accepted for as long as time goes on),
`AddressAssumption` (there are finitely many accounts, as there are finitely many
addresses: a sum over balances would mean nothing otherwise), and, for the services, `GatewayAssumption`,
`ClockAssumption`, `AuthAssumption`, `IdempotencyAssumption`,
`ComplianceAssumption`, `PagesAssumption`, `ServiceAuthAssumption`, `NotificationsAssumption`,
`RateLimiterAssumption`, `EventsAssumption`, `RowAssumption`, `TreasuryAssumption`,
`ReconciliationAssumption` and `OracleAssumption`: bounds, limits and durations are numbers in the range that the
configuration accepts, `None`, which stands for null, is
no record (of a decision either), no number, no action and no payout state, the queue
has finitely many actions, and finitely many requests of the oracle service are in
progress at a time. `ReconciliationAssumption` also says what the contract's terms are
made of: two checksummed addresses, finitely many amounts and a hash.

**Governance** (`EscrowGovernanceProofs`). `StepKinds` reduces `GovNext` to five
kinds of step: it changes switches and unpause, or makes, approves, executes or
cancels one proposal of one family. `GovTypeCorrect` follows. The inductive
invariant is

    GovInv == GovTypeOK /\ AdminsFinite /\ GovernanceQuorum
                /\ ProposalTimes /\ UnpauseApprovalsFresh

`AdminsFinite` is what makes "count = cardinality" survive an added approval,
and `ProposalTimes` ties `eta` and `expiresAt` to the creation. From it:
`GovernanceQuorumHolds`, `UnpauseApprovalsFreshHolds`, and the action properties
`UnpauseNeedsQuorumHolds` and `PrivilegedChangesHold`. `LoneAdminPauseHolds` has an
invariant of its own: with fewer admins than the quorum no proposal is ever
executed, so the set of admins never changes.

**Money and types** (`AgroasysEscrowProofs`). `TypeCorrect` needs
`TypeInv == TypeOK /\ ActiveIsMade`: an active entry points to a proposal that
was made, or the default 0 would let `proposeDisputeSolution` update an entry
that was never written. Well-typedness of balances says that no
subtraction of the contract underflows; no run repeats it. For the money, every
action is reduced to a few kinds of change of one trade (`NextMoney`: create,
release, advance, close, or nothing), and

    MoneyInv == TypeInv /\ FreshTrades /\ AmountsAddUp /\ SettledOnce

is inductive: trades not yet created have no accruals, and the amounts of a
trade add up to its total, which `createTrade` checks once and nothing changes
later. `SettledOnceHolds` and `TradeConservationHolds` follow.
`CustodyImplemented` proves the refinement of `TradeCustody`: initial books are
empty, and every transaction is one move of one trade or a stutter.
`GovernancePart` shows that the contract's steps are governance steps or leave
that state alone, so the governance results carry over.

**Disputes** (`AgroasysEscrowProofs`). What a step may do to disputes is one of
propose, approve, decide, expire or nothing (`DisputeStep`). With

    DisputeInv == MoneyInv /\ GovInv /\ FreshDisputes /\ OneOpenDispute /\ DisputeQuorum

a proposal id that is not yet used has no approvals (`FreshDisputes`), and
`GovInv` supplies finite sets of admins. `OneOpenDisputeHolds`, `DisputeQuorumHolds`
and the action property `FrozenNeedsDecisionHolds` follow.
`LifecycleImplemented` proves that the contract implements `TradeLifecycle` for each
trade, which is what entitles the oracle service's model to run against the small
module; it needs `LifeInv == MoneyInv /\ NoEarlyArrival /\ ArrivalIsKnown` (a trade that
has not arrived has no arrival time, or its window would be over already; one that has
arrived has one). `WindowHasNoGapHolds` follows from the same invariant: the check
`arrivalTimestamp > 0` of both functions never fails for an arrived trade.

**Solvency** (`EscrowSolvencyProofs`). `Solvent` compares the escrow's balance with two
sums, over trades and over accounts. A sum is a fold over a finite set, whose
value for every set would need induction over data; what the proof needs is less:
that a sum is any element's term plus the sum of the rest, and that sums of equal
terms are equal. The first follows from the recursion that defines the fold by a
well-founded argument: were it false for some subset, it would be for a smallest one
(`SmallestSubset`, from the library's theorem on the strict subset order). Then

    SolvencyInv == MoneyInv /\ PartiesKnown /\ Solvent

is inductive (the parties of a trade are accounts, or their claims would not be
among those summed up). `SolvencyHolds` and `ClaimsCovered`: every
claim can be paid out at once, whoever comes first.

`PartiesMadeWholeHolds` compares what an account owns with the whole history of its
trades. Its surplus is what it owns (USDC and claims) less what it is owed (what it
started with and what its trades earned it). With

    WholeInv == SolvencyInv /\ GovInv /\ NumberedInOrder /\ ReceiverKnown /\ Whole

`Whole` says that the surplus of every account that never received payouts is zero,
and that those of the payout receivers, among whom the fees move, add up to zero. A settlement raises what an account owns and what it is owed by the same
amount (`Gain`, `Cost`, `Due`), a claim moves money within one account, and `claimTreasury`
moves it to the receiver of the moment. The sum over receivers survives a change of the
receiver because the set of receivers only grows: an executed proposal keeps its
target (`ContractKeeps`, shared with the governance queue's proof), and proposals
are numbered in order, so that nothing overwrites one.

**The buyer's calls** (`EscrowSolvencyProofs`). With

    BuyerInv == MoneyInv /\ CallTypes /\ CallsSound /\ AloneIsUndisturbed /\ OneMaker /\ InTime

`CallsSound` says of each call what it must have read, sent and answered to be where it is.
`OneMaker` counts nonces and trades together, so that the nonce a call used is the number of
the trade it made (one buyer makes all trades here): of two that read one nonce the second
is refused. `AloneIsUndisturbed` is
the last part of `EachCallOneTrade`: what a call that nothing overlapped read of its nonce,
and the allowance it provided, are still so, because whatever could change them is a
step of another call under way. So if its transaction is refused, the reason is one of those that
the caller sees. (That the contract has room for one more trade follows from counting the calls
that have made one, and `BuyerAssumption`.) `EachCallOneTradeHolds` follows; what a call other than
createTrade asks before it sends (`ENABLED`) is never needed. `BuyersKeepTheContract`
shows that each step of `SDKSpec` is a step of the contract or leaves it alone.
TLC checked `BuyerInv` on `escrow_buyers` first.

**Governance queue** (`GatewayGovernanceProofs`). `GatewayInv` relates the table, the
executors' copies, the broadcast transactions, what was mined, and the contract: a
row is held by one executor, whose copy agrees with the table on all that an
execution does not find out (`RunsTrue`); the cleanup holds an expired row
(`CleanupTrue`); an action that may be sent again has a crash behind each earlier
broadcast (`SendsPaid`); a transaction names its action's proposal, address and,
for approvals, the wallet that queued it (`SentTrue`); a held action is open still or
expired (`HeldOpen`); of two rows of an intent the older one is over, or a queue
lifetime apart (`IntentsApart`); and what was mined holds in the contract
(`MinedTrue`), and so does what a row says (`RowsTrue`). The last two need the
contract's quorum, from `GovInv`. `ChainIsTheContract` shows that the contract
inside takes the contract's own steps. From the invariant: `SentOncePerRunHolds`,
`RecordedOutcomeHappenedHolds`, `ApprovalSignedHolds`, `OpenIntentsApartHolds`.

**Edge** (`EdgeProofs`). The services share no state, so each is proved beside the
clock, in a specification of its own (`AuthSpec`, `GatewaySpec`, `ServiceSpec`,
`NotificationSpec`, `LimiterSpec`, `PagesSpec`) whose next-state relation is the one the scenarios of `MCEdge`
use: without the scenarios' bounds on the clock and with all inputs.

| Theorem | Invariant | What makes it inductive |
|---|---|---|
| `OldSessionRetiredHolds` | `AuthInv` | a call that holds a new session knows which one it still has to retire |
| `OneEffectPerKeyHolds` | `KeysInv` | at most one request owns a key; a free key counts no more writes than 5xx answers |
| `NoResumeOverDenialHolds` | `ReviewInv` | what a request has read was the latest decision among those it saw, and decisions only grow |
| `AcceptedOnceHolds` | `ServiceInv` | since its last acceptance a message is refused by the nonce that is kept, or that was evicted in memory, or a nonce lifetime has passed; and all its acceptances lie where its timestamp passes |
| `CooldownRespectedHolds` | `NotifyInv` | the cache holds the last acknowledged delivery of a key, and each suppression was told from one within the cooldown |
| `AdmittedBoundHolds` | `LimiterInv` | what passed since the counted window began was counted in it, and the time as long as a window before it lies within reach of one earlier window only, which let at most the limit pass; windows of Redis begin at multiples of their length |
| `PagesShowEveryRowHolds` | `PagesInv` | what was shown lies before the cursor, and what met the filter all along and was not shown lies behind it: rows keep their date and their id, whatever is saved |
| `DecisionsInOrderHolds` | `OrderInv` | finitely many decisions, each dated after all those of its trade that its request had read; a request that holds a decision has such a date already |

The last two rest on what `Ordered` and `Filtered` give (`ListingProofs`): the list of a finite set holds each element once, and in order; a filtered list is the
ordered list of what passes; and so both stores, of which one asks the database for the rows
beyond the cursor and the other filters a sorted list, make the same pages. Sets are counted
where a recursion would call for induction. The history that the pages of one decision
add up to is the ordered list itself, by a least counterexample over the pages.

What the Ricardian service does to its limiter are the steps of `LimiterSpec` by
construction (`limited`): the bound holds there too.

**Oracle service** (`OracleServiceProofs`). Each action is first reduced to one of a few
kinds of step (`Happens`: a handler asks, moves on, ends, inserts, takes over or writes
a row; an operator approves or rejects; a poll reads, checks or writes; time, a crash,
others), which leaves one case per kind in each proof after that. Below all of them is

    TableInv == OracleTypeOK /\ RowsMade /\ Counted /\ OwnRows /\ IndexKept /\ Batches

each row has a request of its own (or the table's bound would hide an insert), a
handler works on a row of its action, the partial unique index holds although every
UPDATE checks it for one row only, and a poll decides about a row that it has read.
On top of it:

| Theorem | Provided that | What makes it inductive |
|---|---|---|
| `NoOrphanRowsHolds` | `RETRY_ATTEMPTS` > 0 | a FAILED row has a handler past the approval gate: one at the gate could still leave it |
| `ConfirmedIsOnChainHolds` | nobody redrives | a handler about to record has its receipt, and what a poll has read is on-chain, whatever happened to the row since |
| `ApprovedBeforeSendHolds` | nobody redrives | past the gate, some row of the action is approved: not the handler's own, it may have taken over another |
| `SettledYieldsToOverlapHolds` | nothing | what a request found settled is not the row it works on, and older than the newest row, which is all it may take yet |

The hypotheses are the limits of section 6: with 0 attempts the loop is not entered and
its row stays PENDING, and a redrive passes the gate and infers execution from a status.
`SettledYieldsToOverlap` needs none, because it says who may overwrite a row that is
settled: the history field `settled` keeps, for each request, the rows that were so when
it arrived.

**Indexer** (`ReadSideProofs`). `TreasurySpec` composes ingestions and payouts with the
chain and the indexer, from the first transaction on, with every kind of transaction and without
the scenarios' bounds. `ChainInv` says what the contract's statuses and proposals have to do with
each other. The proof has three layers. First, what a transaction's events tell: for each
event there is a contract that it leads to (`Tells`), the last of them the one after the
transaction (`Lead`). Second, a handler that reads rows which show the contract
before its event, leaves rows that show the one after it (`Handled`). Third,

    IndexInv == mined \in Nat /\ ChainInv /\ PendingInv /\ StoreInv /\ BatchInv

where `PendingInv` chains the pending transactions from the contract last saved to the present
one, `StoreInv` is the property, and `BatchInv` says that store and batch, read as
`getOrLoad` does, show the contract in the middle of a transaction and that the rows of the
batch are those of the events handled. The numbering of a transaction's events and the
tables of a batch are read position by position, with a smallest counterexample
(`LeastNumber`) wherever a sequence is walked. `TablesShowTheChainHolds`
follows.

**Treasury** (`ReadSideProofs`), on the same specification.
`NoFeeBehindTheOffsetHolds` has two invariants over `IndexInv` and `PayoutInv`.
`FeeInv` is about the index: events are numbered by transaction and place, there is one row
for an id, blocks are numbered by their first transaction, and a batch ends with a block, so
that whatever is indexed next is of a later block than all that is stored. `IngestInv` is
about the ledger. Of the fees at or before an offset, saved or held by a call, each is stored
or on the page which that call is storing, unless a page has ended among the fees of its
block (`Covers`); an ingestion that starts from an older offset, or fails before it saves its
own, stores again what it finds stored. `PageCovers` is the step from one offset to the next:
a page is cut out of *some* order by block, another one each time, but the orders agree on
which places the fees of a block take (`PlaceOfFee`). New fees only take places after those,
which keeps an offset's meaning when the chain moves on. The theorem holds for any page size,
any number of fees in a block, and any calls. TLC checked both on `read_side` first.

`PayoutInv` says that each entry has a legal history, and that the state a call is
about to append follows from some state in it. That survives whatever other calls
append meanwhile, because histories only grow (`Appended`), although the state
checked need no longer be the latest. `PayoutNeverSkipsHolds` follows.

**Reconciliation** (`ReadSideProofs`). `AuditSpec` adds workers to `TreasurySpec`, with any
keys, batch sizes and number of attempts, trades that cannot be read and crashes at every
step, while transactions and batches go on. `QuietRunIsExact` is about the runs that were
completed while neither moved, and so

    AuditInv == AuditTypes /\ TickInv /\ OwnInv /\ CoverInv /\ ResultInv /\ CompletedInv

says what a worker knows for as long as they have not moved since it began. `CoverInv`: the
trades before its page are the first of the index, in order; each of them that differs has a
finding, and at a first attempt there is no other finding but that a trade could not be
read; and after the last page nothing is left of the index. That is claimed of a worker
whose `ticks` are the present ones, and they never come back (`TickInv`): once the chain
has a new block or the indexer has saved one, the worker is not quiet any more, and
nothing is claimed of it. A key attempted once has one worker (`OwnInv`), since every other
start finds the row and is skipped or raises `attempts`. When a run completes,
what was covered becomes `ResultInv`, about which no later step changes anything
but to add findings at a retry. TLC checked these on `read_side` first.

Two facts are needed about rows that are behind the chain. A difference in status is always
found, by definition of the comparison. That no *other* finding is made, of a trade
whose status is the contract's, is what the index must answer for: the row
was written by the contract at an earlier block, but the contract only moves
on (`Precedes`), so a trade with the same status has the same arrival and the same
terms, which the handlers copy up to the case of the addresses (`BehindInv`,
`LoweredTerms`).

`QuietRunIsExactHolds` assumes that there are no more trades than
`RECONCILIATION_MAX_TRADES_PER_RUN`. A run stops there, is COMPLETED all the same, and
says nothing of the trades it did not reach.

What is only model-checked, and why:

- liveness (`TradesLeaveEscrow`, `SubmittedIsResolved`): outside the prover's reach;
- `OneRowPerDocument`: `RicardianService` defines `canonicalize` with RECURSIVE;
- `DashboardTellsTheTrade`: the timeline and the milestones are folds over the events
  of a trade, and what a fold computes for every input needs induction over data.

Since the buyers keep the contract (`BuyersKeepTheContract`), all that is proved of its
`Spec` holds for them too.

## 5. What the checks show

**Contract.** On every path through milestones, timeouts and disputes it pays each
unit once and to its owner, stays solvent whoever claims first, and never
strands a trade while unpaused; the dispute window ends on exactly one tick;
admin powers need the number of distinct approvals they claim to need.

**SDK.** Each trade in the contract is the doing of one call with its terms, however
the calls of a buyer overlap; a call that failed made none, unless its receipt
was lost, and then a repetition makes a second one.

**Oracle service.** A recorded transaction has landed, a row is not left behind by
its handler, nothing is sent unapproved without a redrive, what is submitted or
confirmed is written over only by who overlapped with that, and a submitted
trigger is always resolved.

**Gateway.** A queued governance action is broadcast once for each executor that
did not die on it; a row that reports an outcome has a mined transaction and is
right about the proposal; an approval is signed by the operator who queued it;
two open rows of one intent can only come from an executor that started in time.
An operator who pages through the queue sees each action that meets the filter
once, whatever is queued meanwhile. A compliance mutation takes effect once for
each key, and once more for each 5xx answer; the latest decision is one that nobody knew to be superseded; a block is
not lifted over a denial that the request could see.

**Read side.** However blocks are batched, the tables and the dashboard are the
contract as of the last block, but for the outcome of disputes (section 6) and
the `executed` flag of oracle and admin proposals. No fee behind the offset is
missing from the export, but for those of a block that a page cut; a PAID entry went through READY_FOR_PAYOUT and
PROCESSING; a reconciliation that completes while nothing moves reports exactly the
differences there are.

**Edge.** A refreshed session's predecessor is dead when the new one is known; a
signed message is accepted once in a nonce lifetime, and so once if that outlives the
timestamps, unless the in-memory store was full; at most
twice a limit passes in any span of its window; equal documents have one hash and
one row; a suppressed notification repeats one that was delivered.

Each property has a mutant of the code under which TLC finds it violated.

## 6. Findings

1. `oracle_redrive_confirms`: a redrive takes any failed validation for
   execution, so a trade taken back by the buyer's timeout is recorded as a
   confirmed milestone.
2. `gateway_cleanup_race`: the cleanup saves its copy of an action that an
   executor has moved on; the row says `stale` while its transaction was sent.
3. `indexer_dispute_outcome`: a bigint is compared with `0` by `===`, so each
   dispute proposal is stored as RESOLVE, and a decided trade stays FROZEN.

`PROJECT.json` quotes the lines that say otherwise.

### Known limits

Behaviours of the models that the properties except, each of which the code has.

Contract. An unpause proposed before `disableOracleEmergency` and approved after
it leaves the protocol running with the oracle off (`AgroasysEscrow.sol:497`),
although `contracts/README.md:221` asks for an active oracle.

Oracle service. A submitted trigger does regress when requests or polls overlap: of two
handlers on one row, the slower overwrites SUBMITTED with TERMINAL_FAILURE
(`queries.ts:33`), and with overlapping polls a hard timeout may overwrite a
confirmation (`confirmation-worker.ts:45`). `SettledYieldsToOverlap` says that nobody else
ever does. `ApprovedBeforeSend` holds without redrives: a redrive skips the
gate (`trigger-manager.ts:90`, against `docs/runbooks/oracle-redrive.md:135`). A
retry after a lost receipt records an executed milestone as TERMINAL_FAILURE
(`trigger-manager.ts:361`). `RETRY_ATTEMPTS=0` is accepted by the configuration
and leaves rows PENDING for good. The service does not consult compliance;
that a block holds its requests back is left to orchestration.

SDK. Overlapping calls of one buyer compete for the allowance and the nonce, and
one of them is refused. `validateTradeParameters` lets the zero hash pass, which
the contract refuses.

Gateway. A timed-out action stays `submitted` and blocks its intent, even when nothing
was broadcast (`governanceExecutor.ts:231` gives the whole call up, which may go on and
broadcast afterwards); a proposal's
row stays `pending_approvals`, so that a later identical request is answered with
the old row; a failed action's transaction may still land; an executor that dies
after the broadcast leaves `requested`, and the next one sends again. A key whose
request crashed stays in progress; a write whose read-back fails is answered 500
and repeated by the retry. A denial recorded after a resume has read the latest decision
(`complianceService.ts:404`) and before it writes (line 465) is overridden:
`NoResumeOverDenial` covers the denials that the request could see.

Read side. The timeline is sorted by timestamp alone and the trade list pages by
offset. `FinalTrancheReleased` is shown as the oracle's although anybody may
send it. The treasury's page order is by block alone (`order by blockNumber`): the fees of a block
among which a page ends may come in another order in the next query, and one of them may be
passed over for good. That happens as soon as the fees of a block do not lie within a page:
any size above 0 is accepted (`treasury/src/config.ts:145`), and a block may release several
trades. `NoFeeBehindTheOffset` excepts the fees of such a block (`BlockIsCut`), and no other;
without the exception TLC finds the loss on `read_side`, with two releases in a block and
pages of two fees. Events without a transaction hash are skipped; the export ends at
5000 entries; re-orgs are not followed by the offset. Two operators may append
contradicting successors of one payout state (CANCELLED, then READY_FOR_PAYOUT):
`PayoutNeverSkips` asks for a predecessor, not for the latest state. A crashed
reconciliation leaves its key RUNNING, and it is skipped from then on; a retried
run keeps the findings of its failed attempt. A run that reaches
`RECONCILIATION_MAX_TRADES_PER_RUN` is COMPLETED without the trades after it, and the next
run begins with the same ones.

Edge. No configuration requires nonces to outlive timestamps: `oracle/src/config.ts:102`
accepts a lifetime of 60 s with timestamps that are good for 5 minutes,
`ricardian/src/config.ts:146` any above 0, and the defaults of 600 s with a skew of 300 s
either way leave one instant, at which the nonce has expired and the timestamp still passes. `AcceptedOnce`
says what holds all the same, a message once in each nonce lifetime; in `edge` the oracle's
timestamps last as long as its nonces and TLC meets a second acceptance, while the other
stores' nonces outlive the timestamps. The oracle's HMAC signs timestamp and body but not the
nonce; the model delivers again what was signed, header included. Two equal messages of one
second have the same derived nonce. `auth/src/core/sessionService.ts:23` says that the old
session is revoked atomically, but a refresh issues and revokes in two statements (line 77):
in between, and for good if the process dies there or the second one fails, both sessions work.
`OldSessionRetired` is about the refreshes that were answered. `sdk/src/modules/authClient.ts:26` speaks of a default lifetime of 24 hours,
`sessionService.ts:55` of 3600 seconds. A new challenge replaces the pending one;
when the answer to a refresh is lost the client holds a revoked session. The limiter's
in-memory windows end with their process: `AdmittedBound` is about one life of it.

## 7. Not modelled, and what is left

Not modelled, with the reason:

- the writes of the in-memory stores that only tests and local runs use (gateway
  governance and compliance; their listings are compared with Postgres's, and
  `listRequestedExpired`, which takes the cleanup's candidates in another order
  in memory than in Postgres, is a choice of any candidate in the model), and store
  functions without a caller (`actionStore.save`, `findOpenByIntentKey`, `saveDecision`,
  `saveOracleProgressionBlock`, the oracle's `IndexerClient.getTrade`);
- the gateway's other read routes (governance status beyond the preflight,
  operations, settings, evidence), which are pure reads (the status snapshot,
  `governanceStatusService.ts:203`, is put together from calls that may see
  different blocks, and promises no more), and the wording, parsing
  and validation of request fields;
- `adminSDK.ts:375-453`, the admins' dispute calls (their contract side is in
  `AgroasysEscrow`), and `ricardianClient.ts`;
- `shared/auth/nonceStore.js`, an identical copy without users, and
  `contracts/foundry/src/AgroasysEscrow.sol`, an older copy of the contract;
- generated bindings and models (typechain, the indexer's model), scripts, CI,
  deployment, loggers and configuration parsing: no state of the running system,
  or code that is derived from what is modelled.

Left: of the properties that the runs check, those listed at the end of section 4 have no
theorem.
