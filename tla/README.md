# Verification of the Spark wallet SDK

TLA+ models, TLC runs and TLAPS proofs about the TypeScript SDK in
`packages/spark-sdk` of this repository: the wallet that holds leaves (UTXO-like
nodes of a tree kept by the signing operators), spends them, swaps them with a
service provider (SSP) and optimizes them in the background; and about the
commands in `dkg/` with which a group makes a threshold key and pays with it.
Paths below are relative to `packages/spark-sdk/src` unless they start with
`src/` or `dkg/`.

## The system

| Component | State it keeps | Operations | What makes it hard | Modelled |
|---|---|---|---|---|
| Leaf manager (`services/leaf-manager.ts`) | `leaves` (id to record: status, source), `optimizationInProgress`, `optimizationLockedLeafIds`, waiters, `hasSynced`, `leavesMutex` | `sync`, `selectLeavesAndExecute`, `executeWithAllLeaves`, `optimizeLeaves`, `addLeaves`, `addIncomingLeaves`, `evictStaleAvailable`, `registerClaimedLeaves`, `handleDepositEvent`, `handleTransferEvent`, getters | every operation awaits network calls between its critical sections; failures between two awaits; stream events in any order against them | `LeafCache`, `LeafManager` |
| Leaf selection (same file) | none | `selectLeaves`, `determineLeavesToSwap` | exact fits at the boundary, order of targets, totals compared over all targets | `LeafSelection`, `SelectionLoops` |
| Leaf timelocks (`services/signing.ts`, `services/transfer.ts`, `utils/transaction.ts`) | the timelocks of a leaf's transactions, the copies wallets keep of them | sign the refunds of a send, a payment with a hash, a swap, a claim; the three renewals | a refund of an earlier owner must never be due first; copies go stale when the answer of a renewal is lost | `LeafTimelocks` |
| Swap service (`services/swap.ts`) | none of its own; changes leaves by callbacks | `requestLeavesSwap`, `executeSingleSwap` | lost replies, the SSP failing after the operators accepted, batches of 64 | one batch in `LeafManager`, the split in `SwapBatches` |
| Wallet executors (`spark-wallet/spark-wallet.ts`) | none | `transferV2`, `transferWithInvoice`, `payLightningInvoice`, `withdraw`, `getWithdrawalFeeQuote` | concurrent calls of one executor, one failing; release inside an executor | in `LeafManager` |
| Wallet events and claims (same file) | stream controller, heartbeat timer, `claimTransferMutex`, the periodic timer | `setupBackgroundStream`, `handleStreamEvent`, `claimTransfer(s)`, `startPeriodicClaimTransfers`, `processClaimedTransferResults`, `getBalance`, `cleanup` | a stream that goes silent or ends, a list of pages that shrinks while it is read, events late, missed or about leaves reused since; two claims of one transfer | the loop and its claims in `EventStream`, `TransferClaim`; what they do to leaves in `LeafManager` |
| Transfer service (`services/transfer.ts`) | none | sends, claims, queries of pending transfers | retries of a claim somebody else completed; queries answered at different times | by its effect, in `LeafManager`, `TransferClaim`, `LeafTimelocks` |
| Signing operators, SSP | state of each leaf, transfers, token outputs, challenges | accept, refuse, tweak, return, authenticate | external | in the modules above, from how the code uses them |
| Token outputs (`services/tokens/output-manager.ts`, token methods of the wallet) | outputs per token, local locks with an expiry, ids and transactions waiting for a debounced sync | `setOutputs`, `acquireOutputs`, `acquireOutputsBatch`, `scheduleTokenSync`, `flushTokenSync`, `optimizeTokenOutputs` | a lock expiring while its transaction is under way; answers applied out of order; a flush that fails | `TokenOutputs`; which outputs are selected in `TokenSelection` |
| Connections (`services/connection`), time sync | channels with counts, clients per instance, tokens, promises of what is being created | `acquireChannel`, `releaseChannel`, `createClient`, `authenticate`, the middleware, `closeConnections` | instances and callers that share a channel, a promise or a token, one failing; retries; expiry against a call | `Connections` |
| Optimization plans (`utils/optimize.ts`) | none | `optimize` | arithmetic at the boundaries, batches that are cut | `OptimizePlans` |
| Key ceremony (`dkg/ceremony.ts`), threshold signers (`dkg/chilldkg-spark-signer.ts`, `signer/threshold-signer.ts`) | the group, share and proposal files; nonces | `keygen`, `propose`, `sign`, `execute`; `signFrost` | commands that share a file without a lock, or are killed; a nonce in two signatures; parity of the key | `Ceremony`, `ThresholdScalars` |

`PROJECT.json` lists the other parts (encodings, generated protocol code, native
bindings, configuration, logging, the read-only client, unilateral exit,
lightning and cooperative exit) with the reason each is left out.

How they interact. A wallet operation calls the leaf manager with an executor.
The manager selects leaves under its mutex, marks them `LOCAL_LOCKED`, releases
the mutex, perhaps swaps them (operators, then SSP, then a claim), renews them,
and runs the executor, which calls the operators. What the executor left locked
becomes `OUTGOING`. The event stream tells of every transfer when it starts and
when it ends, and moves the leaves again. A background optimizer locks the leaves
of a whole plan and swaps it batch by batch while other operations wait for it
or go on. `sync()` reads what the operators know, in several queries without the
mutex, and rewrites the cache with it, all but locked leaves. Beside all this run
the event stream with its reconnecting loop, which claims what others send, and
the token outputs with locks of their own. Every call of an operator goes through
a client of the connection manager, whose channels and tokens all wallets of a
process share. The key ceremony is a program of its own that opens a wallet with
a threshold signer.

## The modules

* `LeafSelection`: what is selected, by properties. `IsGreedy` says what the
  inner loop of `selectLeaves` returns for one target, `IsLeavesToSwap` what
  `determineLeavesToSwap` returns. A selection is *any* set that some order of
  equal leaves yields, so nothing depends on the order of a `Map`.
* `SelectionLoops`: the loops themselves, one step per target, over every order
  the sort may produce. It is what ties `LeafSelection` to the code.
* `LeafCache`: the records, the transition table and each synchronous update of
  the cache as a function from cache to cache. An id the `Map` does not hold has
  status `NONE`; `SPENT` deletes, as in the code.
* `LeafManager`: the operations. One variable `pc` per operation names the await
  it is at; each action is all the code from one await to the next. State:
  `cache`, `optimizing` (`optimizationInProgress`), `lockedIds`
  (`optimizationLockedLeafIds`), `hasSynced`; per operation `batches` (the leaves
  it captured, by target or by planned swap), `step`, `retried`, `unread` and
  `snap` (a sync's answers); `so` and `xfer` for the operators. `moved` is a history
  variable that no step depends on: of each sync under way, the leaves whose state
  at the operators changed since it began, and those `getLeaves` dropped. The waiters are
  the operations at `"waiting"`, and `NotifyAndGoto` wakes them all.
  `leavesMutex` needs no variable: no critical section of the code awaits
  anything, so a section is one step.
* `LeafLifecycle`: the abstract specification. It knows the status of each leaf,
  the syncs whose answers are in and the swaps whose leaves have arrived, and
  says which status may follow which: at any time (`Change`), once at the end of
  a swap (`Land`), and once per sync, which may do anything except lock or unlock
  (`Resync`). `LeafManager` implements it (`LifecycleSpec`), with `ready` and
  `landed` read off the awaits. The point is that most of the writes go round
  `transition()` and its table.
* `LeafTimelocks`: one leaf as the chain of its node transactions and its refund,
  each with its timelock and the earliest of those that earlier owners have for
  the same output; the owner's copy, which may be stale; the transfer under way.
* `OptimizePlans`, `SwapBatches`, `TokenSelection`: the algorithms over amounts,
  as operators from a list of amounts to what the code returns. `Amounts`: what they
  share, totals, counts and sorting.
* `TokenOutputs`: the manager and the operations of the wallet that use it. `age`
  is `localPendingMap` with the time since a lock was taken, `queue` the answers
  that have been fetched and not applied.
* `TransferClaim`: one claim under `withRetry`, to be composed with what starts
  claims. `EventStream` does that: `pc` is where the loop of
  `setupBackgroundStream` or the periodic pass is, `order` the operators' list
  of transfers, `todo` the places on it that are still to be claimed from the page
  (of which only the length, `page`, decides what comes next), `missed` those that
  a gap the code has may leave for a later pass.
* `Connections`: the channels to one operator. `channels` and `creating` are
  `channelCache` and `channelInflight`, `auth` is `authInflight`; `lost` counts
  the clients that another replaced in the map of an instance, `joined` the
  channels whose creation several users waited for.
* `ThresholdScalars`: shares and signatures over the scalars modulo `P`, with a
  point written as the scalar of its base. `Ceremony`: the commands on their
  files; `history` remembers whether two ran at once or the key was made anew,
  `unrecorded` the payments whose command ended before it recorded them.
* `MCLeafManager`, `MCSelectionLoops`, `MCTokenOutputs`, `MCConnections`,
  `MCEventStream`, `MCCeremony`: constants of the instances. `MCSelectionLoops`
  also puts together what has no state in common: the loops, the algorithms over
  every small list of amounts, and one leaf's timelocks.
* `LeafManagerProofs`, `LeafOrderProofs`, `SelectionProofs`,
  `LeafTimelocksProofs`, `ConnectionsProofs`, `CeremonyProofs`,
  `TokenOutputsProofs`, `EventStreamProofs`: theorems.

Operations and code:

| Actions | Code |
|---|---|
| `WaitOrProceed`, `WaitTimesOut`, `CheckBalance` | `waitForOptimizationIfAvailabilityMayRecover`, `...IfAllLeavesMayChange`, `waitForOptimizationUpdate`, the check at the top of `selectLeavesAndExecute` |
| `SelectExact`, `SelectForSwap`, `NotEnoughLeaves`, `SweepSelect` | `selectLeavesWithSwap` phases 1 and 2, `executeWithAllLeaves` |
| `SwapSend` to `SwapApplied` | `executeSingleSwap` with `onBeforeInitiate`, `onSwapInitiated`; phase 4; the batch of `optimizeLeaves` |
| `Optimize*` | `optimizeLeaves`: the guard, the guard again under the mutex, one batch per `yield`, the `finally` |
| `Execute*`, `Executor*`, `RenewalThrows`, `QuoteReleases` | `checkRenewLeaves` and the executors |
| `Fetch*`, `SyncApply`, `Refresh*` | `sync`, and `getBalance` (`getLeaves`, `addLeaves`, `evictStaleAvailable`) |
| `ClaimStart`, `Claim`, `Register*` | `handleStreamEvent`, `claimTransfer`, `registerClaimedLeaves` |
| `Deposit*` | `handleDepositEvent`, `verifyAndAddLeaf` |
| `Hear`, `Miss` | `handleStreamEvent`, `handleTransferEvent` |
| `So*`, `SspSwaps`, `DepositConfirmed`, `OtherInstanceSends` | external |
| `SyncCopy`, `checkRenewLeaves`, `Renewed` (LeafTimelocks) | `checkRenewLeaves` and `renewZeroTimelockNodeTxn`, `renewNodeTxn`, `renewRefundTxn` |
| `SendSelected`, `SendAll`, `SendToSwap`, `ClaimLeaf` | the refunds `signRefunds`, `signRefundsForLightning` and `signRefundsForClaim` sign; which of their callers renew first |
| `PassStart` to `PassEnds` (EventStream) | `claimTransfers` |
| `Claim*` (TransferClaim), `HandleEvent*` | `claimTransfer`, `TransferService.claimTransfer` under `withRetry` |
| `Subscribe` to `Delayed`, `Heartbeat*`, `Deliver` | `setupBackgroundStream` |
| `Tick`, `PeriodicEnds`, `cleanup` | `startPeriodicClaimTransfers`, `cleanup` |
| `Fetch`, `Apply`, `FetchFails` (TokenOutputs) | `syncTokenOutputs`, `setOutputs` |
| `AcquireOutputs`, `Insufficient`, `AcquireBatch` | `acquireOutputs`, `acquireOutputsBatch` with `selectTokenOutputs` |
| `scheduleTokenSync`, `Flush*`, `MetadataFails` | `scheduleTokenSync`, `flushTokenSync`, `getTokenBalanceMap` |
| `CreateClient`, `AcquireChannel`, `ChannelCreated`, `ChannelFails` (Connections) | `getOrCreateClientInternal`, `acquireChannel`, `createChannelWithTLS` |
| `HasToken`, `Auth*` | `getOrCreateAuthToken`, `authenticate` |
| `Call*`, `TokenRefused` | `createMiddleware`, `handleMiddlewareError` |
| `Propose*`, `Sign*`, `ExecuteRead` to `RecordResult`, `runKeygen` (Ceremony) | `runPropose`, `runSign`, `runExecute`, `runKeygen` |

Abstractions. A leaf has an id and a value; trees, keys, signatures and refund
transactions are not modelled, and renewal appears by its outcomes: all leaves,
some dropped, or a throw. The executors keep the order of their calls and what
they do to leaves before and after. The reply of an operator carries the status
the transfer had when it was answered or a later one; the callback that uses it
is one step. With `AtomicFetch` the queries of a sync see one state of the
operators; without it each is answered on its own. Stream events of one transfer
arrive in order, of different transfers in any order, and any may be missed when
`Env` says so. `Env` names everything that may go wrong; each run says which of
it happens. Bounds: `MaxCalls` operator calls per operation (an operation that
would exceed it stops there), `MaxBatches` swaps per plan, and one run of each
operation: two operations of a kind stand for two calls of it.

Left out of `LeafManager`: `removeLeaves` and `selectLeavesReadOnly`, which
nothing calls; swaps of more than 64 leaves; the `pending` callback of a
transfer to oneself (it changes no leaf).

Abstractions of the other modules.

* `LeafTimelocks`: a renewal that is repeated has the idempotency key of the
  first (the id of its refund) and is answered alike. A sync sees the operators at
  one moment (torn answers are in `LeafManager`). The refunds of a cooperative
  exit have the timelocks of a transfer's; their connector input is left out.
  A deposit's node has timelock 0, nodes of other trees the initial one. The
  direct refund that a node without timelock does not get is modelled as if it
  had one, which only asks for more. What is signed for a transfer that returns
  stays with the operators.
* `TokenOutputs`: a Spender asks for an amount that any one output covers.
  `Expiry` and `Patience` are in ticks; without `"slow"` in `Env` an operation
  is not delayed past `Patience` between its query and its broadcast.
* `EventStream`: a page is fetched at one moment; the transfer `fetchData` reads
  anew before a retry tells the model nothing. Only ids matter to the list.
* `Connections`: time has no variable, a token may expire at any moment. Waiters
  of one promise are woken in one step. The mode without identity is left out.
* `Ceremony`: with today's strict Spark signer a payment of the group fails
  (src/README.md:24); the model follows the code, whose claim or payment
  succeeds, throws before the operators accepted it or throws after (a reply that is
  lost, a later step of the executor). A read of a file, and a write, is one step. `walkthrough` is the
  commands in turn.

## The runs

Each takes from one second to about two minutes with two workers.

| Run | Instance | Checks |
|---|---|---|
| `LM_optimizer` | two optimizations and two sends, leaves 2 and 1, two leaves for a swap; plans of up to two swaps; SSP failures, timeouts, executors that throw late | `TypeOK`, `NoOrphanLock`, `NoDoubleSelection`, `InFlightWasAccepted`, `OneOptimization`, `NobodyWaitsForNothing` |
| `LM_swap` | an invoice batch of two jobs on one leaf, getBalance, another instance of the wallet; lost events and replies, renewals that throw | `InFlightWasAccepted` |
| `LM_startup` | a wallet before its first sync: a claim, a deposit, a transfer to itself; returned transfers, renewals that throw or drop leaves, queries that fail or are answered apart | `StillLeavesAreSynced`, `SyncRepairs`, `LifecycleSpec` |
| `LM_live` | a fee quote, a sweep that may drop leaves at renewal, an optimization on one leaf; lost replies, SSP failures, executors that throw late; under fairness | `NoOrphanLock`, `OperationsEnd` |
| `SL_selection` | leaves of values 4, 3, 2, 2, 1 with up to three targets of up to 4; every wallet of up to 4 of the amounts 1, 2, 4, 5, 7 and 9, or up to 6 of 3 amounts, with limits 1, 2, 3 and 12; one leaf with the code's timelock of 2000 through 22 renewals | `LoopsAgree`, `ExactAndDisjoint`, `NoNeedlessSwap`, `PlansAreSound`, `SplitsAreValid`, `SelectionsSuffice`, `NewestComesFirst`, `SignedOverPresent` |
| `TK_tokens` | a batch transfer of two tokens, a consolidation, a full sync, a flush, one incoming output; queries and sends that fail, returned transactions | `OneTransactionPerOutput`, `AnnouncedIsKnown`, `NewsIsKept` |
| `CN_connections` | two callers of one instance for one client, one of another instance on the same channel; up to three channels, two tokens, two attempts | `TypeOK`, `ChannelInUseIsOpen`, `NoChannelOutlivesItsUsers`, `WaitersHaveACreator` |
| `CE_ceremony` | a group of two out of three over the scalars modulo 11, keys of both parities; two proposals, four signings (one participant twice), two executions, two at a time, killed or throwing anywhere | `AggregateIsValid`, `PaymentIsAuthorized`, `PaidAgainOnlyUnrecorded`, `NonceSignsOnce`, `LeafShareIsOfTheWhole` |
| `ES_stream` | the stream and the periodic pass; a transfer and the counter transfer of a swap on pages of one; everything that may fail does | `TypeOK`, `NothingSlipsThrough`, `ClaimsAreKept`, `EverythingIsClaimed`, `LoopGoesOn`, `SilentStreamIsLeft` |

What the properties say:

* `NoOrphanLock`: a locked leaf has a running operation that holds it. `sync()`
  deliberately preserves locked records, so a lock nobody holds is a leaf lost
  until the process restarts.
* `NoDoubleSelection`: two operations never hold one leaf. The mutex does not
  give this alone; it takes the statuses too, and every write that makes a leaf
  `AVAILABLE` can break it.
* `InFlightWasAccepted`: `OUTGOING` and `SWAP_PENDING` mean that operators have
  the leaf in a transfer. The wrapper marks every leaf still locked when an
  executor returns, so it relies on the executors.
* `OneOptimization`, `NobodyWaitsForNothing`: the flag, the locked ids and the
  running optimizer agree, and a waiter is always going to be notified.
* `StillLeavesAreSynced`, `SyncRepairs`: how wrong a sync can be. Its four queries
  are answered at four moments and applied at a fifth; it errs at most about leaves
  that moved at the operators while it was under way, and every other leaf that no
  operation has locked ends with the status the operators' state calls for. So what
  `LM_find_stale_sync` shows needs a call about that very leaf between the first
  query and the end. When the answers are still true together, exactly the right
  leaves are available.
* `LifecycleSpec`: the refinement above.
* `OperationsEnd`: every operation that starts ends.
* `LoopsAgree`: the sets of `LeafSelection` are exactly those the loops can return,
  the leaves to swap cover the target and no leaf is one too many.
  `ExactAndDisjoint`: comparing totals over all targets suffices.
  `NoNeedlessSwap`: with leaves worth powers of two, greedy selection by ascending
  target misses no exact fit (it does with others, so the property has that
  premise).
* `PlansAreSound`: every swap of a plan has equal sides and few enough leaves, no
  leaf is given twice, and a plan in which no batch is cut (`Uncut`) leaves the
  wallet optimal. That the wallet and the optimal leaves are both fewer than the limit
  is not enough for the last: leaves of 7 and 9 with a limit of 3 and multiplicity 0
  make one batch of the 7, since its own target of 1, 2 and 4 reaches the limit, and
  the plan ends in five leaves where 16 is the optimum. The premise was once that; the
  attempt to prove it showed the gap, and the amounts of the run now include the case.
  `SplitsAreValid`: no batch of a large swap is refused after another was made.
  `SelectionsSuffice`: token selection fails only where every selection would.
* `NewestComesFirst`: of the transactions that spend one output the newest owner's
  is due first. It relates every transaction ever signed: the rounding of a claim,
  the offset of a payment with a hash and three renewals must leave a margin of
  more than the direct variant's offset. `SignedOverPresent`: nothing is signed
  over a node that was replaced, although copies may be stale.
* `OneTransactionPerOutput`: no two transactions of the wallet spend one output.
  Its premises are tight: with a lock that lives one tick less, with `"slow"`, or
  with `"overtake"` it does not hold (below).
  `AnnouncedIsKnown`: debounced and partial syncs lead to what one full sync
  would. `NewsIsKept`: a failed flush forgets nothing.
* `NothingSlipsThrough`: at rest, a claimable transfer is one of the gaps that
  `missed` names. `EverythingIsClaimed`: what a pass misses a later one claims.
  `ClaimsAreKept`: a transfer claimed in spite of a lost answer has its leaves
  registered. `LoopGoesOn`: the pages end, the loop reconnects, and it stops at
  cleanup. `SilentStreamIsLeft`: after one heartbeat silence is noticed.
* `ChannelInUseIsOpen`, `NoChannelOutlivesItsUsers`: the count of a channel
  against its users. `WaitersHaveACreator`: a promise that somebody awaits is
  somebody's work.
* `AggregateIsValid`, `LeafShareIsOfTheWhole`: the shares of any two
  participants, negated or not, make what the whole secret would.
  `PaymentIsAuthorized`, `PaidAgainOnlyUnrecorded`, `NonceSignsOnce`: what the files
  say of the past is true although commands replace them; the last two while commands
  run one at a time. A command that is killed, or whose payment throws after it was
  accepted, may cost one more payment; nothing else does. A nonce stays in the
  proposal file in clear, beside the share made of it (dkg/ceremony.ts:384, 396), and
  nothing removes it: only the order of the commands keeps it from a second use.

Why the bounds are enough. The hazards of the leaves are between two or three
operations and one or two leaves: a race needs two operations that want one leaf,
a swap one leaf to give and two to receive, a torn sync one transfer that moves
between two answers. Values 2 and 1 with a target of 1 give an exact fit, a
needed swap and a shortage. Larger instances of the same runs were tried (four
leaves, two plans of two swaps) and show nothing more. The timelocks are the
code's own, and 22 renewals take a leaf from a fresh node to one that is split
and fresh again. A limit of 1, 2 or 3 stands for 64 and 500: the wallets are
longer than the limit, of its length and shorter. Two buyers, one of two tokens,
suffice for a lock to
expire, a partial answer to miss it and a batch to fail half-way. Three channels
let a release that comes late meet a later channel; pages of one transfer let the
list shrink below the offset. Modulo 11 a share, a nonce and the key take every
parity, and two of three participants give every choice of signers.

Fairness of `LeafManager` (`FairSpec`, `LM_live` only). Every operation that can
take a step takes one: the event loop runs every callback. Every call to the
operators or the SSP is answered or fails: they are gRPC and HTTP calls whose
connections end, and the client's own waits are considered under "Not modelled"
(the SSP) and in `Connections`. An optimization ends because its consumer goes on iterating or leaves
its loop; a consumer that did neither would keep the flag up for ever, and only
the timeout of the waits would free the others. No fairness is assumed of losses
or events.

Fairness of `EventStream`. The loop is a promise chain (weak fairness of `Loop`),
a timer that is not cleared goes off, and a stream that ended or a cleanup ends
the attempt. Strong fairness of a query, of a claim of each transfer and of a
connection says that what is tried again and again succeeds at some time; without
it an operator that never answers refutes the property, and says nothing of the
wallet. `EverythingIsClaimed` asks in addition that passes go on: a stream that
stays up for ever never looks again at what it missed (below). Nothing is assumed
of events, heartbeats, other instances or `cleanup`.

`CHECK_DEADLOCK FALSE` everywhere: operations run once, or to a bound, so each
system ends.

## Where the code differs from its own comments

Three runs show it; each is a run TLC must refute.

* `LM_find_leak` (`NoOrphanLock`): in `selectLeavesAndExecute` the call of
  `checkRenewLeaves` (leaf-manager.ts:458) is after the lock and before the `try`
  whose `catch` restores it; the same in `executeWithAllLeaves` (714). When the
  query in it fails, the leaves stay `LOCAL_LOCKED` for ever. The passing runs
  that check `NoOrphanLock` therefore leave `renewThrows` out.
* `LM_find_stale_sync` (`NoDoubleSelection`): `sync()` reads before it takes the
  mutex. A leaf locked, sent and marked in between is `AVAILABLE` again, and the
  next operation locks it while the first still holds it. The passing runs that
  check `NoDoubleSelection` have no sync beside the sends but their own retries,
  which come after their leaves were released; with lost replies *and* a retry
  the same thing can happen to a sweep, so `LM_optimizer` loses no reply.
* `LM_find_released_job` (`InFlightWasAccepted`): a failed invoice job releases
  its leaf while the other jobs go on (spark-wallet.ts:3240); another send locks
  it, and the return of the first executor marks that lock `OUTGOING`.
  `getWithdrawalFeeQuote` (spark-wallet.ts:5241) releases the same way. The
  passing runs that check it with invoices have one sender.

Comments that hold only in part. These were met while modelling; the model
allows each of them, so the properties above are stated to hold with them or the
run named leaves the cause out.

* leaf-manager.ts:273-276, a preserved lock "ensures the leaf stays locked until
  the calling code explicitly transitions it": a late event of a returned
  transfer makes any leaf of it available (920), locked or not. Not in
  `LM_optimizer` (no `return`).
* leaf-manager.ts:839-841, "AVAILABLE and owned by us": only the status is
  tested (844), so a deposited leaf that was sent away, and is available to its
  new owner, can be added again by a late event.
* leaf-manager.ts:648-650, "successfully claimed leaves are definitively ours":
  a second claim of a completed transfer returns its leaves all the same and
  registers them (655), even if they were sent in between, and over a lock.
* leaf-manager.ts:899-901, stale events "must not re-transition" a reclaimed
  leaf: the test (905) asks for `AVAILABLE`, so a reclaimed leaf that has been
  locked again is moved by them.
* leaf-manager.ts:950-954, the stream leaves the leaves of a swap to the swap:
  the `initiated` event has by then rewritten the source (944) the filter (956)
  looks at, so the final event deletes them before the replacements arrive.
* leaf-manager.ts:1224-1231, "Update state and re-select under lock": phase 4 of a
  swap writes its new leaves `AVAILABLE` whatever is there. A `getBalance` since they
  were claimed may have added one, and another send may have locked it; the lock is
  overwritten. No passing run has a `getBalance` beside a swap and a second send.
* leaf-manager.ts:1189-1191, "LOCAL_LOCKED means the SO was never contacted":
  not when the reply of the call was lost (1192).
* leaf-manager.ts:1817-1820, "No overlap": true of one state of the operators,
  not of two queries answered at different times.
* spark-wallet.ts:796 claims counter transfers of swaps after a reconnect, so a
  swap's new leaves can be selected before phase 4 registers them and selects
  again. No run has such a claim beside a swap.
* leaf-manager.ts:1189-1193, `onSwapInitiated` is about the leaves of the swap:
  with more than 64 leaves a batch may get no target and is skipped
  (swap.ts:55), yet all leaves are marked `SWAP_PENDING` and deleted in phase 4.
  A later batch that fails loses the results of the earlier ones, and a target
  larger than the 64 biggest leaves is refused though the balance suffices.
* utils/optimize.ts:204-216 drops a batch whose receiving side is too long when
  no shorter mix exists; the plan is sound but not complete (`PlanIsSound` asks
  for the optimal leaves only where nothing is cut). Lines 134-139 cut by the
  target of a batch that is not complete, so that even two leaves may be optimized
  apart. The comment at 114-115 says as much: "multiple iterations may be required".
* leaf-manager.ts:1198-1200 and 1206-1215, leaves with a low timelock "will be
  renewed on next sync() or access": a swap or an optimization accesses leaves
  and renews none, and `addLeaves` caches unrenewed ones, so that a swap of
  such a leaf throws until the next sync. `selectLeavesAndExecute` passes a leaf
  whose renewal failed to the executor all the same; only that throw keeps a
  stale copy from being signed (`SignedOverPresent`, `StaleIsNeverSigned`).
* tokens/output-manager.ts, the local lock is there "to prevent concurrent
  transactions from spending the same outputs": an answer that overtakes a later
  one makes an output available again after the lock was given up, and a lock
  may expire while a transaction waits. Both are premises of
  `OneTransactionPerOutput`. A batch transfer that fails at its second token leaves
  the first locked until the lock expires. The default expiry of
  the manager (30 s) is not the wallet's (20 s, wallet-config.ts:295).
* spark-wallet.ts:682, a flush of token events that fails puts them back and sets
  no timer, so they wait for the next event. When an event without token ids
  meets one with ids, only the named tokens are fetched.
* spark-wallet.ts:796, the pass is there to claim what came before the stream:
  the call of the stream is made at its first iteration, after the pass, so a
  transfer that becomes claimable in between is in neither. A claim that fails in
  `handleStreamEvent` is logged and left to the next reconnect. An iterator that
  ends without an error reconnects at once, with no delay.
* spark-wallet.ts:3443-3455, the offset moves on only over a page nothing of which
  left the list: a claim the operators made and that ended in an error takes its
  transfer off the list and is no progress, so the next offset passes over others
  until a later pass.
* connection.ts:118-131, users who await one creation are counted as one, and a
  client releases a key and not a channel: a later release may close a channel
  under its users. This is the premise (`joined = {}`) of `ChannelInUseIsOpen`.
  A client that another replaced keeps its count for ever; `closeConnections`
  does not see clients that are being created; a late refusal of an old token
  discards a newer one and costs an authentication, nothing else.
* dkg/ceremony.ts: a `sign` beside another command loses a signer, or makes the
  file forget that it was paid, or puts one nonce in two signatures; after an
  `execute` that is killed between the payment and its record, or whose payment throws
  (480, 486) although the operators accepted it, the next one pays again; `sign` compares the
  aggregate with the group file of the day, not with the key in the proposal.

## The proofs

Proved with TLAPS, for any sets of operations, leaves and transfers,
any values and any bounds:

* `TypeCorrect`: `Spec => []TypeOK`.
* `LocksHaveHolders`: `"renewThrows" \notin Env => (Spec => []NoOrphanLock)`. The
  premise is the disagreement `LM_find_leak` shows; everything else in `Env` is
  allowed, and so are any number of syncs, claims and deposits.
* `OptimizationIsAlone`, `WaitersAreWoken`: `Spec => []OneOptimization`,
  `Spec => []NobodyWaitsForNothing`.
* `ImplementsLifecycle`: `Spec => LifecycleSpec`, the refinement.
* `StillLeavesSync`, `SyncsRepair`: `Spec => StillLeavesAreSynced` and
  `Spec => SyncRepairs`, with everything in `Env` allowed.
* `SelectionsAreApart`, `InFlightIsTaken`: `Undisturbed => (Spec => []NoDoubleSelection)`
  and the same for `InFlightWasAccepted`. `Undisturbed` leaves the cache to the
  operations that hold leaves: no sync or refresh rewrites it from older answers,
  no other instance sends, no transfer is returned, no call fails that may have been
  applied, a Sender sends its leaves away, and what comes in is claimed once.
  Stream events may come late or be missed, the SSP may fail, an executor may
  throw after its call, a renewal may throw or drop leaves, a wait may time out.
  Two of its parts are what `LM_find_stale_sync` and `LM_find_released_job`
  do without; the instance of `LM_optimizer` satisfies all of them.
* `NewestAlwaysFirst`, `StaleIsNeverSigned`: `TimelockSpec => []NewestComesFirst`
  and `TimelockSpec => []SignedOverPresent`, for every initial timelock of at
  least two whole intervals and any number of renewals.
* `WaitersAreHeard`, `UsedChannelsAreOpen`, `ChannelsAreGivenUp`,
  `CountsStayNatural`: `WaitersHaveACreator`, `ChannelInUseIsOpen`,
  `NoChannelOutlivesItsUsers` and `TypeOK` of `Connections`, for any instances,
  callers, channels and tokens.
* `PaymentsAreAuthorized`, `RepeatsAreUnrecorded`, `NoncesSignOnce`,
  `AggregatesAreValid`, `LeafSharesAreWhole`: all invariants of `Ceremony`
  (`PaymentIsAuthorized`, `PaidAgainOnlyUnrecorded`, `NonceSignsOnce`, `AggregateIsValid`,
  `LeafShareIsOfTheWhole`), for any commands, participants, nonces, keys and
  threshold, and any prime modulus. The last two rest on what the algebra gives:
  `ThresholdSharesAddUp` proves `SharesAddUp`, that the parts of any `Threshold`
  participants add up to the signature of the whole secret, and
  `SelectedShareIsWhole` the same of `signFrost`, for every tweak, nonce and
  challenge (`MCCeremony` has TLC evaluate `SharesAddUp` for its keys as well).
* `EventsAreKept`: `Spec => []NewsIsKept`. `AnnouncedStaysKnown`:
  `"overtake" \notin Env => (Spec => []AnnouncedIsKnown)`. `OneTransactionEach`:
  `InTime => (Spec => []OneTransactionPerOutput)`, where `InTime` says that answers
  are applied in order, no operation takes longer than `Patience`, and a lock lives
  at least twice as long. These are the premises the property has itself, which
  are tight (see The runs).
* `TypesKept`, `ClaimsKeepLeaves`, `NoTransferIsLeftOut`: `TypeOK`,
  `ClaimsAreKept` and `NothingSlipsThrough` of `EventStream`, for any transfers,
  page size, number of attempts and environment.
* `LoopsReturnSelections`, `SelectionsAreExact`, `SwapsAreNeeded`: `LoopsAgree`,
  `ExactAndDisjoint` and `NoNeedlessSwap` of `SelectionLoops`, for any finite set of
  leaves, any values and any list of targets. With them the sets that `LeafManager`
  takes its selections from are what the loops of the code compute.
* `TokensArePaid`, `SplitsAreSound`, `OptimizerPlansSoundly`: `MCSpec => []SelectionsSuffice`,
  `MCSpec => []SplitsAreValid` and `MCSpec => []PlansAreSound`, for wallets of any amounts
  and any length. They rest on three lemmas that do not mention the instance:
  `TokensSuffice`, about every list of outputs, every amount and limit, `SplitIsValid`,
  about every list of leaves, of targets and every batch size, and `PlanSound`, about every
  list of leaves, every multiplicity and limit.

Assumptions: `LeafSelectionAssumption` and `LeafManagerAssumption`, which say
that the constants have their types, that the kinds of operations are disjoint,
that transfer ids of different origins differ, and that leaves on their way in are
not owned yet and come by one transfer or deposit; `LeafTimelocksAssumption`,
that the initial timelock is a multiple of the interval and fits a sequence
number; `ConnectionsAssumption`, that instances and callers are finitely many;
`CeremonyAssumption` and `ThresholdScalarsAssumption`, that the constants have their
types (a challenge is a scalar: `challengeScalar` reduces its hash), the kinds of
commands are disjoint and the modulus is a prime more than 2, as the order of
secp256k1 is;
`TokenOutputsAssumption`, that outputs are finitely many, each of one token, that a
spender asks for one at least and that the kinds of operations are disjoint;
`TransferClaimAssumption` and `EventStreamAssumption`, that there is at least one
attempt and one place on a page; `SelectionLoopsAssumption`, that the bounds on
targets are numbers; `ListsAssumption`, that the amounts and limits of `MCSelectionLoops` are positive
integers and its lists have a bounded length.
TLC evaluates each on every run of its module.

The arguments, each an inductive invariant and one step per action:

* `LeafManagerProofs`. `TypeOK` is not inductive: `TInv == TypeOK /\ Control`.
  `Control` says which kinds of operation may be at which await, that an operation
  about to register a claim of its own or in a swap has made a call, and that an optimizer
  about to swap has a batch to swap (`step[p] \in DOMAIN batches[p]`). Without
  it the steps of a swap could not be shown to use a batch or a transfer that
  exists. The lemmas about the cache come first: every update but a capture, the
  end of a Sender's swap and a sync `Eases` the cache (each leaf follows its
  lifecycle, none becomes locked).
* Its second half first combines those lemmas with what `LeafLifecycle` sees of
  the awaits (`Ready`, `Landed`). `LockInv`: every locked leaf is held by some operation, an
  operation at rest holds nothing, and none is stranded. The second part makes
  it inductive: a capture replaces what the operation held, so it must have held
  nothing. Each step either keeps the batches and locks nothing
  (`KeepsLocks`), or replaces one operation's batch by what it locked
  (`BatchKeepsLocks`).
  `OptInv`: the two properties of the optimizer are inductive together: the flag
  is lowered by the one that raised it, in the step that wakes every waiter.
  `BoundInv`: a leaf is bound by one transfer at most, the one that took it until
  the keys are tweaked or the one that brings it until it is claimed, and is then
  not free at the operators. So a true answer about transfers never contradicts
  one about leaves, and the order in which a sync applies them does not matter.
  Such answers need not be from one moment, though. For `StillLeavesSync` a step of the
  operators is shown to move every leaf that the transfer it changes binds
  (`OnlyMoved`); calls are numbered without gaps (`Numbered`), so a new call does not
  take the place of one an answer told of. So what an answer said of a leaf
  that has not moved stays true until the sync is applied (`SyncInv`), and
  what is still to be asked will be answered truly (`Awaited`).
* `LeafOrderProofs`. That two operations hold no leaf in common says nothing of the
  leaf that one of them lets go of. `OInv` follows each leaf through its life. `LeafInv`: an AVAILABLE leaf is held
  by nobody and free at the operators (`Pool`); a held leaf without a call is
  locked and free (`UntouchedFree`); a held leaf that is still locked is without a
  call or its call is open (`LockedMeans`), so the release of a failure gives
  back only leaves that were not taken; a leaf that a call is about is
  free at the operators until the call is answered, and stays taken after
  (`Answered`). `CallInv`: each open call is that of
  an operation at the await for it, and calls under way share no leaf, so all are accepted. `ArriveInv`: leaves on
  their way in are on one way, and nobody holds them or has them in a transfer.
  `Unclaimed`: what is claimed next was not claimed before, so each claim brings
  its leaves.
  One lemma says what an update of the cache by one operation must respect
  (`UpdateKeeps`), one what a call must (`CallsKeep`), one what a move of the
  operators must (`OperatorsKeep`); every action is shown to be one of the three.
* `LeafTimelocksProofs`. `NewestComesFirst` alone is not inductive. The
  invariant adds that every lock and every rival is a whole number of intervals
  (so a margin of one is a margin of the direct offset), and that a copy is the
  leaf's or is stale with exactly one interval left; the last says why the throw
  of `CanDecrement` is enough.
* `ConnectionsProofs`. `Created`: a channel is being created exactly while someone
  waits for it. The property has one direction of it for callers and the other for
  the authentication; a step needs both. `Uses`: a count is at most the number of users, counted over
  the maps of all instances; the two keys never share a channel, and a channel is
  used under its own key only, so that what `closeConnections` counts of one key
  is at least what it takes from the users of that key's channel. `Exact` says
  that, while no creation was shared, the count is the number of users and every
  user is on the present channel of its key; from it a release closes a channel
  only when nobody else is on it. The counting lemmas (`RegisterOthers`,
  `RegisterOne`, `ClosingCounts`) come first: a client that replaces another moves
  one user from the maps to `lost`, and the sum of the two stays.
* `CeremonyProofs`. `Files`: every proposal that the file or a command has was
  signed by the signers it names, each another participant, and one that is
  aggregated has `Threshold` of them. It needs `Control` (what a command holds at
  each of its steps), because a command writes back what it read long before.
  `Alone` says that without an overlap one command runs and holds what the file
  has; with it `Recorded` (of one proposal there is at most one payment beside
  the unrecorded ones, and it is in the file, is about to be, or its proposal
  has been replaced for good) and `Spent` (the same of a nonce) are inductive.
  `Keyed` adds what a proposal says of the key while that stays: a signature that
  is there is the whole secret's.
  Why it is comes from arithmetic modulo the prime `P`, in the order of the
  sections. `Euclid`: a product of scalars that are not 0 is not 0 (the least
  counterexample leaves a smaller one as remainder of `P`). Sums and products over
  sets are folds in a commutative monoid, which may take any element out first
  (`FoldRemove`) and rename them (`FoldOnto`). So multiplication permutes the units,
  which is `Fermat`, and `invertScalar` inverts (`InverseIs`). `Interpolation`: what
  the powers with exponent `k` of the participants' indexes weigh, each with its
  `lagrangeCoefficientAtZero`, is 1 for `k = 0` and 0 for any other `k` below the
  number of participants. Its induction takes a participant `y` away
  (`WeightedWithout`: values that vanish at `y` weigh `-y` times what they do
  without it): a power is `x - y` times the one before, and `y` times it, and for
  `k = 0` the difference of two participants serves. A share is a
  polynomial's value, so the shares weigh up to the first coefficient, one term
  after the other (`ValuesInterpolate`), and to the normalized key when the sign of
  both is changed (`SharesInterpolate`).
* `TokenOutputsProofs`. The lemmas about the queue of answers come first: an
  operation joins it at the end with its answer and leaves it at the front.
  `OneTransactionPerOutput` needs four parts: `Times` (how long ago each answer was
  given), `Answers` (an output an answer wrongly calls available has a lock younger
  than that answer is late, and no later answer unlocks it by mistake), `Offers`
  (the same of what a buyer selects) and `Held` (what was taken is locked, and is
  its taker's own). The ages of a lock and of an answer are compared, never
  bounded alone; that is where two patiences come from. `Announced`: every answer
  behind the flush that told of a transaction knows of it, as far as it asks.
* `EventStreamProofs`. `Debts`: what is owed is owed by the claim under way; it
  needs `faults = tries`, which is what `onError` gives: an attempt that fails
  without a fault of its own cannot be. `Found`, for a transfer that is `Due`
  (claimable and not in `missed`): before a page is fetched it is at the offset or
  after it (`DueAhead`); while the page is claimed it is among those to claim, or
  the page is full and either something left the list, so that the next page is the
  first, or it comes after the page (`DueOnPage`); after the pass there is none;
  while the stream is open an event in the inbox tells of it. The place of a
  transfer is a rank among those pending, which creating others and making them
  claimable do not change (`BeyondKept`).

* `SelectionProofs`. An induction over a set of leaves is a least counterexample
  (`FiniteMin`, from the well-founded order of the subsets of a finite set; `LeastNat`
  for numbers), and what a fold returns is read off the one recursive function
  it stands for (`RecursionExists`, `RecursionUnique`): so `SumOf` is a sum
  (`SumUnion`), and `Walk` decides about each leaf by what it took of the leaves
  before it. The invariant `LInv`: the batch of each target that was served is greedy in
  what the batches before it left, and `total` is what the batches are
  worth. `SelectionsAreExact`: a greedy batch is worth at most its target, so
  when the totals agree each is worth its target. `SelectionIsLoop`, that *every* selection is
  one of the loop's, needs an order of the leaves: by value, and among equals
  those of earlier batches first. `SwapsAreNeeded`: while a
  choice of leaves pays every target, the greedy batch of the least target pays it and
  can be traded for the batch chosen for it. Of leaves worth powers of two, smaller ones that are worth at
  least a larger one contain some that are worth exactly it (`Fill`), so the trade leaves the other
  targets exact batches (`TradeIsExact`).
  About lists: sorting is a permutation (`AscendingIsOrder`: the rank of an element is
  its place), and what an algorithm returns is described by the places it picks
  (`Picks`, each once, so nothing is counted too often). After `k` exchanges
  `selectTokenOutputs` holds a window of the outputs written as the smallest `limit` and then the
  others from the largest (`ChosenAfter`); when no window pays, the one that holds the
  `limit` largest does not either (`TopIs`), and nothing else could. For `requestLeavesSwap` the
  invariant of the loop over the targets is `Assigned`: no batch was given more than it is
  worth, and what the batches were given, value by value, is what was taken from the list of targets.
  About plans: `greedyLeaves` recurs over amounts, so that it computes what its equation says
  for every amount is itself a least counterexample (`GreedilyExists`,
  `GreedilyUnique`, `GreedyUnfolds`). For exits, what was swapped and the batch are at most
  the leaves so far (`ExitSpends`), and until a batch is cut nothing was swapped. For transfers,
  `SurplusIs` counts what is to be given and received, and `PairKeeps` is the
  invariant of the pairing: both sides are worth the same in all (`Balanced`), what was
  swapped and what is left to give is no more than there was (`WithinGive`), and
  exactly that while no batch is too long (`Accounted`). The loop ends only when both lists
  are used up: a side that is ahead in worth while the other has nothing left would break
  the balance.

Only model-checked: the liveness properties (`OperationsEnd`,
`EverythingIsClaimed`, `LoopGoesOn`, `SilentStreamIsLeft`: fairness and `ENABLED` are
out of the prover's reach); and `NoDoubleSelection` and `InFlightWasAccepted` beyond the
premise of their theorems (`LM_swap` checks the second with lost replies, a refresh
and another instance). No module declares a RECURSIVE operator.

## Not modelled

* Generated protocol code (`proto/`, 44,000 lines and more),
  the native and WebAssembly bindings, encodings, logging and configuration: they
  keep no state a property could be about, and are functions over bytes.
* Lightning, cooperative exit and static deposits, beyond what they do to leaves:
  each is one sequence of calls with no state in the wallet between them.
* Unilateral exit: it builds packages of transactions from what a wallet has.
* The read-only client: stateless calls.
* The GraphQL client of the SSP keeps a session token and the promise of the
  authentication under way. Two things the code does there, read and not checked:
  `executeRawQuery` answers a refusal (`graphql/client.ts:213`) by `authenticate()`
  also for the two queries `authenticate()` itself makes; it is then given the
  promise it is part of (`:684`), which never settles, nor does any query after
  it. And a second try of a query that fails for whatever reason is reported as a
  failed authentication (`:218`). In `LeafManager` the SSP answers or fails: the
  first of these is outside its fairness.
* Adaptor signatures, ECIES, ChillDKG: cryptography; the vendored ChillDKG keeps
  no state across runs but files.
* The swap of a request of several batches one after the other. `SwapBatches` has
  how it is split, `LeafManager` what one batch does; what goes wrong between them
  is described above.

## Plan

1. A premise weaker than `Undisturbed`: transfers to oneself, and replies that are lost.
2. The swap of several batches, as operations of `LeafManager`.
3. The counter transfers that a reconnect claims beside a swap: `EventStream`
   composed with `LeafManager`.
4. The session of the SSP client: sharing of one authentication, its attempts, and
   the refusal that makes it wait for itself.
