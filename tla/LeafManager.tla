----------------------------- MODULE LeafManager -----------------------------
(***************************************************************************)
(* LeafManager of the Spark wallet SDK: the cache of a wallet's leaves and *)
(* the asynchronous operations that share it.  JavaScript runs one callback *)
(* at a time, so an operation is a sequence of atomic steps, one from each *)
(* await to the next; between two steps of one operation any step of       *)
(* another may run.                                                        *)
(*                                                                         *)
(*   Sender     selectLeavesAndExecute, with the executor of one caller    *)
(*   Sweeper    executeWithAllLeaves (a withdrawal of everything)          *)
(*   Optimizer  the optimizeLeaves generator and its consumer              *)
(*   Syncer     sync()                                                     *)
(*   Refresher  getLeaves, addLeaves, evictStaleAvailable (getBalance)     *)
(*   Claimer    claimTransfer, registerClaimedLeaves                       *)
(*   Depositor  handleDepositEvent, the events of one deposit in order     *)
(*                                                                         *)
(* The signing operators and the SSP (so, xfer) are modelled from how the  *)
(* code uses them: a transfer is accepted only when all its leaves are     *)
(* free, and later its key tweak is applied or it is returned.             *)
(***************************************************************************)
EXTENDS LeafCache, Sequences

CONSTANTS
  Sender, Sweeper, Optimizer, Syncer, Refresher, Claimer, Depositor,  \* operations
  Executor,    \* what each Sender's executor does, see Executors
  Targets,     \* the target amounts of each Sender
  Incoming,    \* transfers to this wallet, pending when it starts
  Deposits,    \* deposits not yet confirmed when it starts
  InLeaves,    \* the leaves of both
  ClaimOf,     \* the transfer each Claimer claims
  DepositOf,   \* the deposit whose events each Depositor handles
  External,    \* transfers another instance of the wallet may send
  Owned,       \* the leaves this wallet owns at the start
  StartsSynced, \* has the wallet synced when it starts?
  MaxCalls,    \* bound: calls one operation makes to the operators
  MaxBatches,  \* bound: swaps planned by one optimization
  Env,         \* what else may happen, see EnvMoves
  AtomicFetch  \* do the queries of a sync see one state of the operators?

Callers == Sender \cup Sweeper \cup Optimizer
Op == Callers \cup Syncer \cup Refresher \cup Claimer \cup Depositor

(***************************************************************************)
(* Executors: "transfer" makes one call for all its leaves (transferV2,    *)
(* payLightning, coopExit); "invoice" one call per target, all at once     *)
(* (transferWithInvoice); "self" sends to this wallet and claims;          *)
(* "quote" calls no operator and releases (getWithdrawalFeeQuote).         *)
(***************************************************************************)
Executors == {"transfer", "invoice", "self", "quote"}

EnvMoves == {"return",       \* a transfer expires or is returned
             "loseReply",    \* a call fails though it may have been applied
             "loseEvent",    \* the event stream misses an event
             "partial",      \* leaves are dropped by a query or a renewal
             "renewThrows",  \* the query of checkRenewLeaves fails
             "syncFails",    \* a query of sync() fails
             "sspFails",     \* the SSP's part of a swap fails
             "lateThrow",    \* an executor fails after the operator accepted
             "timeout"}      \* a wait for the optimizer gives up

Disjoint(sets) ==
  \A i, j \in DOMAIN sets : i # j => sets[i] \cap sets[j] = {}

ASSUME LeafManagerAssumption ==
  /\ MaxCalls \in Nat /\ MaxBatches \in Nat
  /\ Xfer = (Callers \X (1..MaxCalls)) \cup Incoming \cup Deposits \cup External
  /\ Incoming \cap Deposits = {}
  /\ \A x \in Incoming \cup Deposits \cup External : x \notin Callers \X (1..MaxCalls)
  /\ Disjoint(<<Sender, Sweeper, Optimizer, Syncer, Refresher, Claimer, Depositor>>)
  /\ Executor \in [Sender -> Executors]
  /\ Targets \in [Sender -> Seq(Nat \ {0})]
  /\ InLeaves \in [Incoming \cup Deposits -> SUBSET Leaf]
  /\ \A x \in Incoming \cup Deposits : InLeaves[x] \cap Owned = {}
  /\ \A x, y \in Incoming \cup Deposits : x # y => InLeaves[x] \cap InLeaves[y] = {}
  /\ ClaimOf \in [Claimer -> Xfer]
  /\ DepositOf \in [Depositor -> Deposits]
  /\ Owned \subseteq Leaf
  /\ StartsSynced \in BOOLEAN
  /\ Env \subseteq EnvMoves
  /\ AtomicFetch \in BOOLEAN

Syncing == Syncer \cup Sender   \* a Sender syncs after a stale-leaf error

VARIABLES
  cache,       \* leaves: the Map of LeafRecords
  optimizing,  \* optimizationInProgress
  lockedIds,   \* optimizationLockedLeafIds
  hasSynced,   \* hasSynced
  pc,          \* the await each operation is at
  batches,     \* the leaves an operation captured, by target or by swap
  step,        \* the swap an Optimizer is at
  retried,     \* Senders past their stale-leaf retry
  unread,      \* queries a sync or a refresh still waits for
  snap,        \* the answers it has
  so,          \* the operators' state of each leaf
  moved,       \* of each sync under way, the leaves that moved there since it began
  xfer         \* the operators' transfers, and the calls about them

flags == <<optimizing, lockedIds, hasSynced>>
fetching == <<unread, snap>>
soState == <<so, moved>>
operators == <<soState, xfer>>
vars == <<cache, flags, pc, batches, step, retried, fetching, operators>>

PC == {"idle", "waiting", "woken", "check", "select", "swap", "swapping", "ssp", "landed",
       "renew", "quote", "exec", "register", "resync", "fetch", "fetched", "recheck", "added",
       "plan", "next", "claiming", "creating", "verify", "verified", "done", "failed", "stranded"}
Over == {"done", "failed", "stranded"}

LeafState == {"absent", "creating", "avail", "held", "incoming", "gone"}
Transfer == [kind : {"none", "swap", "send", "self", "other", "incoming", "deposit"},
             leaves : SUBSET Leaf, new : SUBSET Leaf,
             st : {"none", "initiated", "tweaked", "completed", "returned"},
             call : {"none", "sent", "accepted", "refused", "over"},
             heard : 0..2]
NewTransfer(kind, leaves, st, call) ==
  [kind |-> kind, leaves |-> leaves, new |-> {}, st |-> st, call |-> call, heard |-> 0]
NoTransfer == NewTransfer("none", {}, "none", "none")

\* The answers a sync waits for (a refresh waits for the first only): leaves, or
\* pairs of a leaf and the transfer that carries it.
Query == {"leaves", "primary", "counter", "outgoing", "incoming"}
Snapshot == [Query -> SUBSET (Leaf \cup (Leaf \X Xfer))]
NoSnapshot == [q \in Query |-> {}]

\* A wallet that has just synced (it knows the leaves it owns and what is on
\* its way in), or one that has not yet.
Init ==
  /\ hasSynced = StartsSynced
  /\ cache = IF StartsSynced
             THEN Synced(EmptyCache, Owned, {}, {}, UNION {InLeaves[x] \X {x} : x \in Incoming})
             ELSE EmptyCache
  /\ optimizing = FALSE
  /\ lockedIds = {}
  /\ pc = [p \in Op |-> "idle"]
  /\ batches = [p \in Callers |-> <<>>]
  /\ step = [p \in Optimizer |-> 0]
  /\ retried = {}
  /\ unread = [p \in Op |-> {}]
  /\ snap = [p \in Op |-> NoSnapshot]
  /\ so = [l \in Leaf |-> IF l \in Owned THEN "avail"
                          ELSE IF \E x \in Incoming : l \in InLeaves[x] THEN "incoming"
                          ELSE IF \E x \in Deposits : l \in InLeaves[x] THEN "creating"
                          ELSE "absent"]
  /\ moved = [p \in Syncing |-> {}]
  /\ xfer = [x \in Xfer |->
                IF x \in Incoming THEN NewTransfer("incoming", InLeaves[x], "tweaked", "none")
                ELSE IF x \in Deposits THEN NewTransfer("deposit", InLeaves[x], "initiated", "none")
                ELSE NoTransfer]
-----------------------------------------------------------------------------
(***************************************************************************)
(* Shared vocabulary of the actions.                                       *)
(***************************************************************************)
At(p, here) == pc[p] = here
Goto(p, there) == pc' = [pc EXCEPT ![p] = there]
Holds(p) == Flat(batches[p])
Fetching(p) == pc[p] \in {"fetch", "fetched"}

\* The operators change their state of some leaves, which moves these for every
\* sync under way (moved is a history variable: no step depends on it).
MovedTo(new) ==
  moved' = [p \in Syncing |-> IF Fetching(p) THEN moved[p] \cup {l \in Leaf : new[l] # so[l]}
                              ELSE moved[p]]
SoBecomes(new) == so' = new /\ MovedTo(new)

\* The operator calls of p so far, and the next ones.
Made(p) == {k \in 1..MaxCalls : xfer[<<p, k>>].kind # "none"}
LastCall(p) == <<p, Cardinality(Made(p))>>
Calls(p, kind, bs) ==
  /\ Cardinality(Made(p)) + Len(bs) <= MaxCalls
  /\ xfer' = [x \in Xfer |->
                IF \E i \in DOMAIN bs : x = <<p, Cardinality(Made(p)) + i>>
                THEN NewTransfer(kind, bs[x[2] - Cardinality(Made(p))], "none", "sent")
                ELSE xfer[x]]
CallOver(x) == xfer' = [xfer EXCEPT ![x].call = "over"]
\* Mutant of NotifyAndGoto: the waiters are not notified.
NotifyNobody(p, there) == pc' = [pc EXCEPT ![p] = there]

\* notifyOptimizationWaiters(), with the move of p itself.
NotifyAndGoto(p, there) ==
  pc' = [q \in Op |-> IF q = p THEN there ELSE IF pc[q] = "waiting" THEN "woken" ELSE pc[q]]

\* The leaves a claim of x returns, and what the claim does to the leaves of the
\* operators: one that comes after another (ALREADY_EXISTS) does nothing.
Received(x) == IF xfer[x].kind = "swap" THEN xfer[x].new ELSE xfer[x].leaves
Claimable(x) == xfer[x].st = "tweaked" /\ xfer[x].kind \in {"swap", "self", "incoming"}
SoAfterClaim(x) == [l \in Leaf |-> IF Claimable(x) /\ l \in Received(x) THEN "avail" ELSE so[l]]

\* checkRenewLeaves and getLeaves may drop leaves one by one.
Kept(S) == IF "partial" \in Env THEN SUBSET S ELSE {S}

Wanted(p) == TargetSum(Targets[p])
OptimizationLockedBalance == SumOf({l \in lockedIds : cache[l].status \in OWNED_STATUSES})
-----------------------------------------------------------------------------
(***************************************************************************)
(* Before the selection: waitForOptimizationIfAvailabilityMayRecover (a    *)
(* Sender), waitForOptimizationIfAllLeavesMayChange (a Sweeper), then the  *)
(* balance check that holds no lock.                                       *)
(***************************************************************************)
MayRecover(p) ==
  /\ optimizing
  /\ IF p \in Sender
     THEN /\ Wanted(p) > getAvailableBalance(cache)
          /\ Wanted(p) <= getAvailableBalance(cache) + OptimizationLockedBalance
     ELSE OptimizationLockedBalance > 0

WaitOrProceed(p) ==
  /\ p \in Sender \cup Sweeper
  /\ pc[p] \in {"idle", "woken"}
  /\ Goto(p, IF MayRecover(p) THEN "waiting" ELSE IF p \in Sender THEN "check" ELSE "select")
  /\ UNCHANGED <<cache, flags, batches, step, retried, fetching, operators>>

WaitTimesOut(p) ==
  /\ "timeout" \in Env
  /\ p \in Sender \cup Sweeper
  /\ At(p, "waiting")
  /\ Goto(p, IF p \in Sender THEN "check" ELSE "select")
  /\ UNCHANGED <<cache, flags, batches, step, retried, fetching, operators>>

\* Also the check after the sync of a stale-leaf retry.
CheckBalance(p) ==
  /\ p \in Sender
  /\ pc[p] \in {"check", "recheck"}
  /\ Goto(p, IF Wanted(p) > getAvailableBalance(cache) THEN "failed" ELSE "select")
  /\ UNCHANGED <<cache, flags, batches, step, retried, fetching, operators>>
-----------------------------------------------------------------------------
\* Mutant of Capture: the leaves are taken but not locked.
CaptureUnlocked(p, bs, there) ==
  /\ batches' = [batches EXCEPT ![p] = bs]
  /\ Goto(p, there)
  /\ UNCHANGED cache

(***************************************************************************)
(* Selection, under the mutex.                                             *)
(***************************************************************************)
Capture(p, bs, there) ==
  /\ cache' = transition(cache, Flat(bs), "LOCAL_LOCKED")
  /\ batches' = [batches EXCEPT ![p] = bs]
  /\ Goto(p, there)

\* selectLeavesWithSwap, phases 1 and 2.
SelectExact(p) ==
  /\ p \in Sender /\ At(p, "select")
  /\ \E bs \in selectLeaves(Available(cache), Targets[p]) :
       Found(Targets[p], bs) /\ Capture(p, bs, "renew")
  /\ UNCHANGED <<flags, step, retried, fetching, operators>>

NoExactFit(p) ==
  \A bs \in selectLeaves(Available(cache), Targets[p]) : ~Found(Targets[p], bs)

SelectForSwap(p) ==
  /\ p \in Sender /\ At(p, "select")
  /\ NoExactFit(p)
  /\ \E sel \in determineLeavesToSwap(Available(cache), Wanted(p)) : Capture(p, <<sel>>, "swap")
  /\ UNCHANGED <<flags, step, retried, fetching, operators>>

NotEnoughLeaves(p) ==
  /\ p \in Sender /\ At(p, "select")
  /\ getAvailableBalance(cache) < Wanted(p)
  /\ Goto(p, "failed")
  /\ UNCHANGED <<cache, flags, batches, step, retried, fetching, operators>>

SweepSelect(p) ==
  /\ p \in Sweeper /\ At(p, "select")
  /\ Capture(p, <<Available(cache)>>, "renew")
  /\ UNCHANGED <<flags, step, retried, fetching, operators>>
-----------------------------------------------------------------------------
(***************************************************************************)
(* A swap (requestLeavesSwap, one batch): of a Sender without an exact fit *)
(* or of the Optimizer's current batch.                                    *)
(***************************************************************************)
SwapLeaves(p) == IF p \in Optimizer THEN batches[p][step[p]] ELSE Holds(p)

\* The way out of an operation that failed.  An Optimizer restores all of its
\* batches and lowers the flag; a Sender retries once after a stale-leaf error.
Fails(p, stale) ==
  /\ cache' = Restored(cache, Holds(p))
  /\ batches' = [batches EXCEPT ![p] = <<>>]
  /\ IF p \in Optimizer
     THEN /\ optimizing' = FALSE
          /\ lockedIds' = {}
          /\ NotifyAndGoto(p, "failed")
          /\ UNCHANGED <<hasSynced, retried>>
     ELSE /\ IF stale /\ p \in Sender /\ p \notin retried
             THEN Goto(p, "resync") /\ retried' = retried \cup {p}
             ELSE Goto(p, "failed") /\ UNCHANGED retried
          /\ UNCHANGED flags

SwapSend(p) ==
  /\ At(p, "swap")
  /\ Calls(p, "swap", <<SwapLeaves(p)>>)
  /\ cache' = SourceUpdated(cache, SwapLeaves(p), SwapSource(<<p, Cardinality(Made(p)) + 1>>))
  /\ Goto(p, "swapping")
  /\ UNCHANGED <<flags, batches, step, retried, fetching, soState>>
\* Mutant of SwapInitiated: the leaves are marked before the operators accept.
SwapInitiatedEarly(p) ==
  /\ At(p, "swapping")
  /\ cache' = transition(cache, SwapLeaves(p), "SWAP_PENDING")
  /\ CallOver(LastCall(p))
  /\ Goto(p, "ssp")
  /\ UNCHANGED <<flags, batches, step, retried, fetching, soState>>

\* onSwapInitiated
SwapInitiated(p) ==
  /\ At(p, "swapping")
  /\ xfer[LastCall(p)].call = "accepted"
  /\ cache' = transition(cache, SwapLeaves(p), "SWAP_PENDING")
  /\ CallOver(LastCall(p))
  /\ Goto(p, "ssp")
  /\ UNCHANGED <<flags, batches, step, retried, fetching, soState>>

SwapCallFails(p) ==
  /\ At(p, "swapping")
  /\ \/ xfer[LastCall(p)].call = "refused"
     \/ "loseReply" \in Env
  /\ CallOver(LastCall(p))
  /\ Fails(p, xfer[LastCall(p)].call = "refused")
  /\ UNCHANGED <<step, fetching, soState>>

\* The SSP answered; the counter transfer is claimed without claimTransferMutex.
SwapClaims(p) ==
  /\ At(p, "ssp")
  /\ xfer[LastCall(p)].st \in {"tweaked", "completed"}
  /\ SoBecomes(SoAfterClaim(LastCall(p)))
  /\ xfer' = [xfer EXCEPT ![LastCall(p)].st = "completed"]
  /\ Goto(p, "landed")
  /\ UNCHANGED <<cache, flags, batches, step, retried, fetching>>

SwapFailsAtSsp(p) ==
  /\ "sspFails" \in Env
  /\ At(p, "ssp")
  /\ Fails(p, FALSE)
  /\ UNCHANGED <<step, fetching, operators>>

\* The cache update that ends a swap.
SwapApplied(p) ==
  Registered(transition(cache, SwapLeaves(p), "SPENT"), xfer[LastCall(p)].new, NoSource)

\* selectLeavesWithSwap, phase 4.
SwapSelected(p) ==
  /\ p \in Sender /\ At(p, "landed")
  /\ \E bs \in selectLeaves(Available(SwapApplied(p)), Targets[p]) :
       IF Found(Targets[p], bs)
       THEN /\ cache' = transition(SwapApplied(p), Flat(bs), "LOCAL_LOCKED")
            /\ batches' = [batches EXCEPT ![p] = bs]
            /\ Goto(p, "renew")
       ELSE /\ cache' = SwapApplied(p)
            /\ batches' = [batches EXCEPT ![p] = <<>>]
            /\ Goto(p, "failed")
  /\ UNCHANGED <<flags, step, retried, fetching, operators>>

SwapOptimized(p) ==
  /\ p \in Optimizer /\ At(p, "landed")
  /\ cache' = SwapApplied(p)
  /\ lockedIds' = lockedIds \ SwapLeaves(p)
  /\ NotifyAndGoto(p, "next")
  /\ UNCHANGED <<optimizing, hasSynced, batches, step, retried, fetching, operators>>
-----------------------------------------------------------------------------
(***************************************************************************)
(* optimizeLeaves.  What optimize() plans is any list of disjoint batches  *)
(* of available leaves.                                                    *)
(***************************************************************************)
OptimizeStart(p) ==
  /\ p \in Optimizer /\ At(p, "idle")
  /\ Goto(p, IF optimizing THEN "done" ELSE "plan")
  /\ UNCHANGED <<cache, flags, batches, step, retried, fetching, operators>>

Plans(avail) ==
  UNION {{plan \in [1..n -> (SUBSET avail) \ {{}}] :
            \A i, j \in 1..n : i # j => plan[i] \cap plan[j] = {}} : n \in 1..MaxBatches}
\* Mutant of OptimizePlan: the flag is not tested again.
OptimizePlanUntested(p) ==
  /\ At(p, "plan")
  /\ optimizing' = TRUE
  /\ \E plan \in Plans(Available(cache)) :
       /\ Capture(p, plan, "next")
       /\ lockedIds' = lockedIds \cup Flat(plan)
  /\ UNCHANGED <<hasSynced, step, retried, fetching, operators>>

\* The flag is tested again under the mutex.
OptimizePlan(p) ==
  /\ At(p, "plan")
  /\ ~optimizing
  /\ optimizing' = TRUE
  /\ \E plan \in Plans(Available(cache)) :
       /\ Capture(p, plan, "next")
       /\ lockedIds' = lockedIds \cup Flat(plan)
  /\ UNCHANGED <<hasSynced, step, retried, fetching, operators>>

\* Another optimization runs, or there is nothing to swap (the flag goes up
\* and down in one step).
OptimizeSkip(p) ==
  /\ At(p, "plan")
  /\ IF optimizing THEN Goto(p, "done") ELSE NotifyAndGoto(p, "done")
  /\ UNCHANGED <<cache, flags, batches, step, retried, fetching, operators>>

OptimizeNext(p) ==
  /\ At(p, "next")
  /\ step[p] < Len(batches[p])
  /\ step' = [step EXCEPT ![p] = @ + 1]
  /\ Goto(p, "swap")
  /\ UNCHANGED <<cache, flags, batches, retried, fetching, operators>>
\* Mutant of OptimizeEnd: the batches that were not swapped stay locked.
OptimizeEndWithoutRestore(p) ==
  /\ At(p, "next")
  /\ batches' = [batches EXCEPT ![p] = <<>>]
  /\ optimizing' = FALSE
  /\ lockedIds' = {}
  /\ NotifyAndGoto(p, "done")
  /\ UNCHANGED <<cache, hasSynced, step, retried, fetching, operators>>

\* The batches are done, or the consumer aborted or left its loop.
OptimizeEnd(p) ==
  /\ At(p, "next")
  /\ cache' = Restored(cache, Holds(p))
  /\ batches' = [batches EXCEPT ![p] = <<>>]
  /\ optimizing' = FALSE
  /\ lockedIds' = {}
  /\ NotifyAndGoto(p, "done")
  /\ UNCHANGED <<hasSynced, step, retried, fetching, operators>>
-----------------------------------------------------------------------------
(***************************************************************************)
(* Renewal and the executor.                                               *)
(***************************************************************************)
\* A Sender hands dropped leaves to its executor all the same; a Sweeper
\* releases them.  The executor's calls start in the same step.
ExecuteSender(p) ==
  /\ p \in Sender /\ At(p, "renew")
  /\ \/ Executor[p] = "quote" /\ UNCHANGED xfer
     \/ Executor[p] = "self" /\ Calls(p, "self", <<Holds(p)>>)
     \/ Executor[p] = "transfer" /\ Calls(p, "send", <<Holds(p)>>)
     \/ Executor[p] = "invoice" /\ Calls(p, "send", batches[p])
  /\ Goto(p, IF Executor[p] = "quote" THEN "quote" ELSE "exec")
  /\ UNCHANGED <<cache, flags, batches, step, retried, fetching, soState>>

\* Mutant of ExecuteSweeper: the leaves a renewal dropped stay locked.
SweepForgetsDropped(p) ==
  /\ p \in Sweeper /\ At(p, "renew")
  /\ \E kept \in Kept(Holds(p)) :
       /\ batches' = [batches EXCEPT ![p] = <<kept>>]
       /\ Calls(p, "send", <<kept>>)
  /\ Goto(p, "exec")
  /\ UNCHANGED <<cache, flags, step, retried, fetching, soState>>

ExecuteSweeper(p) ==
  /\ p \in Sweeper /\ At(p, "renew")
  /\ \E kept \in Kept(Holds(p)) :
       /\ cache' = Restored(cache, Holds(p) \ kept)
       /\ batches' = [batches EXCEPT ![p] = <<kept>>]
       /\ Calls(p, "send", <<kept>>)
  /\ Goto(p, "exec")
  /\ UNCHANGED <<flags, step, retried, fetching, soState>>

\* checkRenewLeaves throws before the try block: nothing restores the leaves.
RenewalThrows(p) ==
  /\ "renewThrows" \in Env
  /\ At(p, "renew")
  /\ Goto(p, "stranded")
  /\ UNCHANGED <<cache, flags, batches, step, retried, fetching, operators>>

CallsOf(p) == {x \in {p} \X (1..MaxCalls) : xfer[x].call \in {"sent", "accepted", "refused"}}

\* One call was accepted: handleTransferEvent(transfer) for a send, with the
\* status of the reply (the transfer may have moved on since).
ExecutorSent(p) ==
  /\ At(p, "exec")
  /\ \E x \in CallsOf(p) :
       /\ xfer[x].call = "accepted" /\ xfer[x].kind = "send"
       /\ \E status \in {"initiated"} \cup ({"tweaked"} \cap {xfer[x].st}) :
            cache' = TransferEvent(cache, xfer[x].leaves, x, FALSE, status)
       /\ CallOver(x)
  /\ UNCHANGED <<flags, pc, batches, step, retried, fetching, soState>>

\* One call failed.  transferWithInvoice releases that job's leaves and goes
\* on; the others throw.
ExecutorCallFails(p) ==
  /\ At(p, "exec")
  /\ \E x \in CallsOf(p) :
       /\ xfer[x].call = "refused" \/ "loseReply" \in Env
       /\ CallOver(x)
       /\ IF p \in Sender /\ Executor[p] = "invoice"
          THEN /\ cache' = Restored(cache, xfer[x].leaves)
               /\ UNCHANGED <<flags, pc, batches, retried>>
          ELSE Fails(p, xfer[x].call = "refused")
  /\ UNCHANGED <<step, fetching, soState>>

\* A transfer to this wallet is claimed inside the executor.
ExecutorClaims(p) ==
  /\ At(p, "exec")
  /\ \E x \in CallsOf(p) :
       /\ xfer[x].call = "accepted" /\ xfer[x].kind = "self"
       /\ xfer[x].st \in {"tweaked", "completed"}
       /\ xfer' = [xfer EXCEPT ![x].call = "over", ![x].st = "completed"]
       /\ SoBecomes(SoAfterClaim(x))
  /\ Goto(p, "register")
  /\ UNCHANGED <<cache, flags, batches, step, retried, fetching>>

QuoteReleases(p) ==
  /\ At(p, "quote")
  /\ cache' = Restored(cache, Holds(p))
  /\ Goto(p, "exec")
  /\ UNCHANGED <<flags, batches, step, retried, fetching, operators>>

\* An executor throws after its call was accepted.
ExecutorThrows(p) ==
  /\ "lateThrow" \in Env
  /\ pc[p] \in {"exec", "quote"}
  /\ \A x \in CallsOf(p) : xfer[x].call = "accepted" /\ xfer[x].kind = "self"
  /\ ~ (p \in Sender /\ Executor[p] = "invoice")
  /\ xfer' = [x \in Xfer |-> IF x \in CallsOf(p) THEN [xfer[x] EXCEPT !.call = "over"] ELSE xfer[x]]
  /\ Fails(p, FALSE)
  /\ UNCHANGED <<step, fetching, soState>>

ExecutorReturns(p) ==
  /\ At(p, "exec")
  /\ CallsOf(p) = {}
  /\ cache' = MarkedOutgoing(cache, Holds(p))
  /\ batches' = [batches EXCEPT ![p] = <<>>]
  /\ Goto(p, "done")
  /\ UNCHANGED <<flags, step, retried, fetching, operators>>
-----------------------------------------------------------------------------
(***************************************************************************)
(* sync() (a Syncer, or a Sender after a stale-leaf error), getBalance and *)
(* claims.  Answers of the operators are as old as the step that read them. *)
(***************************************************************************)
Asked == [primary  |-> {<<"swap", "initiated">>},
          counter  |-> {<<"swap", "tweaked">>},
          outgoing |-> {"send", "self", "other"} \X {"initiated"},
          incoming |-> {"self", "incoming"} \X {"tweaked"}]

Answer(q) ==
  IF q = "leaves"
  THEN {l \in Leaf : so[l] = "avail"}
  ELSE {pair \in Leaf \X Xfer :
          LET x == xfer[pair[2]]
          IN /\ <<x.kind, x.st>> \in Asked[q]
             /\ pair[1] \in IF q = "counter" THEN x.new ELSE x.leaves}

FetchStart(p) ==
  /\ \/ p \in Syncer \cup Refresher /\ At(p, "idle")
     \/ p \in Sender /\ At(p, "resync")
  /\ unread' = [unread EXCEPT ![p] = IF p \in Refresher THEN {"leaves"} ELSE Query]
  /\ Goto(p, "fetch")
  /\ UNCHANGED <<cache, flags, batches, step, retried, snap, operators>>

FetchAnswer(p) ==
  /\ At(p, "fetch")
  /\ \E Q \in IF AtomicFetch THEN {unread[p]} ELSE {{q} : q \in unread[p]} :
       /\ Q # {}
       /\ \E leaves \in Kept(Answer("leaves")) :
            /\ snap' = [snap EXCEPT ![p] =
                          [q \in Query |-> IF q \notin Q THEN snap[p][q]
                                           ELSE IF q = "leaves" THEN leaves ELSE Answer(q)]]
            /\ moved' = [r \in Syncing |-> IF r = p /\ "leaves" \in Q
                                           THEN moved[r] \cup (Answer("leaves") \ leaves)
                                           ELSE moved[r]]
       /\ unread' = [unread EXCEPT ![p] = @ \ Q]
       /\ Goto(p, IF unread[p] = Q THEN "fetched" ELSE "fetch")
  /\ UNCHANGED <<cache, flags, batches, step, retried, so, xfer>>

\* A sync that ended has nothing under way.
Forgotten(p) == moved' = [r \in Syncing |-> IF r = p THEN {} ELSE moved[r]]

FetchFails(p) ==
  /\ "syncFails" \in Env
  /\ At(p, "fetch")
  /\ unread' = [unread EXCEPT ![p] = {}]
  /\ snap' = [snap EXCEPT ![p] = NoSnapshot]
  /\ Goto(p, "failed")
  /\ Forgotten(p)
  /\ UNCHANGED <<cache, flags, batches, step, retried, so, xfer>>

SyncedWith(c, s) == Synced(c, s["leaves"], s["primary"] \cup s["counter"], s["outgoing"], s["incoming"])

SyncApply(p) ==
  /\ p \in Syncing /\ At(p, "fetched")
  /\ cache' = SyncedWith(cache, snap[p])
  /\ hasSynced' = TRUE
  /\ snap' = [snap EXCEPT ![p] = NoSnapshot]
  /\ Goto(p, IF p \in Sender THEN "recheck" ELSE "done")
  /\ Forgotten(p)
  /\ UNCHANGED <<optimizing, lockedIds, batches, step, retried, unread, so, xfer>>

RefreshAdd(p) ==
  /\ p \in Refresher /\ At(p, "fetched")
  /\ cache' = LeavesAdded(cache, snap[p]["leaves"])
  /\ Goto(p, "added")
  /\ UNCHANGED <<flags, batches, step, retried, fetching, operators>>

RefreshEvict(p) ==
  /\ p \in Refresher /\ At(p, "added")
  /\ cache' = StaleEvicted(cache, snap[p]["leaves"])
  /\ snap' = [snap EXCEPT ![p] = NoSnapshot]
  /\ Goto(p, "done")
  /\ UNCHANGED <<flags, batches, step, retried, unread, operators>>

\* The stream event of an incoming transfer, or a pass of claimTransfers (which
\* adds nothing to the cache before the claim).
ClaimStart(p) ==
  /\ p \in Claimer /\ At(p, "idle")
  /\ Claimable(ClaimOf[p])
  /\ \/ xfer[ClaimOf[p]].kind = "incoming"
        /\ cache' = IncomingAdded(cache, xfer[ClaimOf[p]].leaves, ClaimOf[p])
     \/ UNCHANGED cache
  /\ Goto(p, "claiming")
  /\ UNCHANGED <<flags, batches, step, retried, fetching, operators>>

\* claimTransfer: a transfer someone else claimed meanwhile (ALREADY_EXISTS,
\* then COMPLETED) yields its leaves all the same.
Claim(p) ==
  /\ At(p, "claiming")
  /\ xfer[ClaimOf[p]].st \in {"tweaked", "completed"}
  /\ xfer' = [xfer EXCEPT ![ClaimOf[p]].st = "completed"]
  /\ SoBecomes(SoAfterClaim(ClaimOf[p]))
  /\ Goto(p, "register")
  /\ UNCHANGED <<cache, flags, batches, step, retried, fetching>>

RegisterClaimed(p) ==
  /\ At(p, "register")
  /\ LET x == IF p \in Claimer THEN ClaimOf[p] ELSE LastCall(p)
     IN \E kept \in Kept(Received(x)) : cache' = Registered(cache, kept, TransferSource(x))
  /\ Goto(p, IF p \in Claimer THEN "done" ELSE "exec")
  /\ UNCHANGED <<flags, batches, step, retried, fetching, operators>>

\* The renewal of claimed leaves throws: they are claimed but not registered.
RegisterThrows(p) ==
  /\ "renewThrows" \in Env
  /\ At(p, "register")
  /\ IF p \in Claimer
     THEN Goto(p, "failed") /\ UNCHANGED <<cache, flags, batches, retried>>
     ELSE Fails(p, FALSE)
  /\ UNCHANGED <<step, fetching, operators>>
-----------------------------------------------------------------------------
(***************************************************************************)
(* handleDepositEvent.  The stream tells of a deposit when it is created   *)
(* and when it is confirmed; a leaf the wallet does not know is looked up  *)
(* (verifyAndAddLeaf) once it has synced.                                  *)
(***************************************************************************)
DepositCreating(p) ==
  /\ p \in Depositor /\ At(p, "idle")
  /\ cache' = DepositSeen(cache, xfer[DepositOf[p]].leaves)
  /\ Goto(p, "creating")
  /\ UNCHANGED <<flags, batches, step, retried, fetching, operators>>

DepositAvailable(p) ==
  /\ At(p, "creating")
  /\ xfer[DepositOf[p]].st = "tweaked"
  /\ \E l \in xfer[DepositOf[p]].leaves :
       \/ /\ cache[l].status = "INCOMING"
          /\ cache' = transition(cache, {l}, "AVAILABLE")
          /\ Goto(p, "done")
       \/ /\ cache[l].status = "NONE" /\ ~hasSynced
          /\ cache' = DepositAdded(cache, {l})
          /\ Goto(p, "done")
       \/ /\ cache[l].status = "NONE" /\ hasSynced
          /\ Goto(p, "verify")
          /\ UNCHANGED cache
       \/ /\ cache[l].status \notin {"INCOMING", "NONE"}
          /\ Goto(p, "done")
          /\ UNCHANGED cache
  /\ UNCHANGED <<flags, batches, step, retried, fetching, operators>>

\* The node query names the leaf, not an owner: a leaf the wallet has sent away
\* may be AVAILABLE again, to somebody else.  A failed query ends it too.
DepositVerify(p) ==
  /\ At(p, "verify")
  /\ \/ /\ \A l \in xfer[DepositOf[p]].leaves : so[l] \in {"avail", "gone"}
        /\ Goto(p, "verified")
     \/ Goto(p, "done")
  /\ UNCHANGED <<cache, flags, batches, step, retried, fetching, operators>>

DepositAdd(p) ==
  /\ At(p, "verified")
  /\ cache' = DepositAdded(cache, xfer[DepositOf[p]].leaves)
  /\ Goto(p, "done")
  /\ UNCHANGED <<flags, batches, step, retried, fetching, operators>>
-----------------------------------------------------------------------------
(***************************************************************************)
(* The event stream: a transfer is heard of when it starts and when it     *)
(* ends, in that order; an event may be missed.  handleStreamEvent passes  *)
(* those this wallet is the sender of to handleTransferEvent.              *)
(***************************************************************************)
HasNews(x) ==
  /\ xfer[x].kind \notin {"none", "incoming", "deposit"}
  /\ \/ xfer[x].heard = 0 /\ xfer[x].st # "none"
     \/ xfer[x].heard = 1 /\ xfer[x].st \in {"tweaked", "completed", "returned"}

Hear(x) ==
  /\ HasNews(x)
  /\ cache' = TransferEvent(cache, xfer[x].leaves, x, xfer[x].kind = "swap",
                            IF xfer[x].heard = 0 THEN "initiated" ELSE xfer[x].st)
  /\ xfer' = [xfer EXCEPT ![x].heard = @ + 1]
  /\ UNCHANGED <<flags, pc, batches, step, retried, fetching, soState>>

Miss(x) ==
  /\ "loseEvent" \in Env
  /\ HasNews(x)
  /\ xfer' = [xfer EXCEPT ![x].heard = @ + 1]
  /\ UNCHANGED <<cache, flags, pc, batches, step, retried, fetching, soState>>
-----------------------------------------------------------------------------
(***************************************************************************)
(* The signing operators, the SSP, and another instance of the wallet.     *)
(***************************************************************************)
SoAnswers(x) ==
  /\ xfer[x].call = "sent"
  /\ IF \A l \in xfer[x].leaves : so[l] = "avail"
     THEN /\ xfer' = [xfer EXCEPT ![x].call = "accepted", ![x].st = "initiated"]
          /\ SoBecomes([l \in Leaf |-> IF l \in xfer[x].leaves THEN "held" ELSE so[l]])
     ELSE /\ xfer' = [xfer EXCEPT ![x].call = "refused"]
          /\ UNCHANGED soState
  /\ UNCHANGED <<cache, flags, pc, batches, step, retried, fetching>>

\* The sender's key tweak is applied: the leaves have a new owner.
SoTweaks(x) ==
  /\ xfer[x].st = "initiated"
  /\ xfer[x].kind \notin {"swap", "deposit"}
  /\ xfer' = [xfer EXCEPT ![x].st = "tweaked"]
  /\ SoBecomes([l \in Leaf |-> IF l \notin xfer[x].leaves THEN so[l]
                               ELSE IF xfer[x].kind = "self" THEN "incoming" ELSE "gone"])
  /\ UNCHANGED <<cache, flags, pc, batches, step, retried, fetching>>

\* The SSP takes the leaves of a swap; the counter transfer that brings leaves
\* of the same value appears in the same step.
SspSwaps(x) ==
  /\ xfer[x].kind = "swap" /\ xfer[x].st = "initiated"
  /\ At(x[1], "ssp") /\ LastCall(x[1]) = x
  /\ \E new \in SUBSET {l \in Leaf : so[l] = "absent"} :
       /\ SumOf(new) = SumOf(xfer[x].leaves)
       /\ xfer' = [xfer EXCEPT ![x].st = "tweaked", ![x].new = new]
       /\ SoBecomes([l \in Leaf |-> IF l \in new THEN "incoming"
                                    ELSE IF l \in xfer[x].leaves THEN "gone" ELSE so[l]])
  /\ UNCHANGED <<cache, flags, pc, batches, step, retried, fetching>>

SoReturns(x) ==
  /\ "return" \in Env
  /\ xfer[x].st = "initiated" /\ xfer[x].kind # "deposit"
  /\ xfer' = [xfer EXCEPT ![x].st = "returned"]
  /\ SoBecomes([l \in Leaf |-> IF l \in xfer[x].leaves THEN "avail" ELSE so[l]])
  /\ UNCHANGED <<cache, flags, pc, batches, step, retried, fetching>>

DepositConfirmed(x) ==
  /\ xfer[x].st = "initiated" /\ xfer[x].kind = "deposit"
  /\ xfer' = [xfer EXCEPT ![x].st = "tweaked"]
  /\ SoBecomes([l \in Leaf |-> IF l \in xfer[x].leaves THEN "avail" ELSE so[l]])
  /\ UNCHANGED <<cache, flags, pc, batches, step, retried, fetching>>

OtherInstanceSends(x) ==
  /\ x \in External /\ xfer[x].kind = "none"
  /\ \E S \in (SUBSET {l \in Leaf : so[l] = "avail"}) \ {{}} :
       /\ xfer' = [xfer EXCEPT ![x] = NewTransfer("other", S, "initiated", "none")]
       /\ SoBecomes([l \in Leaf |-> IF l \in S THEN "held" ELSE so[l]])
  /\ UNCHANGED <<cache, flags, pc, batches, step, retried, fetching>>
-----------------------------------------------------------------------------
Select(p) == SelectExact(p) \/ SelectForSwap(p) \/ NotEnoughLeaves(p) \/ SweepSelect(p)
Swap(p) == \/ SwapSend(p) \/ SwapInitiated(p) \/ SwapCallFails(p) \/ SwapClaims(p)
           \/ SwapFailsAtSsp(p) \/ SwapSelected(p) \/ SwapOptimized(p)
Optimize(p) == OptimizeStart(p) \/ OptimizePlan(p) \/ OptimizeSkip(p) \/ OptimizeNext(p) \/ OptimizeEnd(p)
Execute(p) == \/ ExecuteSender(p) \/ ExecuteSweeper(p) \/ RenewalThrows(p) \/ ExecutorSent(p)
              \/ ExecutorCallFails(p) \/ ExecutorClaims(p) \/ QuoteReleases(p)
              \/ ExecutorThrows(p) \/ ExecutorReturns(p)
Fetch(p) == FetchStart(p) \/ FetchAnswer(p) \/ FetchFails(p) \/ SyncApply(p) \/ RefreshAdd(p) \/ RefreshEvict(p)
Claims(p) == ClaimStart(p) \/ Claim(p) \/ RegisterClaimed(p) \/ RegisterThrows(p)

HandleDeposit(p) == DepositCreating(p) \/ DepositAvailable(p) \/ DepositVerify(p) \/ DepositAdd(p)

Step(p) == \/ WaitOrProceed(p) \/ WaitTimesOut(p) \/ CheckBalance(p)
           \/ Select(p) \/ Swap(p) \/ Optimize(p) \/ Execute(p) \/ Fetch(p) \/ Claims(p)
           \/ HandleDeposit(p)
Stream(x) == Hear(x) \/ Miss(x)
Operators(x) == SoAnswers(x) \/ SoTweaks(x) \/ SspSwaps(x) \/ SoReturns(x) \/ DepositConfirmed(x)
                \/ OtherInstanceSends(x)

Next == \/ \E p \in Op : Step(p)
        \/ \E x \in Xfer : Stream(x) \/ Operators(x)

Spec == Init /\ [][Next]_vars

(***************************************************************************)
(* Every operation that can take a step eventually does (the event loop    *)
(* runs every callback), and every call is answered.                       *)
(***************************************************************************)
Fairness ==
  /\ \A p \in Op : WF_vars(Step(p))
  /\ \A x \in Xfer : WF_vars(SoAnswers(x)) /\ WF_vars(SoTweaks(x)) /\ WF_vars(SspSwaps(x))
FairSpec == Spec /\ Fairness

(***************************************************************************)
(* Every variable keeps its type.                                          *)
(***************************************************************************)
TypeOK ==
  /\ cache \in Cache
  /\ optimizing \in BOOLEAN
  /\ lockedIds \subseteq Leaf
  /\ hasSynced \in BOOLEAN
  /\ pc \in [Op -> PC]
  /\ batches \in [Callers -> Seq(SUBSET Leaf)]
  /\ step \in [Optimizer -> Nat]
  /\ retried \subseteq Sender
  /\ unread \in [Op -> SUBSET Query]
  /\ snap \in [Op -> Snapshot]
  /\ so \in [Leaf -> LeafState]
  /\ moved \in [Syncing -> SUBSET Leaf]
  /\ xfer \in [Xfer -> Transfer]

Running(p) == pc[p] \notin Over

(***************************************************************************)
(* No lock outlives its operation: a leaf that is LOCAL_LOCKED is held by  *)
(* an operation that still runs and that will release it, spend it or mark *)
(* it OUTGOING.  sync() keeps every LOCAL_LOCKED record, so nothing else   *)
(* would ever free the leaf.                                               *)
(***************************************************************************)
NoOrphanLock ==
  \A l \in Leaf : cache[l].status = "LOCAL_LOCKED" =>
    \E p \in Callers : Running(p) /\ l \in Holds(p)

(***************************************************************************)
(* leavesMutex prevents double selection: two running operations never     *)
(* hold the same leaf.                                                     *)
(***************************************************************************)
NoDoubleSelection ==
  \A p, q \in Callers : p # q => Holds(p) \cap Holds(q) = {}

(***************************************************************************)
(* The cache calls a leaf OUTGOING or SWAP_PENDING only after the signing  *)
(* operators took it into a transfer: before the call it is LOCAL_LOCKED.  *)
(***************************************************************************)
InFlightWasAccepted ==
  \A l \in Leaf : cache[l].status \in {"OUTGOING", "SWAP_PENDING"} =>
    \E x \in Xfer : /\ xfer[x].st # "none" /\ xfer[x].kind \notin {"incoming", "deposit"}
                   /\ l \in xfer[x].leaves \cup xfer[x].new

(***************************************************************************)
(* At most one optimization plans and swaps at a time, and while one does  *)
(* the flag is up; without one no leaf counts as locked by it.             *)
(***************************************************************************)
Optimizing(p) == p \in Optimizer /\ pc[p] \in {"next", "swap", "swapping", "ssp", "landed"}
OneOptimization ==
  /\ \A p, q \in Optimizer : Optimizing(p) /\ Optimizing(q) => p = q
  /\ optimizing <=> \E p \in Optimizer : Optimizing(p)
  /\ lockedIds # {} => optimizing
  /\ \A p \in Optimizer : Optimizing(p) => lockedIds \subseteq Holds(p)

(***************************************************************************)
(* No waiter is forgotten: an operation waits for the optimizer only while *)
(* one runs, so the notification that lowers the flag reaches it.          *)
(***************************************************************************)
NobodyWaitsForNothing ==
  \A p \in Op : pc[p] = "waiting" => optimizing

\* The statuses a cache may give a leaf of which it knows the operators' state.
StatusOf ==
  [avail    |-> {"AVAILABLE"},
   held     |-> {"OUTGOING", "SWAP_PENDING"},
   incoming |-> {"INCOMING", "SWAP_PENDING"},
   creating |-> {"NONE"},
   absent   |-> {"NONE"},
   gone     |-> {"NONE"}]

(***************************************************************************)
(* However far apart the queries of a sync are answered, and however late  *)
(* they are applied, the sync errs about no leaf but those that moved at   *)
(* the operators while it ran, or that getLeaves dropped (it leaves out a  *)
(* leaf whose key the operators do not confirm): every other leaf, but for *)
(* those an operation has locked, ends with the status the operators'      *)
(* state calls for, whatever the cache held of it.  So a leaf is made      *)
(* AVAILABLE wrongly, or forgotten, only through a call, claim, return or  *)
(* drop that came between the start of a sync and its end.                 *)
(***************************************************************************)
StillLeavesAreSynced ==
  [][\A p \in Syncing : SyncApply(p) =>
       \A l \in Leaf \ moved[p] :
         cache[l].status # "LOCAL_LOCKED" => cache'[l].status \in StatusOf[so[l]]]_vars

(***************************************************************************)
(* A sync whose answers are still true repairs the cache, whatever else is *)
(* under way: the leaves the wallet may spend are then exactly those the   *)
(* operators hold free for it, but for those an operation has locked (or a *)
(* failed renewal left behind).                                            *)
(***************************************************************************)
SyncRepairs ==
  [][\A p \in Syncing :
       SyncApply(p) /\ (\A q \in Query : snap[p][q] = Answer(q))
       => Available(cache') = {l \in Leaf : so[l] = "avail" /\ cache[l].status # "LOCAL_LOCKED"}]_vars

Ready == {p \in Syncing : pc[p] = "fetched"}
Landed == {p \in Sender : pc[p] = "landed"}
Lifecycle == INSTANCE LeafLifecycle
               WITH status <- [l \in Leaf |-> cache[l].status], ready <- Ready, landed <- Landed

(***************************************************************************)
(* LeafManager implements LeafLifecycle: no interleaving of its writes,    *)
(* most of which go round transition() and its table, gives a leaf a       *)
(* status that may not follow the one it had.                              *)
(***************************************************************************)
LifecycleSpec == Lifecycle!Spec

(***************************************************************************)
(* Every operation ends: no await of the code waits for ever.              *)
(***************************************************************************)
OperationsEnd ==
  \A p \in Callers : pc[p] # "idle" ~> ~Running(p)
=============================================================================
