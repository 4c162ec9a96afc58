-------------------------- MODULE LeafManagerProofs --------------------------
(***************************************************************************)
(* Theorems about LeafManager, for every value of its constants.           *)
(***************************************************************************)
EXTENDS LeafManager, FiniteSetTheorems, TLAPS

(***************************************************************************)
(* The updates of the cache.  Eases says what nearly all of them share:    *)
(* each leaf moves as its lifecycle allows, and no leaf becomes locked.    *)
(***************************************************************************)
Locked(c) == {l \in Leaf : c[l].status = "LOCAL_LOCKED"}
Follows(c, d) == \A l \in Leaf : d[l].status = c[l].status \/ Lifecycle!MayFollow(c[l].status, d[l].status)
Eases(c, d) == d \in Cache /\ Follows(c, d) /\ Locked(d) \subseteq Locked(c)

USE DEF Cache, LeafRecord, LeafStatus, Lifecycle!MayFollow, soState, SoBecomes, Syncing

\* The sources the updates write are sources.
LEMMA SourceType ==
  /\ NoSource \in Source
  /\ NoRecord \in LeafRecord
  /\ \A x \in Xfer : TransferSource(x) \in Source /\ SwapSource(x) \in Source
  /\ \A l \in Leaf : DepositSource(l) \in Source
BY DEF Source, NoSource, NoRecord, TransferSource, SwapSource, DepositSource

\* A move of the VALID_TRANSITIONS table keeps to the lifecycle of a leaf.
LEMMA MovedEases ==
  ASSUME NEW c \in Cache, NEW S, NEW to \in {"AVAILABLE", "OUTGOING", "SWAP_PENDING", "SPENT"},
         NEW source \in [Leaf -> Source]
  PROVE  /\ Eases(c, Moved(c, S, to, source))
         /\ to = "SPENT" => Locked(Moved(c, S, to, source)) \cap S = {}
BY SourceType DEF Moved, Eases, Follows, Locked, VALID_TRANSITIONS, NoRecord

\* transition() to any status but LOCAL_LOCKED locks nothing.
LEMMA TransitionEases ==
  ASSUME NEW c \in Cache, NEW S, NEW to \in {"AVAILABLE", "OUTGOING", "SWAP_PENDING", "SPENT"}
  PROVE  /\ Eases(c, transition(c, S, to))
         /\ to = "SPENT" => Locked(transition(c, S, to)) \cap S = {}
<1>1. [l \in Leaf |-> c[l].source] \in [Leaf -> Source] OBVIOUS
<1> QED BY <1>1, MovedEases DEF transition

\* The same with a source.
LEMMA TransitionFromEases ==
  ASSUME NEW c \in Cache, NEW S, NEW to \in {"AVAILABLE", "OUTGOING", "SWAP_PENDING"}, NEW source \in Source
  PROVE  Eases(c, transitionFrom(c, S, to, source))
<1>1. [l \in Leaf |-> source] \in [Leaf -> Source] OBVIOUS
<1> QED BY <1>1, MovedEases DEF transitionFrom

\* The only update by which a leaf becomes locked.
LEMMA LockingFollows ==
  ASSUME NEW c \in Cache, NEW S
  PROVE  LET d == transition(c, S, "LOCAL_LOCKED")
         IN d \in Cache /\ Follows(c, d) /\ Locked(d) \subseteq Locked(c) \cup S
BY SourceType DEF transition, Moved, Follows, Locked, VALID_TRANSITIONS

\* restoreLocalLockedToAvailable() leaves none of its leaves locked.
LEMMA RestoredEases ==
  ASSUME NEW c \in Cache, NEW S
  PROVE  Eases(c, Restored(c, S)) /\ Locked(Restored(c, S)) \cap S = {}
BY SourceType DEF Restored, Eases, Follows, Locked

\* Neither does marking what an executor sent.
LEMMA MarkedOutgoingEases ==
  ASSUME NEW c \in Cache, NEW S
  PROVE  Eases(c, MarkedOutgoing(c, S)) /\ Locked(MarkedOutgoing(c, S)) \cap S = {}
BY DEF MarkedOutgoing, Eases, Follows, Locked

\* updateLeavesSource() changes no status.
LEMMA SourceUpdatedEases ==
  ASSUME NEW c \in Cache, NEW S, NEW source \in Source
  PROVE  Eases(c, SourceUpdated(c, S, source))
BY DEF SourceUpdated, Eases, Follows, Locked

\* Any leaf may become AVAILABLE.
LEMMA RegisteredEases ==
  ASSUME NEW c \in Cache, NEW S, NEW source \in Source
  PROVE  Eases(c, Registered(c, S, source))
BY DEF Registered, Eases, Follows, Locked

\* addLeaves() adds only leaves that are not in flight.
LEMMA LeavesAddedEases ==
  ASSUME NEW c \in Cache, NEW S
  PROVE  Eases(c, LeavesAdded(c, S))
BY SourceType, RegisteredEases DEF LeavesAdded

\* addIncomingLeaves() touches only unknown and INCOMING leaves.
LEMMA IncomingAddedEases ==
  ASSUME NEW c \in Cache, NEW S, NEW x \in Xfer
  PROVE  Eases(c, IncomingAdded(c, S, x))
BY SourceType DEF IncomingAdded, Eases, Follows, Locked

\* A deposit event adds only an unknown leaf.
LEMMA DepositPutEases ==
  ASSUME NEW c \in Cache, NEW S, NEW status \in {"INCOMING", "AVAILABLE"}
  PROVE  Eases(c, DepositPut(c, S, status))
BY SourceType DEF DepositPut, Eases, Follows, Locked

\* evictStaleAvailable() removes only AVAILABLE leaves.
LEMMA StaleEvictedEases ==
  ASSUME NEW c \in Cache, NEW S
  PROVE  Eases(c, StaleEvicted(c, S))
BY SourceType DEF StaleEvicted, Eases, Follows, Locked, NoRecord

\* A sync keeps the locked leaves, and locks no other.
LEMMA SyncedKeepsLocked ==
  ASSUME NEW c \in Cache, NEW avail, NEW swaps, NEW outgoing, NEW incoming
  PROVE  LET d == Synced(c, avail, swaps, outgoing, incoming)
         IN /\ d \in Cache
            /\ Locked(d) = Locked(c)
            /\ \A l \in Locked(c) : d[l] = c[l]
BY SourceType DEF Synced, Locked, NoRecord, SYNC_PRESERVED_STATUSES

\* A stream event moves leaves through transition() only.
LEMMA TransferEventEases ==
  ASSUME NEW c \in Cache, NEW S, NEW x \in Xfer, NEW isSwap, NEW status
  PROVE  Eases(c, TransferEvent(c, S, x, isSwap, status))
BY SourceType, TransitionEases, TransitionFromEases DEF TransferEvent
-----------------------------------------------------------------------------
(***************************************************************************)
(* Type correctness.  It needs to know who is at which await: an action    *)
(* guarded by the await alone runs for an operation of the right kind.     *)
(***************************************************************************)
Placed(p) ==
  /\ pc[p] \in {"plan", "next"} => p \in Optimizer
  /\ pc[p] \in {"swap", "swapping", "ssp", "landed"} => p \in Sender \cup Optimizer
  /\ pc[p] \in {"swapping", "ssp"} => Made(p) # {}
  /\ pc[p] \in {"renew", "exec", "quote"} => p \in Sender \cup Sweeper
  /\ pc[p] = "claiming" => p \in Claimer
  /\ pc[p] = "register" => p \in Claimer \/ (p \in Sender \cup Sweeper /\ Made(p) # {})
  /\ pc[p] \in {"creating", "verify", "verified"} => p \in Depositor
  /\ p \in Optimizer /\ pc[p] = "swap" => step[p] \in DOMAIN batches[p]
Control == \A p \in Op : Placed(p)

TInv == TypeOK /\ Control

\* The calls of an operation have transfer identifiers.
LEMMA CallIds ==
  ASSUME NEW p \in Callers
  PROVE  /\ Made(p) \in SUBSET (1..MaxCalls)
         /\ Cardinality(Made(p)) \in 0..MaxCalls
         /\ Made(p) # {} => LastCall(p) \in Xfer
         /\ \A k \in 1..MaxCalls : <<p, k>> \in Xfer
<1>1. Made(p) \in SUBSET (1..MaxCalls) BY DEF Made
<1>2. MaxCalls \in Nat BY LeafManagerAssumption
<1>3. IsFiniteSet(1..MaxCalls) /\ Cardinality(1..MaxCalls) = MaxCalls BY <1>2, FS_Interval
<1>4. IsFiniteSet(Made(p)) /\ Cardinality(Made(p)) <= MaxCalls BY <1>1, <1>3, FS_Subset
<1>5. Cardinality(Made(p)) \in Nat BY <1>4, FS_CardinalityType
<1>6. Cardinality(Made(p)) = 0 <=> Made(p) = {} BY <1>4, FS_EmptySet
<1>7. \A k \in 1..MaxCalls : <<p, k>> \in Xfer BY LeafManagerAssumption
<1> QED BY <1>1, <1>2, <1>4, <1>5, <1>6, <1>7 DEF LastCall

\* What an operation holds is a set of leaves.
LEMMA HoldsType ==
  ASSUME TypeOK, NEW p \in Callers
  PROVE  Holds(p) \in SUBSET Leaf /\ <<Holds(p)>> \in Seq(SUBSET Leaf)
BY DEF TypeOK, Holds, Flat

\* A selection is a list of sets of leaves.
LEMMA SelectionType ==
  ASSUME NEW c, NEW targets \in Seq(Nat \ {0}), NEW bs \in selectLeaves(Available(c), targets)
  PROVE  bs \in Seq(SUBSET Leaf)
BY DEF selectLeaves, Available, WithStatus

\* New calls are transfers.
LEMMA CallsType ==
  ASSUME TypeOK, NEW p \in Callers, NEW kind \in {"swap", "send", "self"},
         NEW bs \in Seq(SUBSET Leaf), Calls(p, kind, bs)
  PROVE  xfer' \in [Xfer -> Transfer]
<1> DEFINE n == Cardinality(Made(p))
<1>1. n \in Nat BY CallIds, LeafManagerAssumption
<1>2. ASSUME NEW x \in Xfer PROVE xfer'[x] \in Transfer
  <2>1. CASE \E i \in DOMAIN bs : x = <<p, n + i>>
    <3>1. PICK i \in DOMAIN bs : x = <<p, n + i>> BY <2>1
    <3>2. x[2] - n = i BY <1>1, <3>1
    <3>3. bs[x[2] - n] \in SUBSET Leaf BY <3>2
    <3>4. xfer'[x] = NewTransfer(kind, bs[x[2] - n], "none", "sent")
      BY <2>1 DEF Calls
    <3> QED BY <3>3, <3>4 DEF NewTransfer, Transfer
  <2>2. CASE ~ \E i \in DOMAIN bs : x = <<p, n + i>>
    BY <2>2 DEF Calls, TypeOK
  <2> QED BY <2>1, <2>2
<1> QED BY <1>2 DEF Calls

\* Enough for type correctness of the updates that need no more than that.
LEMMA CacheUpdateTypes ==
  ASSUME NEW c \in Cache, NEW S
  PROVE  /\ \A to \in {"AVAILABLE", "OUTGOING", "SWAP_PENDING", "SPENT", "LOCAL_LOCKED"} :
              transition(c, S, to) \in Cache
         /\ Restored(c, S) \in Cache
         /\ MarkedOutgoing(c, S) \in Cache
         /\ LeavesAdded(c, S) \in Cache
         /\ StaleEvicted(c, S) \in Cache
         /\ DepositSeen(c, S) \in Cache
         /\ DepositAdded(c, S) \in Cache
         /\ \A source \in Source : Registered(c, S, source) \in Cache /\ SourceUpdated(c, S, source) \in Cache
         /\ \A x \in Xfer : IncomingAdded(c, S, x) \in Cache
BY TransitionEases, LockingFollows, RestoredEases, MarkedOutgoingEases, LeavesAddedEases,
   StaleEvictedEases, DepositPutEases, RegisteredEases, SourceUpdatedEases, IncomingAddedEases
   DEF Eases, DepositSeen, DepositAdded

\* A transfer whose status or call changes is a transfer.
LEMMA TransferUpdateTypes ==
  ASSUME xfer \in [Xfer -> Transfer], NEW x \in Xfer
  PROVE  /\ \A c \in {"none", "sent", "accepted", "refused", "over"} :
              [xfer EXCEPT ![x].call = c] \in [Xfer -> Transfer]
         /\ \A s \in {"none", "initiated", "tweaked", "completed", "returned"} :
              /\ [xfer EXCEPT ![x].st = s] \in [Xfer -> Transfer]
              /\ \A c \in {"none", "sent", "accepted", "refused", "over"} :
                   [xfer EXCEPT ![x].call = c, ![x].st = s] \in [Xfer -> Transfer]
              /\ \A new \in SUBSET Leaf :
                   [xfer EXCEPT ![x].st = s, ![x].new = new] \in [Xfer -> Transfer]
<1>1. xfer[x] \in Transfer OBVIOUS
<1>2. ASSUME NEW c \in {"none", "sent", "accepted", "refused", "over"}
      PROVE  [xfer[x] EXCEPT !.call = c] \in Transfer
  BY <1>1 DEF Transfer
<1>3. ASSUME NEW s \in {"none", "initiated", "tweaked", "completed", "returned"}
      PROVE  [xfer[x] EXCEPT !.st = s] \in Transfer
  BY <1>1 DEF Transfer
<1>4. ASSUME NEW s \in {"none", "initiated", "tweaked", "completed", "returned"},
             NEW c \in {"none", "sent", "accepted", "refused", "over"}
      PROVE  [xfer[x] EXCEPT !.call = c, !.st = s] \in Transfer
  BY <1>1 DEF Transfer
<1>5. ASSUME NEW s \in {"none", "initiated", "tweaked", "completed", "returned"}, NEW new \in SUBSET Leaf
      PROVE  [xfer[x] EXCEPT !.st = s, !.new = new] \in Transfer
  BY <1>1 DEF Transfer
<1> QED BY <1>2, <1>3, <1>4, <1>5

HIDE DEF Cache, LeafRecord, LeafStatus, Lifecycle!MayFollow

\* An operation moves from one await to another.
LEMMA GotoType ==
  ASSUME pc \in [Op -> PC], NEW p \in Op, NEW there \in PC, Goto(p, there) \/ NotifyAndGoto(p, there)
  PROVE  pc' \in [Op -> PC]
BY DEF Goto, NotifyAndGoto, PC

\* Type correctness of a capture.
LEMMA CaptureType ==
  ASSUME TypeOK, NEW p \in Callers, NEW bs \in Seq(SUBSET Leaf), NEW there \in PC, Capture(p, bs, there)
  PROVE  cache' \in Cache /\ batches' \in [Callers -> Seq(SUBSET Leaf)] /\ pc' \in [Op -> PC]
<1>1. p \in Op BY DEF Op
<1> QED BY <1>1, CacheUpdateTypes, GotoType DEF Capture, TypeOK

\* Only an operation that makes calls has any.
LEMMA CallsOfType ==
  ASSUME TInv, NEW p \in Op, At(p, "exec"), NEW x \in CallsOf(p)
  PROVE  p \in Callers /\ x \in Xfer
<1>1. p \in Callers BY DEF TInv, Control, Placed, At, Callers
<1> QED BY <1>1, LeafManagerAssumption DEF CallsOf

\* Answers of the operators name leaves, or pairs of a leaf and a transfer.
LEMMA AnswerType ==
  ASSUME NEW q \in Query
  PROVE  /\ Answer(q) \subseteq Leaf \cup (Leaf \X Xfer)
         /\ \A leaves \in Kept(Answer("leaves")) : leaves \subseteq Leaf
<1>1. Answer("leaves") \subseteq Leaf BY DEF Answer
<1>2. q # "leaves" => Answer(q) \subseteq Leaf \X Xfer BY DEF Answer
<1>3. ASSUME NEW leaves \in Kept(Answer("leaves")) PROVE leaves \subseteq Leaf
  BY <1>1 DEF Kept
<1>4. q = "leaves" => Answer(q) \subseteq Leaf BY <1>1, Zenon
<1> QED BY <1>2, <1>3, <1>4

\* Type correctness of the way out of a failed operation.
LEMMA FailsType ==
  ASSUME TypeOK, NEW p \in Callers, NEW stale \in BOOLEAN, Fails(p, stale)
  PROVE  /\ cache' \in Cache
         /\ batches' \in [Callers -> Seq(SUBSET Leaf)]
         /\ pc' \in [Op -> PC]
         /\ optimizing' \in BOOLEAN
         /\ lockedIds' \subseteq Leaf
         /\ hasSynced' \in BOOLEAN
         /\ retried' \subseteq Sender
<1>1. p \in Op BY DEF Op
<1>2. cache' \in Cache /\ batches' \in [Callers -> Seq(SUBSET Leaf)]
  BY CacheUpdateTypes DEF Fails, TypeOK
<1>3. CASE p \in Optimizer
  BY <1>1, <1>2, <1>3, GotoType DEF Fails, TypeOK, PC
<1>4. CASE p \notin Optimizer
  <2>1. pc' \in [Op -> PC]
    BY <1>1, <1>4, GotoType DEF Fails, TypeOK, PC
  <2>2. retried' \subseteq Sender /\ UNCHANGED flags
    BY <1>4 DEF Fails, TypeOK
  <2> QED BY <1>2, <2>1, <2>2 DEF TypeOK, flags
<1> QED BY <1>3, <1>4

\* Type correctness of the update that ends a swap.
LEMMA SwapAppliedType ==
  ASSUME TypeOK, NEW p
  PROVE  SwapApplied(p) \in Cache
BY SourceType, CacheUpdateTypes DEF SwapApplied, TypeOK

\* A plan of the optimizer is a list of sets of leaves.
LEMMA PlansType ==
  ASSUME NEW plan \in Plans(Available(cache))
  PROVE  plan \in Seq(SUBSET Leaf) /\ Flat(plan) \subseteq Leaf
<1>1. PICK n \in 1..MaxBatches : plan \in [1..n -> (SUBSET Available(cache)) \ {{}}]
  BY DEF Plans
<1>2. Available(cache) \subseteq Leaf BY DEF Available, WithStatus
<1>3. n \in Nat BY LeafManagerAssumption
<1> QED BY <1>1, <1>2, <1>3 DEF Flat

\* A transfer that is heard of is a transfer.
LEMMA HeardType ==
  ASSUME xfer \in [Xfer -> Transfer], NEW x \in Xfer, xfer[x].heard \in 0..1
  PROVE  [xfer EXCEPT ![x].heard = @ + 1] \in [Xfer -> Transfer]
<1>1. xfer[x] \in Transfer OBVIOUS
<1>2. [xfer[x] EXCEPT !.heard = @ + 1] \in Transfer BY <1>1 DEF Transfer
<1> QED BY <1>2

\* What moved while a sync is under way are leaves.
LEMMA MovedType ==
  ASSUME TypeOK
  PROVE  /\ \A new : MovedTo(new) => moved' \in [Syncing -> SUBSET Leaf]
         /\ \A p : Forgotten(p) => moved' \in [Syncing -> SUBSET Leaf]
BY DEF TypeOK, MovedTo, Forgotten

\* The steps of selection keep the types.
LEMMA SelectType ==
  ASSUME TInv, NEW p \in Op, Select(p)
  PROVE  TypeOK'
<1> USE DEF TInv, flags, fetching, operators, At
<1>1. CASE SelectExact(p)
  BY <1>1, CacheUpdateTypes, GotoType, SelectionType, LeafManagerAssumption
     DEF SelectExact, TypeOK, Capture, PC, Callers
<1>2. CASE SelectForSwap(p)
  <2>1. PICK sel \in determineLeavesToSwap(Available(cache), Wanted(p)) : Capture(p, <<sel>>, "swap")
    BY <1>2 DEF SelectForSwap
  <2>2. <<sel>> \in Seq(SUBSET Leaf) BY DEF determineLeavesToSwap, Available, WithStatus
  <2> QED BY <1>2, <2>1, <2>2, CaptureType DEF SelectForSwap, TypeOK, PC, Callers
<1>3. CASE NotEnoughLeaves(p)
  BY <1>3, GotoType DEF NotEnoughLeaves, TypeOK, PC
<1>4. CASE SweepSelect(p)
  <2>1. <<Available(cache)>> \in Seq(SUBSET Leaf) BY DEF Available, WithStatus
  <2> QED BY <1>4, <2>1, CaptureType DEF SweepSelect, TypeOK, PC, Callers
<1> QED BY <1>1, <1>2, <1>3, <1>4 DEF Select

\* The steps of a swap keep the types.
LEMMA SwapType ==
  ASSUME TInv, NEW p \in Op, Swap(p)
  PROVE  TypeOK'
<1> USE DEF TInv, flags, fetching, operators, At
<1>1. CASE SwapSend(p)
  <2>1. p \in Callers BY <1>1 DEF SwapSend, Control, Placed, Callers
  <2>2. SwapLeaves(p) \in SUBSET Leaf /\ <<SwapLeaves(p)>> \in Seq(SUBSET Leaf)
    BY <1>1, <2>1, HoldsType DEF SwapSend, SwapLeaves, TypeOK, Control, Placed
  <2>3. xfer' \in [Xfer -> Transfer] BY <1>1, <2>1, <2>2, CallsType DEF SwapSend
  <2>4. LET x == <<p, Cardinality(Made(p)) + 1>> IN x \in Xfer
    BY <1>1, <2>1, CallIds, LeafManagerAssumption DEF SwapSend, Calls
  <2>5. cache' \in Cache BY <1>1, <2>4, SourceType, CacheUpdateTypes DEF SwapSend, TypeOK
  <2>6. pc' \in [Op -> PC] BY <1>1, GotoType DEF SwapSend, TypeOK, PC
  <2> QED BY <1>1, <2>3, <2>5, <2>6 DEF SwapSend, TypeOK
<1>2. CASE SwapInitiated(p)
  BY <1>2, CacheUpdateTypes, GotoType, TransferUpdateTypes, CallIds
     DEF SwapInitiated, TypeOK, CallOver, PC, Control, Placed
<1>3. CASE SwapCallFails(p)
  BY <1>3, CacheUpdateTypes, GotoType, TransferUpdateTypes, CallIds, FailsType
     DEF SwapCallFails, TypeOK, CallOver, PC, Control, Placed, Callers
<1>4. CASE SwapClaims(p)
  BY <1>4, CacheUpdateTypes, GotoType, TransferUpdateTypes, CallIds, MovedType
     DEF SwapClaims, SoAfterClaim, TypeOK, PC, Control, Placed, LeafState, Callers
<1>5. CASE SwapFailsAtSsp(p)
  BY <1>5, FailsType DEF SwapFailsAtSsp, TypeOK, Control, Placed, Callers
<1>6. CASE SwapSelected(p)
  <2>1. PICK bs \in selectLeaves(Available(SwapApplied(p)), Targets[p]) :
          IF Found(Targets[p], bs)
          THEN /\ cache' = transition(SwapApplied(p), Flat(bs), "LOCAL_LOCKED")
               /\ batches' = [batches EXCEPT ![p] = bs]
               /\ Goto(p, "renew")
          ELSE /\ cache' = SwapApplied(p)
               /\ batches' = [batches EXCEPT ![p] = <<>>]
               /\ Goto(p, "failed")
    BY <1>6 DEF SwapSelected
  <2>2. p \in Sender /\ Targets[p] \in Seq(Nat \ {0}) BY <1>6, LeafManagerAssumption DEF SwapSelected
  <2>3. bs \in Seq(SUBSET Leaf) /\ <<>> \in Seq(SUBSET Leaf) BY <2>2, SelectionType
  <2>4. cache' \in Cache BY <2>1, SwapAppliedType, CacheUpdateTypes
  <2>5. batches' \in [Callers -> Seq(SUBSET Leaf)] BY <2>1, <2>3 DEF TypeOK
  <2>6. pc' \in [Op -> PC] BY <2>1, GotoType DEF TypeOK, PC
  <2> QED BY <1>6, <2>4, <2>5, <2>6 DEF SwapSelected, TypeOK
<1>7. CASE SwapOptimized(p)
  BY <1>7, CacheUpdateTypes, GotoType, SwapAppliedType DEF SwapOptimized, TypeOK, PC, Callers
<1> QED BY <1>1, <1>2, <1>3, <1>4, <1>5, <1>6, <1>7 DEF Swap

\* The steps of the optimizer keep the types.
LEMMA OptimizeType ==
  ASSUME TInv, NEW p \in Op, Optimize(p)
  PROVE  TypeOK'
<1> USE DEF TInv, flags, fetching, operators, At
<1>1. CASE OptimizeStart(p)
  BY <1>1, GotoType DEF OptimizeStart, TypeOK, PC
<1>2. CASE OptimizePlan(p)
  BY <1>2, CacheUpdateTypes, GotoType, PlansType
     DEF OptimizePlan, TypeOK, Capture, PC, Control, Placed, Callers
<1>3. CASE OptimizeSkip(p)
  BY <1>3, GotoType DEF OptimizeSkip, TypeOK, PC
<1>4. CASE OptimizeNext(p)
  BY <1>4, GotoType DEF OptimizeNext, TypeOK, PC, Control, Placed
<1>5. CASE OptimizeEnd(p)
  <2>1. cache' \in Cache /\ pc' \in [Op -> PC]
    BY <1>5, CacheUpdateTypes, GotoType DEF OptimizeEnd, TypeOK, PC
  <2>2. batches' \in [Callers -> Seq(SUBSET Leaf)]
    <3>1. batches' = [batches EXCEPT ![p] = <<>>] BY <1>5 DEF OptimizeEnd
    <3>2. <<>> \in Seq(SUBSET Leaf) OBVIOUS
    <3> QED BY <3>1, <3>2 DEF TypeOK
  <2> QED BY <1>5, <2>1, <2>2 DEF OptimizeEnd, TypeOK
<1> QED BY <1>1, <1>2, <1>3, <1>4, <1>5 DEF Optimize

\* The steps of renewal and the executor keep the types.
LEMMA ExecuteType ==
  ASSUME TInv, NEW p \in Op, Execute(p)
  PROVE  TypeOK'
<1> USE DEF TInv, flags, fetching, operators, At
<1>1. CASE ExecuteSender(p)
  BY <1>1, GotoType, CallsType, HoldsType DEF ExecuteSender, TypeOK, PC, Callers
<1>2. CASE ExecuteSweeper(p)
  <2>1. PICK kept \in Kept(Holds(p)) :
          /\ cache' = Restored(cache, Holds(p) \ kept)
          /\ batches' = [batches EXCEPT ![p] = <<kept>>]
          /\ Calls(p, "send", <<kept>>)
    BY <1>2 DEF ExecuteSweeper
  <2>2. p \in Callers BY <1>2 DEF ExecuteSweeper, Callers
  <2>3. kept \in SUBSET Leaf BY <2>2, HoldsType DEF Kept
  <2>4. <<kept>> \in Seq(SUBSET Leaf) BY <2>3
  <2>5. xfer' \in [Xfer -> Transfer] BY <2>1, <2>2, <2>4, CallsType
  <2>6. cache' \in Cache BY <2>1, CacheUpdateTypes DEF TypeOK
  <2>7. batches' \in [Callers -> Seq(SUBSET Leaf)] BY <2>1, <2>4 DEF TypeOK
  <2>8. pc' \in [Op -> PC] BY <1>2, GotoType DEF ExecuteSweeper, TypeOK, PC
  <2> QED BY <1>2, <2>5, <2>6, <2>7, <2>8 DEF ExecuteSweeper, TypeOK
<1>3. CASE RenewalThrows(p)
  BY <1>3, GotoType DEF RenewalThrows, TypeOK, PC
<1>4. CASE ExecutorSent(p)
  <2>1. PICK x \in CallsOf(p) :
          /\ \E status : cache' = TransferEvent(cache, xfer[x].leaves, x, FALSE, status)
          /\ CallOver(x)
    BY <1>4 DEF ExecutorSent
  <2>2. x \in Xfer BY <1>4, CallsOfType DEF ExecutorSent
  <2>3. cache' \in Cache
    <3>1. PICK status : cache' = TransferEvent(cache, xfer[x].leaves, x, FALSE, status) BY <2>1
    <3>2. cache \in Cache BY DEF TypeOK
    <3> QED BY <2>2, <3>1, <3>2, TransferEventEases DEF Eases
  <2>4. xfer' \in [Xfer -> Transfer] BY <2>1, <2>2, TransferUpdateTypes DEF CallOver, TypeOK
  <2> QED BY <1>4, <2>3, <2>4 DEF ExecutorSent, TypeOK
<1>5. CASE ExecutorCallFails(p)
  <2>1. PICK x \in CallsOf(p) :
          /\ CallOver(x)
          /\ IF p \in Sender /\ Executor[p] = "invoice"
             THEN /\ cache' = Restored(cache, xfer[x].leaves)
                  /\ UNCHANGED <<flags, pc, batches, retried>>
             ELSE Fails(p, xfer[x].call = "refused")
    BY <1>5 DEF ExecutorCallFails
  <2>2. x \in Xfer /\ p \in Callers BY <1>5, CallsOfType DEF ExecutorCallFails
  <2>3. xfer' \in [Xfer -> Transfer] BY <2>1, <2>2, TransferUpdateTypes DEF CallOver, TypeOK
  <2>4. CASE p \in Sender /\ Executor[p] = "invoice"
    <3>1. cache' \in Cache BY <2>1, <2>4, CacheUpdateTypes DEF TypeOK
    <3> QED BY <1>5, <2>1, <2>3, <2>4, <3>1 DEF ExecutorCallFails, TypeOK
  <2>5. CASE ~ (p \in Sender /\ Executor[p] = "invoice")
    <3>1. Fails(p, xfer[x].call = "refused") BY <2>1, <2>5
    <3>2. UNCHANGED <<step, fetching, soState>> BY <1>5 DEF ExecutorCallFails
    <3> QED BY <2>2, <2>3, <3>1, <3>2, FailsType DEF TypeOK
  <2> QED BY <2>4, <2>5
<1>6. CASE ExecutorClaims(p)
  <2>1. PICK x \in CallsOf(p) :
          /\ xfer' = [xfer EXCEPT ![x].call = "over", ![x].st = "completed"]
          /\ so' = SoAfterClaim(x)
    BY <1>6 DEF ExecutorClaims
  <2>2. x \in Xfer BY <1>6, CallsOfType DEF ExecutorClaims
  <2>3. xfer' \in [Xfer -> Transfer] BY <2>1, <2>2, TransferUpdateTypes DEF TypeOK
  <2>4. so' \in [Leaf -> LeafState] BY <2>1 DEF SoAfterClaim, TypeOK, LeafState
  <2>5. pc' \in [Op -> PC] BY <1>6, GotoType DEF ExecutorClaims, TypeOK, PC
  <2> QED BY <1>6, <2>3, <2>4, <2>5, MovedType DEF ExecutorClaims, TypeOK
<1>7. CASE QuoteReleases(p)
  BY <1>7, CacheUpdateTypes, GotoType DEF QuoteReleases, TypeOK, PC
<1>8. CASE ExecutorThrows(p)
  <2>1. p \in Callers BY <1>8 DEF ExecutorThrows, Control, Placed, Callers
  <2>2. xfer' = [x \in Xfer |-> IF x \in CallsOf(p) THEN [xfer[x] EXCEPT !.call = "over"] ELSE xfer[x]]
    BY <1>8 DEF ExecutorThrows
  <2>3. ASSUME NEW x \in Xfer PROVE [xfer[x] EXCEPT !.call = "over"] \in Transfer
    <3>1. xfer[x] \in Transfer BY DEF TypeOK
    <3> QED BY <3>1 DEF Transfer
  <2>4. xfer' \in [Xfer -> Transfer] BY <2>2, <2>3 DEF TypeOK
  <2>5. Fails(p, FALSE) /\ UNCHANGED <<step, fetching, soState>> BY <1>8 DEF ExecutorThrows
  <2> QED BY <2>1, <2>4, <2>5, FailsType DEF TypeOK
<1>9. CASE ExecutorReturns(p)
  BY <1>9, CacheUpdateTypes, GotoType DEF ExecutorReturns, TypeOK, PC, Control, Placed, Callers
<1> QED BY <1>1, <1>2, <1>3, <1>4, <1>5, <1>6, <1>7, <1>8, <1>9 DEF Execute

\* The steps of sync() and getBalance keep the types.
LEMMA FetchType ==
  ASSUME TInv, NEW p \in Op, Fetch(p)
  PROVE  TypeOK'
<1> USE DEF TInv, flags, fetching, operators, At
<1>1. CASE FetchStart(p)
  <2>1. pc' \in [Op -> PC] BY <1>1, GotoType DEF FetchStart, TypeOK, PC
  <2>2. unread' \in [Op -> SUBSET Query] BY <1>1 DEF FetchStart, TypeOK, Query
  <2> QED BY <1>1, <2>1, <2>2 DEF FetchStart, TypeOK
<1>2. CASE FetchAnswer(p)
  <2>1. PICK Q :
          /\ \E leaves \in Kept(Answer("leaves")) :
               /\ snap' = [snap EXCEPT ![p] =
                             [q \in Query |-> IF q \notin Q THEN snap[p][q]
                                              ELSE IF q = "leaves" THEN leaves ELSE Answer(q)]]
               /\ moved' = [r \in Syncing |-> IF r = p /\ "leaves" \in Q
                                              THEN moved[r] \cup (Answer("leaves") \ leaves)
                                              ELSE moved[r]]
          /\ unread' = [unread EXCEPT ![p] = @ \ Q]
          /\ Goto(p, IF unread[p] = Q THEN "fetched" ELSE "fetch")
    BY <1>2 DEF FetchAnswer
  <2>6. PICK leaves \in Kept(Answer("leaves")) :
          /\ snap' = [snap EXCEPT ![p] =
                        [q \in Query |-> IF q \notin Q THEN snap[p][q]
                                         ELSE IF q = "leaves" THEN leaves ELSE Answer(q)]]
          /\ moved' = [r \in Syncing |-> IF r = p /\ "leaves" \in Q
                                         THEN moved[r] \cup (Answer("leaves") \ leaves)
                                         ELSE moved[r]]
    BY <2>1
  <2>7. moved' \in [Syncing -> SUBSET Leaf]
    <3>1. Answer("leaves") \subseteq Leaf BY DEF Answer
    <3> QED BY <2>6, <3>1 DEF TypeOK
  <2>2. [q \in Query |-> IF q \notin Q THEN snap[p][q]
                         ELSE IF q = "leaves" THEN leaves ELSE Answer(q)] \in Snapshot
    BY AnswerType DEF TypeOK, Snapshot
  <2>3. snap' \in [Op -> Snapshot] BY <2>6, <2>2 DEF TypeOK
  <2>4. unread' \in [Op -> SUBSET Query] BY <2>1 DEF TypeOK
  <2>5. pc' \in [Op -> PC] BY <2>1, GotoType DEF TypeOK, PC
  <2> QED BY <1>2, <2>3, <2>4, <2>5, <2>7 DEF FetchAnswer, TypeOK
<1>3. CASE FetchFails(p)
  <2>1. pc' \in [Op -> PC] BY <1>3, GotoType DEF FetchFails, TypeOK, PC
  <2>2. unread' \in [Op -> SUBSET Query] BY <1>3 DEF FetchFails, TypeOK
  <2>3. NoSnapshot \in Snapshot BY DEF NoSnapshot, Snapshot
  <2>4. snap' \in [Op -> Snapshot] BY <1>3, <2>3 DEF FetchFails, TypeOK
  <2> QED BY <1>3, <2>1, <2>2, <2>4, MovedType DEF FetchFails, TypeOK
<1>4. CASE SyncApply(p)
  BY <1>4, GotoType, SyncedKeepsLocked, MovedType DEF SyncApply, TypeOK, PC, SyncedWith, NoSnapshot, Snapshot
<1>5. CASE RefreshAdd(p)
  BY <1>5, CacheUpdateTypes, GotoType DEF RefreshAdd, TypeOK, PC
<1>6. CASE RefreshEvict(p)
  BY <1>6, CacheUpdateTypes, GotoType DEF RefreshEvict, TypeOK, PC, NoSnapshot, Snapshot
<1> QED BY <1>1, <1>2, <1>3, <1>4, <1>5, <1>6 DEF Fetch

\* The steps of a claim keep the types.
LEMMA ClaimsType ==
  ASSUME TInv, NEW p \in Op, Claims(p)
  PROVE  TypeOK'
<1> USE DEF TInv, flags, fetching, operators, At
<1>1. CASE ClaimStart(p)
  <2>1. ClaimOf[p] \in Xfer BY <1>1, LeafManagerAssumption DEF ClaimStart
  <2>2. cache' = cache \/ cache' = IncomingAdded(cache, xfer[ClaimOf[p]].leaves, ClaimOf[p])
    BY <1>1 DEF ClaimStart
  <2>4. cache' \in Cache 
    <3>1. cache \in Cache BY DEF TypeOK
    <3>2. IncomingAdded(cache, xfer[ClaimOf[p]].leaves, ClaimOf[p]) \in Cache
      BY <2>1, <3>1, IncomingAddedEases DEF Eases
    <3> QED BY <2>2, <3>1, <3>2
  <2>3. pc' \in [Op -> PC] BY <1>1, GotoType DEF ClaimStart, TypeOK, PC
  <2> QED BY <1>1, <2>3, <2>4 DEF ClaimStart, TypeOK
<1>2. CASE Claim(p)
  <2>1. ClaimOf[p] \in Xfer BY <1>2, LeafManagerAssumption DEF Claim, Control, Placed
  <2>2. xfer' \in [Xfer -> Transfer] BY <1>2, <2>1, TransferUpdateTypes DEF Claim, TypeOK
  <2>3. so' \in [Leaf -> LeafState] BY <1>2 DEF Claim, SoAfterClaim, TypeOK, LeafState
  <2>4. pc' \in [Op -> PC] BY <1>2, GotoType DEF Claim, TypeOK, PC
  <2> QED BY <1>2, <2>2, <2>3, <2>4, MovedType DEF Claim, TypeOK
<1>3. CASE RegisterClaimed(p)
  <2> DEFINE x == IF p \in Claimer THEN ClaimOf[p] ELSE LastCall(p)
  <2>1. x \in Xfer BY <1>3, LeafManagerAssumption, CallIds DEF RegisterClaimed, Control, Placed, Callers
  <2>2. PICK kept : cache' = Registered(cache, kept, TransferSource(x)) BY <1>3 DEF RegisterClaimed
  <2>3. cache' \in Cache BY <2>1, <2>2, SourceType, CacheUpdateTypes DEF TypeOK
  <2>4. pc' \in [Op -> PC] BY <1>3, GotoType DEF RegisterClaimed, TypeOK, PC
  <2> QED BY <1>3, <2>3, <2>4 DEF RegisterClaimed, TypeOK
<1>4. CASE RegisterThrows(p)
  BY <1>4, GotoType, FailsType DEF RegisterThrows, TypeOK, PC, Control, Placed, Callers
<1> QED BY <1>1, <1>2, <1>3, <1>4 DEF Claims

\* The steps of a deposit event keep the types.
LEMMA HandleDepositType ==
  ASSUME TInv, NEW p \in Op, HandleDeposit(p)
  PROVE  TypeOK'
<1> USE DEF TInv, flags, fetching, operators, At
<1>1. CASE DepositCreating(p)
  BY <1>1, CacheUpdateTypes, GotoType DEF DepositCreating, TypeOK, PC
<1>2. CASE DepositAvailable(p)
  BY <1>2, CacheUpdateTypes, GotoType DEF DepositAvailable, TypeOK, PC
<1>3. CASE DepositVerify(p)
  BY <1>3, GotoType DEF DepositVerify, TypeOK, PC
<1>4. CASE DepositAdd(p)
  BY <1>4, CacheUpdateTypes, GotoType DEF DepositAdd, TypeOK, PC
<1> QED BY <1>1, <1>2, <1>3, <1>4 DEF HandleDeposit

\* The steps of the event stream keep the types.
LEMMA StreamType ==
  ASSUME TInv, NEW x \in Xfer, Stream(x)
  PROVE  TypeOK'
<1> USE DEF TInv, flags, fetching, operators, At
<1>1. CASE Hear(x)
  <2>1. cache' \in Cache BY <1>1, TransferEventEases DEF Hear, TypeOK, Eases
  <2>2. xfer' \in [Xfer -> Transfer] BY <1>1, HeardType DEF Hear, HasNews, TypeOK
  <2> QED BY <1>1, <2>1, <2>2 DEF Hear, TypeOK
<1>2. CASE Miss(x)
  BY <1>2, HeardType DEF Miss, TypeOK, HasNews
<1> QED BY <1>1, <1>2 DEF Stream

\* The steps of the operators keep the types.
LEMMA OperatorsType ==
  ASSUME TInv, NEW x \in Xfer, Operators(x)
  PROVE  TypeOK'
<1> USE DEF TInv, flags, fetching, operators, At
<1>1. CASE SoAnswers(x)
  <2>1. xfer' \in [Xfer -> Transfer]
    <3>1. CASE xfer' = [xfer EXCEPT ![x].call = "accepted", ![x].st = "initiated"]
      BY <3>1, TransferUpdateTypes DEF TypeOK
    <3>2. CASE xfer' = [xfer EXCEPT ![x].call = "refused"]
      BY <3>2, TransferUpdateTypes DEF TypeOK
    <3> QED BY <1>1, <3>1, <3>2 DEF SoAnswers
  <2>2. so' \in [Leaf -> LeafState] BY <1>1 DEF SoAnswers, TypeOK, LeafState
  <2> QED BY <1>1, <2>1, <2>2, MovedType DEF SoAnswers, TypeOK
<1>2. CASE SoTweaks(x)
  BY <1>2, TransferUpdateTypes, MovedType DEF SoTweaks, TypeOK, LeafState
<1>3. CASE SspSwaps(x)
  <2>1. PICK new \in SUBSET {l \in Leaf : so[l] = "absent"} :
          /\ xfer' = [xfer EXCEPT ![x].st = "tweaked", ![x].new = new]
          /\ so' = [l \in Leaf |-> IF l \in new THEN "incoming"
                                   ELSE IF l \in xfer[x].leaves THEN "gone" ELSE so[l]]
    BY <1>3 DEF SspSwaps
  <2>2. xfer' \in [Xfer -> Transfer] BY <2>1, TransferUpdateTypes DEF TypeOK
  <2>3. so' \in [Leaf -> LeafState] BY <2>1 DEF TypeOK, LeafState
  <2> QED BY <1>3, <2>2, <2>3, MovedType DEF SspSwaps, TypeOK
<1>4. CASE SoReturns(x)
  BY <1>4, TransferUpdateTypes, MovedType DEF SoReturns, TypeOK, LeafState
<1>5. CASE DepositConfirmed(x)
  BY <1>5, TransferUpdateTypes, MovedType DEF DepositConfirmed, TypeOK, LeafState
<1>6. CASE OtherInstanceSends(x)
  BY <1>6, MovedType DEF OtherInstanceSends, TypeOK, LeafState, Transfer, NewTransfer
<1> QED BY <1>1, <1>2, <1>3, <1>4, <1>5, <1>6 DEF Operators

\* Every step keeps the types.
LEMMA TypeStep ==
  ASSUME TInv, [Next]_vars
  PROVE  TypeOK'
<1>1. CASE UNCHANGED vars
  BY <1>1 DEF TInv, TypeOK, vars, flags, fetching, operators
<1>2. ASSUME NEW p \in Op, WaitOrProceed(p) \/ WaitTimesOut(p) \/ CheckBalance(p) PROVE TypeOK'
  <2> USE DEF TInv, TypeOK, flags, fetching, operators, PC
  <2>1. CASE WaitOrProceed(p) BY <2>1, GotoType DEF WaitOrProceed
  <2>2. CASE WaitTimesOut(p) BY <2>2, GotoType DEF WaitTimesOut
  <2>3. CASE CheckBalance(p) BY <2>3, GotoType DEF CheckBalance
  <2> QED BY <1>2, <2>1, <2>2, <2>3
<1> QED BY <1>1, <1>2, SelectType, SwapType, OptimizeType, ExecuteType, FetchType, ClaimsType,
           HandleDepositType, StreamType, OperatorsType DEF Next, Step

\* A transfer never loses its kind: no call is taken back.
KindsKept == \A x \in Xfer : xfer[x].kind # "none" => xfer'[x].kind # "none"

\* New calls keep the kinds of the old ones.
LEMMA CallsKeepKinds ==
  ASSUME TypeOK, NEW p \in Callers, NEW kind \in {"swap", "send", "self"}, NEW bs, Calls(p, kind, bs)
  PROVE  KindsKept
BY DEF Calls, KindsKept, NewTransfer, TypeOK

\* Every step keeps the kinds.
LEMMA KindsStep ==
  ASSUME TInv, [Next]_vars
  PROVE  KindsKept
<1> USE DEF TInv, TypeOK, KindsKept
<1>1. CASE UNCHANGED xfer BY <1>1
<1>2. ASSUME NEW p \in Op, SwapSend(p) PROVE KindsKept
  BY <1>2, CallsKeepKinds DEF SwapSend, Control, Placed, Callers, At
<1>3. ASSUME NEW p \in Op, SwapInitiated(p) PROVE KindsKept
  BY <1>3 DEF SwapInitiated, CallOver
<1>4. ASSUME NEW p \in Op, SwapCallFails(p) PROVE KindsKept
  BY <1>4 DEF SwapCallFails, CallOver
<1>5. ASSUME NEW p \in Op, SwapClaims(p) PROVE KindsKept
  BY <1>5 DEF SwapClaims
<1>6. ASSUME NEW p \in Op, ExecuteSender(p) PROVE KindsKept
  BY <1>6, CallsKeepKinds DEF ExecuteSender, Callers
<1>7. ASSUME NEW p \in Op, ExecuteSweeper(p) PROVE KindsKept
  BY <1>7, CallsKeepKinds DEF ExecuteSweeper, Callers
<1>8. ASSUME NEW p \in Op, ExecutorSent(p) PROVE KindsKept
  BY <1>8 DEF ExecutorSent, CallOver
<1>9. ASSUME NEW p \in Op, ExecutorCallFails(p) PROVE KindsKept
  BY <1>9 DEF ExecutorCallFails, CallOver
<1>10. ASSUME NEW p \in Op, ExecutorClaims(p) PROVE KindsKept
  BY <1>10 DEF ExecutorClaims
<1>11. ASSUME NEW p \in Op, ExecutorThrows(p) PROVE KindsKept
  BY <1>11 DEF ExecutorThrows
<1>12. ASSUME NEW p \in Op, Claim(p) PROVE KindsKept
  BY <1>12 DEF Claim
<1>13. ASSUME NEW x \in Xfer, Hear(x) PROVE KindsKept
  BY <1>13 DEF Hear
<1>14. ASSUME NEW x \in Xfer, Miss(x) PROVE KindsKept
  BY <1>14 DEF Miss
<1>15. ASSUME NEW x \in Xfer, SoAnswers(x) PROVE KindsKept
  <2>1. CASE xfer' = [xfer EXCEPT ![x].call = "accepted", ![x].st = "initiated"]
    BY <2>1
  <2>2. CASE xfer' = [xfer EXCEPT ![x].call = "refused"]
    BY <2>2
  <2> QED BY <1>15, <2>1, <2>2 DEF SoAnswers
<1>16. ASSUME NEW x \in Xfer, SoTweaks(x) PROVE KindsKept
  BY <1>16 DEF SoTweaks
<1>17. ASSUME NEW x \in Xfer, SspSwaps(x) PROVE KindsKept
  BY <1>17 DEF SspSwaps
<1>18. ASSUME NEW x \in Xfer, SoReturns(x) PROVE KindsKept
  BY <1>18 DEF SoReturns
<1>19. ASSUME NEW x \in Xfer, DepositConfirmed(x) PROVE KindsKept
  BY <1>19 DEF DepositConfirmed
<1>20. ASSUME NEW x \in Xfer, OtherInstanceSends(x) PROVE KindsKept
  BY <1>20 DEF OtherInstanceSends, NewTransfer
<1>21. ASSUME NEW p \in Op, Select(p) PROVE KindsKept
  BY <1>1, <1>21 DEF Select, SelectExact, SelectForSwap, NotEnoughLeaves, SweepSelect, operators
<1>22. ASSUME NEW p \in Op, Swap(p) PROVE KindsKept
  BY <1>1, <1>2, <1>3, <1>4, <1>5, <1>22
  DEF Swap, SwapFailsAtSsp, SwapSelected, SwapOptimized, operators
<1>23. ASSUME NEW p \in Op, Optimize(p) PROVE KindsKept
  BY <1>1, <1>23
  DEF Optimize, OptimizeStart, OptimizePlan, OptimizeSkip, OptimizeNext, OptimizeEnd, operators
<1>24. ASSUME NEW p \in Op, Execute(p) PROVE KindsKept
  BY <1>1, <1>6, <1>7, <1>8, <1>9, <1>10, <1>11, <1>24
  DEF Execute, RenewalThrows, QuoteReleases, ExecutorReturns, operators
<1>25. ASSUME NEW p \in Op, Fetch(p) PROVE KindsKept
  BY <1>1, <1>25
  DEF Fetch, FetchStart, FetchAnswer, FetchFails, SyncApply, RefreshAdd, RefreshEvict, operators
<1>26. ASSUME NEW p \in Op, Claims(p) PROVE KindsKept
  BY <1>1, <1>12, <1>26 DEF Claims, ClaimStart, RegisterClaimed, RegisterThrows, operators
<1>27. ASSUME NEW p \in Op, HandleDeposit(p) PROVE KindsKept
  BY <1>1, <1>27
  DEF HandleDeposit, DepositCreating, DepositAvailable, DepositVerify, DepositAdd, operators
<1>28. ASSUME NEW p \in Op, Step(p) PROVE KindsKept
  BY <1>1, <1>21, <1>22, <1>23, <1>24, <1>25, <1>26, <1>27, <1>28
  DEF Step, WaitOrProceed, WaitTimesOut, CheckBalance, operators
<1>29. ASSUME NEW x \in Xfer, Stream(x) \/ Operators(x) PROVE KindsKept
  BY <1>13, <1>14, <1>15, <1>16, <1>17, <1>18, <1>19, <1>20, <1>29 DEF Stream, Operators
<1> QED
  BY <1>1, <1>28, <1>29 DEF Next, vars, operators

\* An operation that made a call has made one ever after.
LEMMA MadeGrows ==
  ASSUME KindsKept, NEW p \in Callers
  PROVE  Made(p) # {} => Made(p)' # {}
<1>1. \A k \in 1..MaxCalls : <<p, k>> \in Xfer BY CallIds
<1> QED BY <1>1 DEF Made, KindsKept

\* An operation that moves leaves the others where they are, or wakes them.
LEMMA ControlKept ==
  ASSUME TInv, TypeOK', KindsKept, NEW p \in Op,
         \A q \in Op \ {p} : pc'[q] \in {pc[q], "woken"},
         \A q \in Optimizer \ {p} : batches'[q] = batches[q] /\ step'[q] = step[q],
         Placed(p)'
  PROVE  Control'
<1> SUFFICES ASSUME NEW q \in Op, q # p PROVE Placed(q)'
  BY DEF Control
<1>1. Placed(q) BY DEF TInv, Control
<1>2. q \in Callers => (Made(q) # {} => Made(q)' # {}) BY MadeGrows
<1>3. pc'[q] \in {pc[q], "woken"} OBVIOUS
<1>4. q \in Optimizer => batches'[q] = batches[q] /\ step'[q] = step[q] OBVIOUS
<1> QED BY <1>1, <1>2, <1>3, <1>4 DEF Placed, Callers

\* An operation is of one kind only.
LEMMA SendersDoNotOptimize == Sender \cap Optimizer = {} /\ Sweeper \cap Optimizer = {}
<1>1. DOMAIN <<Sender, Sweeper, Optimizer, Syncer, Refresher, Claimer, Depositor>> = 1..7 OBVIOUS
<1> QED BY <1>1, LeafManagerAssumption DEF Disjoint

\* Most moves lead an operation where its kind alone allows it to be.
Suits(p, there) ==
  /\ there \in {"next", "plan"} => p \in Optimizer
  /\ there \in {"swap", "landed", "renew", "exec", "quote"} => p \in Sender
  /\ there \notin {"swapping", "ssp", "claiming", "register", "creating", "verify", "verified"}

\* A move that suits the kind of the operation keeps Control.
LEMMA MoveControl ==
  ASSUME TInv, TypeOK', KindsKept, NEW p \in Op, NEW there,
         Goto(p, there) \/ NotifyAndGoto(p, there), Suits(p, there),
         batches' = batches \/ \E bs : batches' = [batches EXCEPT ![p] = bs],
         UNCHANGED step
  PROVE  Control'
<1>1. pc'[p] = there /\ \A q \in Op \ {p} : pc'[q] \in {pc[q], "woken"}
  BY DEF TInv, TypeOK, Goto, NotifyAndGoto
<1>2. \A q \in Optimizer \ {p} : batches'[q] = batches[q] /\ step'[q] = step[q]
  <2>1. \A q \in Optimizer : q \in DOMAIN batches BY DEF TInv, TypeOK, Callers
  <2> QED BY <2>1
<1>3. Placed(p)' BY <1>1, SendersDoNotOptimize DEF Suits, Placed
<1> QED BY <1>1, <1>2, <1>3, ControlKept

\* So does a failure.
LEMMA FailsControl ==
  ASSUME TInv, TypeOK', KindsKept, NEW p \in Callers, NEW stale, Fails(p, stale), UNCHANGED step
  PROVE  Control'
<1>1. \/ Goto(p, "resync") \/ Goto(p, "failed") \/ NotifyAndGoto(p, "failed")
  BY DEF Fails
<1>2. \E bs : batches' = [batches EXCEPT ![p] = bs] BY DEF Fails
<1> QED BY <1>1, <1>2, MoveControl DEF Suits, Op

\* The steps of selection keep Control.
LEMMA SelectControl ==
  ASSUME TInv, TypeOK', KindsKept, NEW p \in Op, Select(p)
  PROVE  Control'
<1>1. CASE SelectExact(p)
  <2>1. PICK bs : Capture(p, bs, "renew") BY <1>1 DEF SelectExact
  <2> QED BY <1>1, <2>1, MoveControl DEF SelectExact, Capture, Suits
<1>2. CASE SelectForSwap(p)
  <2>1. PICK sel : Capture(p, <<sel>>, "swap") BY <1>2 DEF SelectForSwap
  <2> QED BY <1>2, <2>1, MoveControl DEF SelectForSwap, Capture, Suits
<1>3. CASE NotEnoughLeaves(p)
  BY <1>3, ControlKept
     DEF NotEnoughLeaves, TInv, Control, Placed, TypeOK, At, Goto, NotifyAndGoto, flags,
         fetching, operators
<1>4. CASE SweepSelect(p)
  <2>1. Capture(p, <<Available(cache)>>, "renew") BY <1>4 DEF SweepSelect
  <2>2. pc'[p] = "renew" /\ \A q \in Op \ {p} : pc'[q] = pc[q] BY <2>1 DEF Capture, Goto, TInv, TypeOK
  <2>3. \A q \in Optimizer \ {p} : batches'[q] = batches[q] /\ step'[q] = step[q]
    <3>1. \A q \in Optimizer : q \in DOMAIN batches BY DEF TInv, TypeOK, Callers
    <3> QED BY <1>4, <2>1, <3>1 DEF SweepSelect, Capture
  <2>4. Placed(p)' BY <1>4, <2>2, SendersDoNotOptimize DEF SweepSelect, Placed
  <2> QED BY <2>2, <2>3, <2>4, ControlKept
<1> QED BY <1>1, <1>2, <1>3, <1>4 DEF Select

\* The steps of a swap keep Control.
LEMMA SwapControl ==
  ASSUME TInv, TypeOK', KindsKept, NEW p \in Op, Swap(p)
  PROVE  Control'
<1>1. CASE SwapSend(p)
  <2> DEFINE n == Cardinality(Made(p))
  <2>1. p \in Callers /\ p \in Sender \cup Optimizer
    BY <1>1 DEF SwapSend, TInv, Control, Placed, At, Callers
  <2>2. n \in 0..MaxCalls /\ n + 1 <= MaxCalls BY <1>1, <2>1, CallIds DEF SwapSend, Calls
  <2>3. n + 1 \in 1..MaxCalls /\ <<p, n + 1>> \in Xfer BY <2>1, <2>2, CallIds, LeafManagerAssumption
  <2>4. xfer'[<<p, n + 1>>].kind = "swap" BY <1>1, <2>3 DEF SwapSend, Calls, NewTransfer
  <2>5. Made(p)' # {} BY <2>3, <2>4 DEF Made
  <2>6. pc'[p] = "swapping" /\ \A q \in Op \ {p} : pc'[q] = pc[q]
    BY <1>1 DEF SwapSend, Goto, TInv, TypeOK
  <2>7. UNCHANGED <<batches, step>> BY <1>1 DEF SwapSend
  <2>8. Placed(p)' BY <2>1, <2>5, <2>6 DEF Placed
  <2> QED BY <2>6, <2>7, <2>8, ControlKept
<1>2. CASE SwapInitiated(p)
  <2>1. p \in Callers /\ p \in Sender \cup Optimizer /\ Made(p) # {}
    BY <1>2 DEF SwapInitiated, TInv, Control, Placed, At, Callers
  <2>2. Made(p)' # {} BY <2>1, MadeGrows
  <2>3. pc'[p] = "ssp" /\ \A q \in Op \ {p} : pc'[q] = pc[q]
    BY <1>2 DEF SwapInitiated, Goto, TInv, TypeOK
  <2>4. UNCHANGED <<batches, step>> BY <1>2 DEF SwapInitiated
  <2>5. Placed(p)' BY <2>1, <2>2, <2>3 DEF Placed
  <2> QED BY <2>3, <2>4, <2>5, ControlKept
<1>3. CASE SwapCallFails(p)
  BY <1>3, FailsControl DEF SwapCallFails, TInv, Control, Placed, At, Callers
<1>4. CASE SwapClaims(p)
  BY <1>4, ControlKept
     DEF SwapClaims, TInv, Control, Placed, TypeOK, At, Goto, NotifyAndGoto, flags, fetching,
         operators
<1>5. CASE SwapFailsAtSsp(p)
  BY <1>5, FailsControl DEF SwapFailsAtSsp, TInv, Control, Placed, At, Callers
<1>6. CASE SwapSelected(p)
  <2>1. \/ Goto(p, "renew") \/ Goto(p, "failed") BY <1>6 DEF SwapSelected
  <2>2. \E bs : batches' = [batches EXCEPT ![p] = bs] BY <1>6 DEF SwapSelected
  <2> QED BY <1>6, <2>1, <2>2, MoveControl DEF SwapSelected, Suits
<1>7. CASE SwapOptimized(p)
  BY <1>7, ControlKept
     DEF SwapOptimized, TInv, Control, Placed, TypeOK, At, Goto, NotifyAndGoto, flags,
         fetching, operators
<1> QED BY <1>1, <1>2, <1>3, <1>4, <1>5, <1>6, <1>7 DEF Swap

\* The steps of the optimizer keep Control.
LEMMA OptimizeControl ==
  ASSUME TInv, TypeOK', KindsKept, NEW p \in Op, Optimize(p)
  PROVE  Control'
<1>1. CASE OptimizeStart(p)
  BY <1>1, ControlKept
     DEF OptimizeStart, TInv, Control, Placed, TypeOK, At, Goto, NotifyAndGoto, flags,
         fetching, operators
<1>2. CASE OptimizePlan(p)
  <2>1. PICK plan : Capture(p, plan, "next") BY <1>2 DEF OptimizePlan
  <2>2. p \in Optimizer BY <1>2 DEF OptimizePlan, TInv, Control, Placed, At
  <2> QED BY <1>2, <2>1, <2>2, MoveControl DEF OptimizePlan, Capture, Suits
<1>3. CASE OptimizeSkip(p)
  <2>1. Goto(p, "done") \/ NotifyAndGoto(p, "done") BY <1>3 DEF OptimizeSkip
  <2>2. UNCHANGED <<batches, step>> BY <1>3 DEF OptimizeSkip
  <2> QED BY <2>1, <2>2, MoveControl DEF Suits
<1>4. CASE OptimizeNext(p)
  <2>1. p \in Optimizer BY <1>4 DEF OptimizeNext, TInv, Control, Placed, At
  <2>2. /\ pc'[p] = "swap" /\ \A q \in Op \ {p} : pc'[q] = pc[q]
        /\ step'[p] = step[p] + 1 /\ \A q \in Optimizer \ {p} : step'[q] = step[q]
    BY <1>4, <2>1 DEF OptimizeNext, Goto, TInv, TypeOK
  <2>3. step'[p] \in DOMAIN batches[p]
    <3>1. batches[p] \in Seq(SUBSET Leaf) /\ step[p] \in Nat BY <2>1 DEF TInv, TypeOK, Callers
    <3>2. step[p] < Len(batches[p]) BY <1>4 DEF OptimizeNext
    <3> QED BY <2>2, <3>1, <3>2
  <2>4. UNCHANGED batches BY <1>4 DEF OptimizeNext
  <2>5. Placed(p)' BY <2>1, <2>2, <2>3, <2>4 DEF Placed
  <2> QED BY <2>2, <2>4, <2>5, ControlKept
<1>5. CASE OptimizeEnd(p)
  <2>1. NotifyAndGoto(p, "done") /\ UNCHANGED step BY <1>5 DEF OptimizeEnd
  <2>2. \E bs : batches' = [batches EXCEPT ![p] = bs] BY <1>5 DEF OptimizeEnd
  <2> QED BY <2>1, <2>2, MoveControl DEF Suits
<1> QED BY <1>1, <1>2, <1>3, <1>4, <1>5 DEF Optimize

\* The steps of renewal and the executor keep Control.
LEMMA ExecuteControl ==
  ASSUME TInv, TypeOK', KindsKept, NEW p \in Op, Execute(p)
  PROVE  Control'
<1>1. CASE ExecuteSender(p)
  BY <1>1, ControlKept
     DEF ExecuteSender, TInv, Control, Placed, TypeOK, At, Goto, NotifyAndGoto, flags,
         fetching, operators
<1>2. CASE ExecuteSweeper(p)
  <2>1. pc'[p] = "exec" /\ \A q \in Op \ {p} : pc'[q] = pc[q]
    BY <1>2 DEF ExecuteSweeper, Goto, TInv, TypeOK
  <2>2. \A q \in Optimizer \ {p} : batches'[q] = batches[q] /\ step'[q] = step[q]
    <3>1. \A q \in Optimizer : q \in DOMAIN batches BY DEF TInv, TypeOK, Callers
    <3> QED BY <1>2, <3>1 DEF ExecuteSweeper
  <2>3. Placed(p)' BY <1>2, <2>1, SendersDoNotOptimize DEF ExecuteSweeper, Placed
  <2> QED BY <2>1, <2>2, <2>3, ControlKept
<1>3. CASE RenewalThrows(p)
  BY <1>3, ControlKept
     DEF RenewalThrows, TInv, Control, Placed, TypeOK, At, Goto, NotifyAndGoto, flags,
         fetching, operators
<1>4. CASE ExecutorSent(p)
  BY <1>4, ControlKept
     DEF ExecutorSent, TInv, Control, Placed, TypeOK, At, Goto, NotifyAndGoto, flags, fetching,
         operators
<1>5. CASE ExecutorCallFails(p)
  <2>1. p \in Callers BY <1>5 DEF ExecutorCallFails, TInv, Control, Placed, At, Callers
  <2>2. UNCHANGED step /\ (UNCHANGED <<pc, batches>> \/ \E stale : Fails(p, stale))
    BY <1>5 DEF ExecutorCallFails
  <2>3. CASE UNCHANGED <<pc, batches>>
    BY <1>5, <2>2, <2>3, MadeGrows, ControlKept
       DEF ExecutorCallFails, TInv, Control, Placed, At, Callers
  <2>4. CASE \E stale : Fails(p, stale) BY <2>1, <2>2, <2>4, FailsControl
  <2> QED BY <2>2, <2>3, <2>4
<1>6. CASE ExecutorClaims(p)
  <2>1. p \in Callers /\ p \in Sender \cup Sweeper
    BY <1>6 DEF ExecutorClaims, TInv, Control, Placed, At, Callers
  <2>2. pc'[p] = "register" /\ \A q \in Op \ {p} : pc'[q] = pc[q]
    BY <1>6 DEF ExecutorClaims, Goto, TInv, TypeOK
  <2>3. Made(p)' # {}
    <3>1. PICK x \in CallsOf(p) : xfer[x].kind = "self" BY <1>6 DEF ExecutorClaims
    <3>2. PICK k \in 1..MaxCalls : x = <<p, k>> BY <3>1 DEF CallsOf
    <3>3. k \in Made(p) BY <3>1, <3>2 DEF Made
    <3> QED BY <2>1, <3>3, MadeGrows
  <2>4. UNCHANGED <<batches, step>> BY <1>6 DEF ExecutorClaims
  <2>5. Placed(p)' BY <2>1, <2>2, <2>3 DEF Placed
  <2> QED BY <2>2, <2>4, <2>5, ControlKept
<1>7. CASE QuoteReleases(p)
  BY <1>7, ControlKept
     DEF QuoteReleases, TInv, Control, Placed, TypeOK, At, Goto, NotifyAndGoto, flags,
         fetching, operators
<1>8. CASE ExecutorThrows(p)
  BY <1>8, FailsControl DEF ExecutorThrows, TInv, Control, Placed, At, Callers
<1>9. CASE ExecutorReturns(p)
  <2>1. Goto(p, "done") /\ UNCHANGED step BY <1>9 DEF ExecutorReturns
  <2>2. \E bs : batches' = [batches EXCEPT ![p] = bs] BY <1>9 DEF ExecutorReturns
  <2> QED BY <2>1, <2>2, MoveControl DEF Suits
<1> QED BY <1>1, <1>2, <1>3, <1>4, <1>5, <1>6, <1>7, <1>8, <1>9 DEF Execute

\* The steps of sync() and getBalance keep Control.
LEMMA FetchControl ==
  ASSUME TInv, TypeOK', KindsKept, NEW p \in Op, Fetch(p)
  PROVE  Control'
<1>1. CASE FetchStart(p)
  BY <1>1, ControlKept
     DEF FetchStart, TInv, Control, Placed, TypeOK, At, Goto, NotifyAndGoto, flags, fetching,
         operators
<1>2. CASE FetchAnswer(p)
  BY <1>2, ControlKept
     DEF FetchAnswer, TInv, Control, Placed, TypeOK, At, Goto, NotifyAndGoto, flags, fetching,
         operators
<1>3. CASE FetchFails(p)
  BY <1>3, ControlKept
     DEF FetchFails, TInv, Control, Placed, TypeOK, At, Goto, NotifyAndGoto, flags, fetching,
         operators
<1>4. CASE SyncApply(p)
  BY <1>4, ControlKept
     DEF SyncApply, TInv, Control, Placed, TypeOK, At, Goto, NotifyAndGoto, flags, fetching,
         operators
<1>5. CASE RefreshAdd(p)
  BY <1>5, ControlKept
     DEF RefreshAdd, TInv, Control, Placed, TypeOK, At, Goto, NotifyAndGoto, flags, fetching,
         operators
<1>6. CASE RefreshEvict(p)
  BY <1>6, ControlKept
     DEF RefreshEvict, TInv, Control, Placed, TypeOK, At, Goto, NotifyAndGoto, flags, fetching,
         operators
<1> QED BY <1>1, <1>2, <1>3, <1>4, <1>5, <1>6 DEF Fetch

\* The steps of a claim keep Control.
LEMMA ClaimsControl ==
  ASSUME TInv, TypeOK', KindsKept, NEW p \in Op, Claims(p)
  PROVE  Control'
<1>1. CASE ClaimStart(p)
  BY <1>1, ControlKept
     DEF ClaimStart, TInv, Control, Placed, TypeOK, At, Goto, NotifyAndGoto, flags, fetching,
         operators
<1>2. CASE Claim(p)
  BY <1>2, ControlKept
     DEF Claim, TInv, Control, Placed, TypeOK, At, Goto, NotifyAndGoto, flags, fetching, operators
<1>3. CASE RegisterClaimed(p)
  BY <1>3, ControlKept
     DEF RegisterClaimed, TInv, Control, Placed, TypeOK, At, Goto, NotifyAndGoto, flags,
         fetching, operators
<1>4. CASE RegisterThrows(p)
  <2>1. UNCHANGED step BY <1>4 DEF RegisterThrows
  <2>2. CASE p \in Claimer
    BY <1>4, <2>1, <2>2, MoveControl DEF RegisterThrows, Suits
  <2>3. CASE p \notin Claimer
    BY <1>4, <2>1, <2>3, FailsControl DEF RegisterThrows, TInv, Control, Placed, At, Callers
  <2> QED BY <2>2, <2>3
<1> QED BY <1>1, <1>2, <1>3, <1>4 DEF Claims

\* The steps of a deposit event keep Control.
LEMMA HandleDepositControl ==
  ASSUME TInv, TypeOK', KindsKept, NEW p \in Op, HandleDeposit(p)
  PROVE  Control'
<1>1. CASE DepositCreating(p)
  BY <1>1, ControlKept
     DEF DepositCreating, TInv, Control, Placed, TypeOK, At, Goto, NotifyAndGoto, flags,
         fetching, operators
<1>2. CASE DepositAvailable(p)
  BY <1>2, ControlKept
     DEF DepositAvailable, TInv, Control, Placed, TypeOK, At, Goto, NotifyAndGoto, flags,
         fetching, operators
<1>3. CASE DepositVerify(p)
  BY <1>3, ControlKept
     DEF DepositVerify, TInv, Control, Placed, TypeOK, At, Goto, NotifyAndGoto, flags,
         fetching, operators
<1>4. CASE DepositAdd(p)
  BY <1>4, ControlKept
     DEF DepositAdd, TInv, Control, Placed, TypeOK, At, Goto, NotifyAndGoto, flags, fetching,
         operators
<1> QED BY <1>1, <1>2, <1>3, <1>4 DEF HandleDeposit

\* The steps of the waits and the balance check keep Control.
LEMMA WaitControl ==
  ASSUME TInv, TypeOK', KindsKept, NEW p \in Op, WaitOrProceed(p) \/ WaitTimesOut(p) \/ CheckBalance(p)
  PROVE  Control'
<1>1. CASE WaitOrProceed(p)
  BY <1>1, ControlKept
     DEF WaitOrProceed, TInv, Control, Placed, TypeOK, At, Goto, NotifyAndGoto, flags,
         fetching, operators
<1>2. CASE WaitTimesOut(p)
  BY <1>2, ControlKept
     DEF WaitTimesOut, TInv, Control, Placed, TypeOK, At, Goto, NotifyAndGoto, flags, fetching,
         operators
<1>3. CASE CheckBalance(p)
  BY <1>3, ControlKept
     DEF CheckBalance, TInv, Control, Placed, TypeOK, At, Goto, NotifyAndGoto, flags, fetching,
         operators
<1> QED BY <1>1, <1>2, <1>3

\* Every step keeps Control.
LEMMA ControlStep ==
  ASSUME TInv, TypeOK', [Next]_vars
  PROVE  Control'
<1>1. KindsKept BY KindsStep
<1>2. CASE UNCHANGED vars
  BY <1>2 DEF TInv, Control, Placed, Made, vars, operators
<1>3. ASSUME NEW x \in Xfer, Stream(x) \/ Operators(x) PROVE Control'
  <2>1. UNCHANGED <<pc, batches, step>>
    BY <1>3 DEF Stream, Operators, Hear, Miss, SoAnswers, SoTweaks, SspSwaps, SoReturns,
                DepositConfirmed, OtherInstanceSends
  <2> QED BY <1>1, <2>1, MadeGrows DEF TInv, Control, Placed, Callers
<1> QED BY <1>1, <1>2, <1>3, WaitControl, SelectControl, SwapControl, OptimizeControl, ExecuteControl,
           FetchControl, ClaimsControl, HandleDepositControl DEF Next, Step

\* The initial state is of the right type.
LEMMA InitType == Init => TInv
<1> SUFFICES ASSUME Init PROVE TInv OBVIOUS
<1> USE DEF Init
<1>1. cache \in Cache
  <2>1. EmptyCache \in Cache BY SourceType DEF EmptyCache, Cache
  <2> QED BY <2>1, SyncedKeepsLocked
<1>2. pc \in [Op -> PC] /\ step \in [Optimizer -> Nat] /\ unread \in [Op -> SUBSET Query]
  BY DEF PC
<1>3. batches \in [Callers -> Seq(SUBSET Leaf)] OBVIOUS
<1>4. snap \in [Op -> Snapshot] BY DEF NoSnapshot, Snapshot
<1>5. so \in [Leaf -> LeafState] BY DEF LeafState
<1>6. xfer \in [Xfer -> Transfer]
  <2>1. NoTransfer \in Transfer BY DEF NoTransfer, NewTransfer, Transfer
  <2>2. ASSUME NEW x \in Incoming \cup Deposits
        PROVE  /\ NewTransfer("incoming", InLeaves[x], "tweaked", "none") \in Transfer
               /\ NewTransfer("deposit", InLeaves[x], "initiated", "none") \in Transfer
    BY LeafManagerAssumption DEF NewTransfer, Transfer
  <2> QED BY <2>1, <2>2
<1>7. optimizing \in BOOLEAN /\ lockedIds \subseteq Leaf /\ hasSynced \in BOOLEAN /\ retried \subseteq Sender
  BY LeafManagerAssumption
<1>8. Control BY DEF Control, Placed, Op
<1> QED BY <1>1, <1>2, <1>3, <1>4, <1>5, <1>6, <1>7, <1>8 DEF TInv, TypeOK

\* TInv is inductive.
LEMMA TypeInvariance == Spec => []TInv
<1>1. TInv /\ [Next]_vars => TInv'
  BY TypeStep, ControlStep DEF TInv
<1> QED BY <1>1, InitType, PTL DEF Spec

(***************************************************************************)
(* Every variable keeps its type, whatever the operations, the operators   *)
(* and the event stream of leaf-manager.ts do.                             *)
(***************************************************************************)
THEOREM TypeCorrect == Spec => []TypeOK
BY TypeInvariance, PTL DEF TInv

-----------------------------------------------------------------------------
(***************************************************************************)
(* Five results for every value of the constants.  LeafManager implements  *)
(* LeafLifecycle, and a sync respects locks: nearly every step eases the   *)
(* cache, that is it moves each leaf as its lifecycle allows and locks     *)
(* none; the others are the captures, the end of a Sender's swap, and the  *)
(* syncs.  No lock outlives its operation, when the query of               *)
(* checkRenewLeaves does not fail before the try block that would release  *)
(* the leaves ("renewThrows").  One optimization at a time, with no waiter *)
(* left without one.  And a sync whose answers are still true repairs the  *)
(* cache, and any sync is right about the leaves that did not move: a leaf *)
(* is bound by one transfer at most, and so the answers agree.             *)
(***************************************************************************)

Captures(p) == SelectExact(p) \/ SelectForSwap(p) \/ SweepSelect(p) \/ OptimizePlan(p)

\* A cache that stays as it is eases.
LEMMA EasesReflexive ==
  ASSUME NEW c \in Cache
  PROVE  Eases(c, c)
BY DEF Eases, Follows

\* The update that ends a swap locks nothing, and none of the leaves given.
LEMMA SwapAppliedEases ==
  ASSUME TypeOK, NEW p
  PROVE  /\ Eases(cache, SwapApplied(p))
         /\ Locked(SwapApplied(p)) \cap SwapLeaves(p) = {}
<1> DEFINE given == transition(cache, SwapLeaves(p), "SPENT")
           new == xfer[LastCall(p)].new
<1>1. Eases(cache, given) /\ Locked(given) \cap SwapLeaves(p) = {}
  BY TransitionEases DEF TypeOK
<1>2. given \in Cache BY <1>1 DEF Eases
<1>3. Eases(given, Registered(given, new, NoSource))
  BY <1>2, SourceType, RegisteredEases
<1>4. \A l \in Leaf : \/ Registered(given, new, NoSource)[l].status = given[l].status
                      \/ Registered(given, new, NoSource)[l].status = "AVAILABLE"
  BY DEF Registered
<1>5. Follows(cache, Registered(given, new, NoSource))
  <2>1. Follows(cache, given) BY <1>1 DEF Eases
  <2>2. \A l \in Leaf : cache[l].status \in LeafStatus \cup {"NONE"} BY DEF TypeOK, Cache, LeafRecord
  <2> HIDE DEF given
  <2> QED BY <1>4, <2>1, <2>2 DEF Follows, LeafStatus, Lifecycle!MayFollow
<1>6. SwapApplied(p) = Registered(given, new, NoSource) BY DEF SwapApplied
<1> HIDE DEF given, new
<1> QED BY <1>1, <1>3, <1>5, <1>6 DEF Eases

\* A failure gives back what the operation holds.
LEMMA FailsEases ==
  ASSUME TypeOK, NEW p, NEW stale, Fails(p, stale)
  PROVE  Eases(cache, cache') /\ Locked(cache') \cap Holds(p) = {}
BY RestoredEases DEF Fails, TypeOK

\* The steps of a swap that ease.
LEMMA SwapEases ==
  ASSUME TInv, NEW p \in Op, Swap(p), ~SwapSelected(p)
  PROVE  Eases(cache, cache')
<1> USE DEF TInv, TypeOK
<1>1. CASE SwapSend(p)
  <2>1. p \in Callers /\ Cardinality(Made(p)) + 1 \in 1..MaxCalls
    <3>1. p \in Callers BY <1>1 DEF SwapSend, At, Control, Placed, Callers
    <3>2. Cardinality(Made(p)) + 1 <= MaxCalls
      <4>1. Len(<<SwapLeaves(p)>>) = 1 OBVIOUS
      <4> QED BY <1>1, <4>1 DEF SwapSend, Calls
    <3>3. Cardinality(Made(p)) \in Nat BY <3>1, CallIds, LeafManagerAssumption
    <3> QED BY <3>1, <3>2, <3>3, LeafManagerAssumption
  <2>2. <<p, Cardinality(Made(p)) + 1>> \in Xfer BY <2>1, CallIds
  <2>3. SwapSource(<<p, Cardinality(Made(p)) + 1>>) \in Source BY <2>2, SourceType
  <2> QED BY <1>1, <2>3, SourceUpdatedEases DEF SwapSend
<1>2. CASE SwapInitiated(p)
  BY <1>2, TransitionEases DEF SwapInitiated
<1>3. CASE SwapCallFails(p)
  BY <1>3, FailsEases DEF SwapCallFails
<1>4. CASE SwapClaims(p)
  BY <1>4, EasesReflexive DEF SwapClaims
<1>5. CASE SwapFailsAtSsp(p)
  BY <1>5, FailsEases DEF SwapFailsAtSsp
<1>6. CASE SwapOptimized(p)
  BY <1>6, SwapAppliedEases DEF SwapOptimized
<1> QED BY <1>1, <1>2, <1>3, <1>4, <1>5, <1>6 DEF Swap

\* The steps of the executor ease.
LEMMA ExecuteEases ==
  ASSUME TInv, NEW p \in Op, Execute(p)
  PROVE  Eases(cache, cache')
<1> USE DEF TInv, TypeOK
<1>1. CASE ExecuteSender(p) \/ RenewalThrows(p) \/ ExecutorClaims(p)
  BY <1>1, EasesReflexive DEF ExecuteSender, RenewalThrows, ExecutorClaims
<1>2. CASE ExecuteSweeper(p) \/ QuoteReleases(p)
  <2>1. \E S : cache' = Restored(cache, S) BY <1>2 DEF ExecuteSweeper, QuoteReleases
  <2> QED BY <2>1, RestoredEases
<1>3. CASE ExecutorSent(p)
  <2>1. PICK x \in CallsOf(p) :
          \E status : cache' = TransferEvent(cache, xfer[x].leaves, x, FALSE, status)
    BY <1>3 DEF ExecutorSent
  <2>2. x \in Xfer BY <1>3, CallsOfType DEF ExecutorSent
  <2> QED BY <2>1, <2>2, TransferEventEases
<1>4. CASE ExecutorCallFails(p)
  <2>1. \/ \E S : cache' = Restored(cache, S)
        \/ \E stale : Fails(p, stale)
    BY <1>4 DEF ExecutorCallFails
  <2> QED BY <2>1, RestoredEases, FailsEases
<1>5. CASE ExecutorThrows(p)
  BY <1>5, FailsEases DEF ExecutorThrows
<1>6. CASE ExecutorReturns(p)
  BY <1>6, MarkedOutgoingEases DEF ExecutorReturns
<1> QED BY <1>1, <1>2, <1>3, <1>4, <1>5, <1>6 DEF Execute

\* A claim that is registered is one of a transfer.
LEMMA RegisteredTransfer ==
  ASSUME TInv, NEW p \in Op, At(p, "register")
  PROVE  /\ p \in Claimer => ClaimOf[p] \in Xfer
         /\ p \notin Claimer => p \in Callers /\ LastCall(p) \in Xfer
<1>1. p \in Claimer => ClaimOf[p] \in Xfer BY LeafManagerAssumption
<1>2. p \notin Claimer => p \in Callers /\ Made(p) # {} BY DEF TInv, Control, Placed, At, Callers
<1> QED BY <1>1, <1>2, CallIds

\* So do the steps of claims.
LEMMA ClaimsEases ==
  ASSUME TInv, NEW p \in Op, Claims(p)
  PROVE  Eases(cache, cache')
<1> USE DEF TInv, TypeOK
<1>1. CASE ClaimStart(p)
  <2>1. ClaimOf[p] \in Xfer BY <1>1, LeafManagerAssumption DEF ClaimStart
  <2>2. \/ cache' = IncomingAdded(cache, xfer[ClaimOf[p]].leaves, ClaimOf[p])
        \/ UNCHANGED cache
    BY <1>1 DEF ClaimStart
  <2> QED BY <2>1, <2>2, IncomingAddedEases, EasesReflexive
<1>2. CASE Claim(p)
  BY <1>2, EasesReflexive DEF Claim
<1>3. CASE RegisterClaimed(p)
  <2>1. PICK x \in {ClaimOf[p], LastCall(p)} :
          /\ x = IF p \in Claimer THEN ClaimOf[p] ELSE LastCall(p)
          /\ \E kept : cache' = Registered(cache, kept, TransferSource(x))
    BY <1>3 DEF RegisterClaimed
  <2>2. x \in Xfer BY <1>3, <2>1, RegisteredTransfer DEF RegisterClaimed
  <2>3. TransferSource(x) \in Source BY <2>2, SourceType
  <2> QED BY <2>1, <2>3, RegisteredEases
<1>4. CASE RegisterThrows(p)
  BY <1>4, EasesReflexive, FailsEases DEF RegisterThrows
<1> QED BY <1>1, <1>2, <1>3, <1>4 DEF Claims

\* And those of deposits, of the stream and of getBalance.
LEMMA OthersEase ==
  ASSUME TInv
  PROVE  /\ \A p \in Op : (Fetch(p) /\ ~SyncApply(p)) \/ HandleDeposit(p) => Eases(cache, cache')
         /\ \A x \in Xfer : Stream(x) \/ Operators(x) => Eases(cache, cache')
<1> USE DEF TInv, TypeOK
<1>1. ASSUME NEW p \in Op, Fetch(p), ~SyncApply(p) PROVE Eases(cache, cache')
  <2>1. CASE FetchStart(p) \/ FetchAnswer(p) \/ FetchFails(p)
    BY <2>1, EasesReflexive DEF FetchStart, FetchAnswer, FetchFails
  <2>2. CASE RefreshAdd(p)
    BY <2>2, LeavesAddedEases DEF RefreshAdd
  <2>3. CASE RefreshEvict(p)
    BY <2>3, StaleEvictedEases DEF RefreshEvict
  <2> QED BY <1>1, <2>1, <2>2, <2>3 DEF Fetch
<1>2. ASSUME NEW p \in Op, HandleDeposit(p) PROVE Eases(cache, cache')
  <2>1. CASE DepositCreating(p)
    BY <2>1, DepositPutEases DEF DepositCreating, DepositSeen
  <2>2. CASE DepositAvailable(p)
    <3>1. \/ \E l : cache' = transition(cache, {l}, "AVAILABLE")
          \/ \E l : cache' = DepositAdded(cache, {l})
          \/ UNCHANGED cache
      BY <2>2 DEF DepositAvailable
    <3>2. CASE \E l : cache' = transition(cache, {l}, "AVAILABLE") BY <3>2, TransitionEases
    <3>3. CASE \E l : cache' = DepositAdded(cache, {l}) BY <3>3, DepositPutEases DEF DepositAdded
    <3>4. CASE UNCHANGED cache BY <3>4, EasesReflexive
    <3> QED BY <3>1, <3>2, <3>3, <3>4
  <2>3. CASE DepositVerify(p)
    BY <2>3, EasesReflexive DEF DepositVerify
  <2>4. CASE DepositAdd(p)
    BY <2>4, DepositPutEases DEF DepositAdd, DepositAdded
  <2> QED BY <1>2, <2>1, <2>2, <2>3, <2>4 DEF HandleDeposit
<1>3. ASSUME NEW x \in Xfer, Stream(x) PROVE Eases(cache, cache')
  <2>1. CASE Hear(x)
    BY <2>1, TransferEventEases DEF Hear
  <2>2. CASE Miss(x)
    BY <2>2, EasesReflexive DEF Miss
  <2> QED BY <1>3, <2>1, <2>2 DEF Stream
<1>4. ASSUME NEW x \in Xfer, Operators(x) PROVE Eases(cache, cache')
  BY <1>4, EasesReflexive
     DEF Operators, SoAnswers, SoTweaks, SspSwaps, SoReturns, DepositConfirmed, OtherInstanceSends
<1> QED BY <1>1, <1>2, <1>3, <1>4

\* Every step eases, captures, ends the swap of a Sender, or applies a sync.
LEMMA StepEases ==
  ASSUME TInv, [Next]_vars,
         \A p \in Op : ~Captures(p) /\ ~SwapSelected(p) /\ ~SyncApply(p)
  PROVE  Eases(cache, cache')
<1> USE DEF TInv, TypeOK
<1>1. CASE UNCHANGED vars
  BY <1>1, EasesReflexive DEF vars
<1>2. ASSUME NEW p \in Op, WaitOrProceed(p) \/ WaitTimesOut(p) \/ CheckBalance(p)
      PROVE  Eases(cache, cache')
  BY <1>2, EasesReflexive DEF WaitOrProceed, WaitTimesOut, CheckBalance
<1>3. ASSUME NEW p \in Op, Select(p) PROVE Eases(cache, cache')
  <2>1. NotEnoughLeaves(p) BY <1>3 DEF Select, Captures
  <2> QED BY <2>1, EasesReflexive DEF NotEnoughLeaves
<1>4. ASSUME NEW p \in Op, Optimize(p) PROVE Eases(cache, cache')
  <2>1. \/ UNCHANGED cache
        \/ cache' = Restored(cache, Holds(p))
    BY <1>4 DEF Optimize, Captures, OptimizeStart, OptimizeSkip, OptimizeNext, OptimizeEnd
  <2> QED BY <2>1, EasesReflexive, RestoredEases
<1> QED BY <1>1, <1>2, <1>3, <1>4, SwapEases, ExecuteEases, ClaimsEases, OthersEase DEF Next, Step

\* A capture moves each leaf as its lifecycle allows.
LEMMA CapturesFollow ==
  ASSUME TInv, NEW p \in Op, Captures(p)
  PROVE  cache' \in Cache /\ Follows(cache, cache')
<1>1. \E S : cache' = transition(cache, S, "LOCAL_LOCKED")
  BY DEF Captures, SelectExact, SelectForSwap, SweepSelect, OptimizePlan, Capture
<1> QED BY <1>1, LockingFollows DEF TInv, TypeOK

\* What the end of a Sender's swap does to the cache.
LEMMA SwapSelectedLands ==
  ASSUME TInv, NEW p \in Op, SwapSelected(p)
  PROVE  /\ cache' \in Cache
         /\ \A l \in Leaf : \/ cache'[l].status = cache[l].status
                            \/ Lifecycle!MayFollow(cache[l].status, cache'[l].status)
                            \/ cache'[l].status = "LOCAL_LOCKED"
<1>1. Eases(cache, SwapApplied(p)) BY SwapAppliedEases DEF TInv
<1>2. \/ \E S : cache' = transition(SwapApplied(p), S, "LOCAL_LOCKED")
      \/ cache' = SwapApplied(p)
  BY DEF SwapSelected
<1>3. CASE cache' = SwapApplied(p) BY <1>1, <1>3 DEF Eases, Follows
<1>4. CASE \E S : cache' = transition(SwapApplied(p), S, "LOCAL_LOCKED")
  <2>1. PICK S : cache' = transition(SwapApplied(p), S, "LOCAL_LOCKED") BY <1>4
  <2>2. SwapApplied(p) \in Cache BY <1>1 DEF Eases
  <2>3. cache' \in Cache BY <2>1, <2>2, LockingFollows
  <2>4. \A l \in Leaf : \/ cache'[l].status = SwapApplied(p)[l].status
                        \/ cache'[l].status = "LOCAL_LOCKED"
    BY <2>1 DEF transition, Moved
  <2> QED BY <1>1, <2>3, <2>4 DEF Eases, Follows
<1> QED BY <1>2, <1>3, <1>4

\* What a sync does to the cache.
LEMMA SyncApplyKeepsLocked ==
  ASSUME TInv, NEW p, SyncApply(p)
  PROVE  cache' \in Cache /\ Locked(cache') = Locked(cache) /\ \A l \in Locked(cache) : cache'[l] = cache[l]
BY SyncedKeepsLocked DEF TInv, TypeOK, SyncApply, SyncedWith
-----------------------------------------------------------------------------
\* The statuses of a cache are those of LeafLifecycle.
LEMMA StatusType ==
  ASSUME NEW c \in Cache
  PROVE  [l \in Leaf |-> c[l].status] \in [Leaf -> Lifecycle!Status]
BY DEF Cache, LeafRecord, LeafStatus, Lifecycle!Status

\* A wallet starts with no leaf locked or in flight.
LEMMA InitLifecycle == Init => Lifecycle!Init
<1>0. Init => Ready = {} /\ Landed = {}
  BY DEF Init, Ready, Landed, Op, Callers
<1> SUFFICES ASSUME Init PROVE \A l \in Leaf : cache[l].status \in {"NONE", "AVAILABLE", "INCOMING"}
  BY <1>0 DEF Lifecycle!Init
<1>1. CASE ~StartsSynced BY <1>1 DEF Init, EmptyCache, NoRecord
<1>2. CASE StartsSynced
  BY <1>2 DEF Init, Synced, EmptyCache, NoRecord, SYNC_PRESERVED_STATUSES
<1> QED BY <1>1, <1>2

\* A move that neither starts nor ends at an await LeafLifecycle sees.
LEMMA MoveUnseen ==
  ASSUME TInv, NEW p \in Op, NEW there, Goto(p, there) \/ NotifyAndGoto(p, there),
         p \in Sender => there # "landed" /\ pc[p] # "landed",
         p \in Syncing => there # "fetched" /\ pc[p] # "fetched"
  PROVE  UNCHANGED <<Ready, Landed>>
<1>1. pc'[p] = there /\ \A q \in Op \ {p} : pc'[q] = pc[q] \/ (pc[q] = "waiting" /\ pc'[q] = "woken")
  BY DEF TInv, TypeOK, Goto, NotifyAndGoto
<1>2. \A q \in Syncing : q \in Op BY DEF Op, Callers
<1>3. Ready' = Ready BY <1>1, <1>2 DEF Ready
<1>4. Landed' = Landed BY <1>1, <1>2 DEF Landed
<1> QED BY <1>3, <1>4

\* A failure is such a move.
LEMMA FailsUnseen ==
  ASSUME TInv, NEW p \in Callers, NEW stale, Fails(p, stale), pc[p] \notin {"landed", "fetched"}
  PROVE  UNCHANGED <<Ready, Landed>>
<1>1. Goto(p, "resync") \/ Goto(p, "failed") \/ NotifyAndGoto(p, "failed") BY DEF Fails
<1> QED BY <1>1, MoveUnseen DEF Op

\* The steps of the operations but for swaps and queries.
LEMMA MostUnseen ==
  ASSUME TInv, NEW p \in Op,
         \/ WaitOrProceed(p) \/ WaitTimesOut(p) \/ CheckBalance(p)
         \/ Select(p) \/ Optimize(p) \/ Execute(p) \/ Claims(p) \/ HandleDeposit(p)
  PROVE  UNCHANGED <<Ready, Landed>>
<1> USE MoveUnseen DEF At
<1>1. CASE WaitOrProceed(p) \/ WaitTimesOut(p) \/ CheckBalance(p)
  <2>1. pc[p] \in {"idle", "woken", "waiting", "check", "recheck"}
    BY <1>1 DEF WaitOrProceed, WaitTimesOut, CheckBalance
  <2>2. Goto(p, "waiting") \/ Goto(p, "check") \/ Goto(p, "select") \/ Goto(p, "failed")
    BY <1>1 DEF WaitOrProceed, WaitTimesOut, CheckBalance
  <2> QED BY <2>1, <2>2
<1>2. CASE Select(p)
  <2>1. pc[p] = "select" /\ (Goto(p, "renew") \/ Goto(p, "swap") \/ Goto(p, "failed"))
    BY <1>2 DEF Select, SelectExact, SelectForSwap, NotEnoughLeaves, SweepSelect, Capture
  <2> QED BY <2>1
<1>3. CASE Optimize(p)
  <2>1. pc[p] \in {"idle", "plan", "next"}
    BY <1>3 DEF Optimize, OptimizeStart, OptimizePlan, OptimizeSkip, OptimizeNext, OptimizeEnd
  <2>2. Goto(p, "done") \/ NotifyAndGoto(p, "done") \/ Goto(p, "plan") \/ Goto(p, "next") \/ Goto(p, "swap")
    BY <1>3 DEF Optimize, OptimizeStart, OptimizePlan, OptimizeSkip, OptimizeNext, OptimizeEnd, Capture
  <2> QED BY <2>1, <2>2
<1>4. CASE Execute(p)
  <2>1. p \in Callers /\ pc[p] \in {"renew", "exec", "quote"}
    BY <1>4 DEF Execute, ExecuteSender, ExecuteSweeper, RenewalThrows, ExecutorSent, ExecutorCallFails,
                ExecutorClaims, QuoteReleases, ExecutorThrows, ExecutorReturns, TInv, Control, Placed, Callers
  <2>2. CASE UNCHANGED pc BY <2>2 DEF Ready, Landed
  <2>3. CASE \E stale : Fails(p, stale) BY <2>1, <2>3, FailsUnseen
  <2>4. \/ UNCHANGED pc \/ \E stale : Fails(p, stale)
        \/ Goto(p, "quote") \/ Goto(p, "exec") \/ Goto(p, "stranded") \/ Goto(p, "register") \/ Goto(p, "done")
    BY <1>4 DEF Execute, ExecuteSender, ExecuteSweeper, RenewalThrows, ExecutorSent, ExecutorCallFails,
                ExecutorClaims, QuoteReleases, ExecutorThrows, ExecutorReturns
  <2> QED BY <2>1, <2>2, <2>3, <2>4
<1>5. CASE Claims(p)
  <2>1. pc[p] \in {"idle", "claiming", "register"}
    BY <1>5 DEF Claims, ClaimStart, Claim, RegisterClaimed, RegisterThrows
  <2>2. \/ p \notin Claimer /\ pc[p] = "register" /\ \E stale : Fails(p, stale)
        \/ Goto(p, "claiming") \/ Goto(p, "register") \/ Goto(p, "done") \/ Goto(p, "exec") \/ Goto(p, "failed")
    BY <1>5 DEF Claims, ClaimStart, Claim, RegisterClaimed, RegisterThrows
  <2>3. CASE p \notin Claimer /\ pc[p] = "register" /\ \E stale : Fails(p, stale)
    BY <2>3, FailsUnseen, RegisteredTransfer
  <2> QED BY <2>1, <2>2, <2>3
<1>6. CASE HandleDeposit(p)
  <2>1. pc[p] \in {"idle", "creating", "verify", "verified"}
    BY <1>6 DEF HandleDeposit, DepositCreating, DepositAvailable, DepositVerify, DepositAdd
  <2>2. Goto(p, "creating") \/ Goto(p, "verify") \/ Goto(p, "verified") \/ Goto(p, "done")
    BY <1>6 DEF HandleDeposit, DepositCreating, DepositAvailable, DepositVerify, DepositAdd
  <2> QED BY <2>1, <2>2
<1> QED BY <1>1, <1>2, <1>3, <1>4, <1>5, <1>6

\* A swap is seen when its leaves arrive and when it ends.
LEMMA SwapSeen ==
  ASSUME TInv, NEW p \in Op, Swap(p), ~SwapSelected(p)
  PROVE  \/ UNCHANGED <<Ready, Landed>>
         \/ UNCHANGED <<Ready, cache>> /\ Landed' = Landed \cup {p}
<1> USE DEF At
<1>1. p \in Callers
  BY DEF Swap, SwapSend, SwapInitiated, SwapCallFails, SwapClaims, SwapFailsAtSsp, SwapSelected,
         SwapOptimized, TInv, Control, Placed, Callers
<1>2. CASE SwapSend(p) \/ SwapInitiated(p)
  <2>1. pc[p] \in {"swap", "swapping"} /\ (Goto(p, "swapping") \/ Goto(p, "ssp"))
    BY <1>2 DEF SwapSend, SwapInitiated
  <2> QED BY <2>1, MoveUnseen
<1>3. CASE SwapCallFails(p) \/ SwapFailsAtSsp(p)
  <2>1. pc[p] \in {"swapping", "ssp"} /\ \E stale : Fails(p, stale)
    BY <1>3 DEF SwapCallFails, SwapFailsAtSsp
  <2> QED BY <1>1, <2>1, FailsUnseen
<1>4. CASE SwapClaims(p)
  <2>1. pc[p] = "ssp" /\ pc' = [pc EXCEPT ![p] = "landed"] /\ UNCHANGED cache
    BY <1>4 DEF SwapClaims, Goto
  <2>2. Ready' = Ready BY <2>1 DEF Ready, TInv, TypeOK
  <2>3. Landed' = Landed \/ Landed' = Landed \cup {p} BY <2>1 DEF Landed, TInv, TypeOK
  <2> QED BY <2>1, <2>2, <2>3
<1>5. CASE SwapOptimized(p)
  BY <1>5, MoveUnseen, SendersDoNotOptimize DEF SwapOptimized
<1> QED BY <1>2, <1>3, <1>4, <1>5 DEF Swap

\* A sync is seen when its answers are in and when it is applied; a refresh is
\* no sync.
LEMMA FetchSeen ==
  ASSUME TInv, NEW p \in Op, Fetch(p), ~SyncApply(p)
  PROVE  \/ UNCHANGED <<Ready, Landed>>
         \/ UNCHANGED <<Landed, cache>> /\ Ready' = Ready \cup {p}
<1> USE DEF At
<1>1. CASE FetchStart(p)
  <2>1. pc[p] \in {"idle", "resync"} /\ Goto(p, "fetch") BY <1>1 DEF FetchStart
  <2> QED BY <2>1, MoveUnseen
<1>2. CASE FetchAnswer(p)
  <2>1. \/ pc' = [pc EXCEPT ![p] = "fetch"]
        \/ pc' = [pc EXCEPT ![p] = "fetched"]
    BY <1>2 DEF FetchAnswer, Goto
  <2>2. pc[p] = "fetch" /\ UNCHANGED cache BY <1>2 DEF FetchAnswer
  <2>3. CASE pc' = [pc EXCEPT ![p] = "fetch"]
    BY <2>2, <2>3, MoveUnseen DEF Goto
  <2>4. CASE pc' = [pc EXCEPT ![p] = "fetched"]
    <3>1. Landed' = Landed BY <2>2, <2>4 DEF Landed, TInv, TypeOK
    <3>2. Ready' = Ready \/ Ready' = Ready \cup {p} BY <2>2, <2>4 DEF Ready, TInv, TypeOK
    <3> QED BY <2>2, <3>1, <3>2
  <2> QED BY <2>1, <2>3, <2>4
<1>3. CASE FetchFails(p)
  BY <1>3, MoveUnseen DEF FetchFails
<1>4. CASE RefreshAdd(p) \/ RefreshEvict(p)
  <2>1. p \in Refresher /\ (Goto(p, "added") \/ Goto(p, "done")) BY <1>4 DEF RefreshAdd, RefreshEvict
  <2>2. p \notin Syncing
    <3>1. DOMAIN <<Sender, Sweeper, Optimizer, Syncer, Refresher, Claimer, Depositor>> = 1..7 OBVIOUS
    <3> QED BY <2>1, <3>1, LeafManagerAssumption DEF Disjoint
  <2> QED BY <2>1, <2>2, MoveUnseen
<1> QED BY <1>1, <1>2, <1>3, <1>4 DEF Fetch

\* What LeafLifecycle sees of a step that is no end of a swap and no sync.
LEMMA StepSeen ==
  ASSUME TInv, [Next]_vars, \A p \in Op : ~SwapSelected(p) /\ ~SyncApply(p)
  PROVE  \/ UNCHANGED <<Ready, Landed>>
         \/ \E p \in Op : UNCHANGED <<Ready, cache>> /\ Landed' = Landed \cup {p}
         \/ \E p \in Op : UNCHANGED <<Landed, cache>> /\ Ready' = Ready \cup {p}
<1>1. CASE UNCHANGED vars
  BY <1>1 DEF vars, Ready, Landed
<1>2. ASSUME NEW x \in Xfer, Stream(x) \/ Operators(x) PROVE UNCHANGED <<Ready, Landed>>
  <2>1. UNCHANGED pc
    BY <1>2 DEF Stream, Operators, Hear, Miss, SoAnswers, SoTweaks, SspSwaps, SoReturns,
                DepositConfirmed, OtherInstanceSends
  <2> QED BY <2>1 DEF Ready, Landed
<1> QED BY <1>1, <1>2, MostUnseen, SwapSeen, FetchSeen DEF Next, Step

\* Each step of LeafManager is a step of LeafLifecycle, or leaves what it sees alone.
LEMMA StepLifecycle ==
  ASSUME TInv, TInv', [Next]_vars
  PROVE  Lifecycle!Next
<1>1. [l \in Leaf |-> cache'[l].status] \in [Leaf -> Lifecycle!Status]
  BY StatusType DEF TInv, TypeOK
<1>2. ASSUME NEW p \in Op, SwapSelected(p) PROVE Lifecycle!Land(p)
  <2>1. /\ p \in Sender /\ pc[p] = "landed"
        /\ pc' = [pc EXCEPT ![p] = "renew"] \/ pc' = [pc EXCEPT ![p] = "failed"]
    BY <1>2 DEF SwapSelected, At, Goto
  <2>2. Ready' = Ready /\ p \in Landed /\ Landed' = Landed \ {p}
    BY <2>1 DEF Ready, Landed, TInv, TypeOK, Op, Callers
  <2> QED BY <1>1, <1>2, <2>2, SwapSelectedLands DEF Lifecycle!Land
<1>3. ASSUME NEW p \in Op, SyncApply(p) PROVE Lifecycle!Resync(p)
  <2>1. /\ p \in Syncing /\ pc[p] = "fetched"
        /\ pc' = [pc EXCEPT ![p] = "recheck"] \/ pc' = [pc EXCEPT ![p] = "done"]
    BY <1>3 DEF SyncApply, At, Goto
  <2>2. Landed' = Landed /\ p \in Ready /\ Ready' = Ready \ {p}
    BY <2>1 DEF Ready, Landed, TInv, TypeOK, Op, Callers
  <2> QED BY <1>1, <1>3, <2>2, SyncApplyKeepsLocked DEF Lifecycle!Resync, Locked
<1>4. CASE \A p \in Op : ~SwapSelected(p) /\ ~SyncApply(p)
  <2>1. Follows(cache, cache') BY <1>4, StepEases, CapturesFollow DEF Eases
  <2>2. CASE UNCHANGED <<Ready, Landed>>
    BY <1>1, <2>1, <2>2 DEF Lifecycle!Next, Lifecycle!Change, Follows
  <2>3. CASE \E p \in Op : UNCHANGED <<Ready, cache>> /\ Landed' = Landed \cup {p}
    BY <2>3 DEF Lifecycle!Next, Lifecycle!Arrived
  <2>4. CASE \E p \in Op : UNCHANGED <<Landed, cache>> /\ Ready' = Ready \cup {p}
    BY <2>4 DEF Lifecycle!Next, Lifecycle!Answered
  <2> QED BY <1>4, <2>2, <2>3, <2>4, StepSeen
<1> QED BY <1>2, <1>3, <1>4 DEF Lifecycle!Next

(***************************************************************************)
(* LeafManager implements LeafLifecycle: whatever the operations, the      *)
(* stream and the operators do, each leaf moves along its lifecycle, and   *)
(* the writes that go round transition() never lead it off it.             *)
(***************************************************************************)
THEOREM ImplementsLifecycle == Spec => LifecycleSpec
<1>1. TInv /\ TInv' /\ [Next]_vars => [Lifecycle!Next]_(Lifecycle!vars)
  BY StepLifecycle
<1> QED BY <1>1, InitLifecycle, TypeInvariance, PTL DEF Spec, LifecycleSpec, Lifecycle!Spec
-----------------------------------------------------------------------------
\* The awaits at which an operation holds no leaf.
Resting == {"idle", "waiting", "woken", "check", "select", "resync", "fetch", "fetched", "recheck",
            "plan", "done", "failed"}

(***************************************************************************)
(* The inductive invariant: every locked leaf is held, an operation at     *)
(* rest holds nothing, and no operation is stranded by a renewal that does *)
(* not throw.  The second part is what lets an operation capture without   *)
(* losing what it held before.                                             *)
(***************************************************************************)
LocksHeld == \A l \in Locked(cache) : \E p \in Callers : l \in Holds(p)
RestsEmpty == \A p \in Callers : pc[p] \in Resting => batches[p] = <<>>
NobodyStranded == "renewThrows" \notin Env => \A p \in Callers : pc[p] # "stranded"
LockInv == LocksHeld /\ RestsEmpty /\ NobodyStranded

\* The operations that call executors are none of the others.
LEMMA CallersAreNoOthers ==
  Callers \cap (Syncer \cup Refresher \cup Claimer \cup Depositor) = {}
<1>1. DOMAIN <<Sender, Sweeper, Optimizer, Syncer, Refresher, Claimer, Depositor>> = 1..7 OBVIOUS
<1> QED BY <1>1, LeafManagerAssumption DEF Disjoint, Callers

\* A move leaves the others at rest or not, as they were.
LEMMA MoveRests ==
  ASSUME TInv, NEW p \in Op, NEW there, Goto(p, there) \/ NotifyAndGoto(p, there)
  PROVE  /\ pc'[p] = there
         /\ \A q \in Op \ {p} : /\ pc'[q] \in Resting => pc[q] \in Resting
                                /\ pc'[q] = "stranded" => pc[q] = "stranded"
BY DEF TInv, TypeOK, Goto, NotifyAndGoto, Resting

\* Nothing is locked and no batch changes.
LEMMA KeepsLocks ==
  ASSUME TInv, LockInv, UNCHANGED batches, Locked(cache') \subseteq Locked(cache),
         \A q \in Callers : /\ pc'[q] \in Resting => pc[q] \in Resting
                            /\ pc'[q] = "stranded" => pc[q] = "stranded"
  PROVE  LockInv'
<1>1. \A q \in Callers : Holds(q)' = Holds(q) BY DEF Holds
<1>2. LocksHeld' BY <1>1 DEF LockInv, LocksHeld
<1>3. RestsEmpty' BY DEF LockInv, RestsEmpty
<1>4. NobodyStranded' BY DEF LockInv, NobodyStranded
<1> QED BY <1>2, <1>3, <1>4 DEF LockInv

\* The same for a move of one operation.
LEMMA MoveKeepsLocks ==
  ASSUME TInv, LockInv, NEW p \in Op, NEW there, Goto(p, there) \/ NotifyAndGoto(p, there),
         UNCHANGED batches, Locked(cache') \subseteq Locked(cache),
         there # "stranded", p \in Callers /\ there \in Resting => pc[p] \in Resting
  PROVE  LockInv'
<1>1. \A q \in Callers : q \in Op BY DEF Op
<1> QED BY <1>1, MoveRests, KeepsLocks

\* An operation holds other leaves now, and what it held before is not locked.
Rebatches(p, bs) ==
  /\ batches' = [batches EXCEPT ![p] = bs]
  /\ Locked(cache') \subseteq (Locked(cache) \ Holds(p)) \cup Flat(bs)

\* The locks survive it.
LEMMA BatchKeepsLocks ==
  ASSUME TInv, LockInv, NEW p \in Callers, NEW there, Goto(p, there) \/ NotifyAndGoto(p, there),
         NEW bs, Rebatches(p, bs), there # "stranded", there \in Resting => bs = <<>>
  PROVE  LockInv'
<1>1. p \in Op /\ \A q \in Callers : q \in Op BY DEF Op
<1>2. batches'[p] = bs /\ \A q \in Callers \ {p} : batches'[q] = batches[q]
  BY DEF TInv, TypeOK, Rebatches
<1>3. Holds(p)' = Flat(bs) /\ \A q \in Callers \ {p} : Holds(q)' = Holds(q)
  BY <1>2 DEF Holds
<1>4. LocksHeld' BY <1>3 DEF LockInv, LocksHeld, Rebatches
<1>5. RestsEmpty' BY <1>1, <1>2, MoveRests DEF LockInv, RestsEmpty
<1>6. NobodyStranded' BY <1>1, MoveRests DEF LockInv, NobodyStranded
<1> QED BY <1>4, <1>5, <1>6 DEF LockInv

\* An empty list holds nothing, a single batch its leaves.
LEMMA FlatBatches == Flat(<<>>) = {} /\ \A S : Flat(<<S>>) = S
BY DEF Flat

\* An operation lets go of everything it holds.
LEMMA ReleaseKeepsLocks ==
  ASSUME TInv, LockInv, NEW p \in Callers, NEW there, Goto(p, there) \/ NotifyAndGoto(p, there),
         batches' = [batches EXCEPT ![p] = <<>>], Locked(cache') \subseteq Locked(cache) \ Holds(p),
         there # "stranded"
  PROVE  LockInv'
<1>1. Rebatches(p, <<>>) BY FlatBatches DEF Rebatches
<1> QED BY <1>1, BatchKeepsLocks

\* An operation at rest captures leaves.
LEMMA CaptureKeepsLocks ==
  ASSUME TInv, LockInv, NEW p \in Callers, pc[p] \in Resting, NEW bs,
         NEW there, there \notin Resting, there # "stranded", Capture(p, bs, there)
  PROVE  LockInv'
<1>1. Holds(p) = {} BY FlatBatches DEF LockInv, RestsEmpty, Holds
<1>2. Locked(cache') \subseteq Locked(cache) \cup Flat(bs)
  BY LockingFollows DEF Capture, TInv, TypeOK
<1>3. Rebatches(p, bs) BY <1>1, <1>2 DEF Rebatches, Capture
<1> QED BY <1>3, BatchKeepsLocks DEF Capture

\* A failure releases everything its operation holds.
LEMMA FailsKeepsLocks ==
  ASSUME TInv, LockInv, NEW p \in Callers, NEW stale, Fails(p, stale)
  PROVE  LockInv'
<1>1. Locked(cache') \subseteq Locked(cache) \ Holds(p) BY FailsEases DEF TInv, Eases
<1>2. Goto(p, "resync") \/ Goto(p, "failed") \/ NotifyAndGoto(p, "failed") BY DEF Fails
<1>3. batches' = [batches EXCEPT ![p] = <<>>] BY DEF Fails
<1> QED BY <1>1, <1>2, <1>3, ReleaseKeepsLocks
-----------------------------------------------------------------------------
\* The steps of selection.
LEMMA SelectLocks ==
  ASSUME TInv, LockInv, NEW p \in Op, Select(p)
  PROVE  LockInv'
<1>1. p \in Callers /\ pc[p] = "select"
  BY DEF Select, SelectExact, SelectForSwap, NotEnoughLeaves, SweepSelect, At, Callers
<1>2. CASE NotEnoughLeaves(p)
  BY <1>1, <1>2, MoveKeepsLocks DEF NotEnoughLeaves, Resting
<1>3. CASE SelectExact(p) \/ SelectForSwap(p) \/ SweepSelect(p)
  <2>1. \/ \E bs : Capture(p, bs, "renew")
        \/ \E bs : Capture(p, bs, "swap")
    BY <1>3 DEF SelectExact, SelectForSwap, SweepSelect
  <2> QED BY <1>1, <2>1, CaptureKeepsLocks DEF Resting
<1> QED BY <1>2, <1>3 DEF Select

\* The steps of a swap; the one of a Sender ends with a new capture.
LEMMA SwapLocks ==
  ASSUME TInv, LockInv, NEW p \in Op, Swap(p)
  PROVE  LockInv'
<1>1. p \in Callers
  BY DEF Swap, SwapSend, SwapInitiated, SwapCallFails, SwapClaims, SwapFailsAtSsp, SwapSelected,
         SwapOptimized, At, TInv, Control, Placed, Callers
<1>2. ~SwapSelected(p) => Locked(cache') \subseteq Locked(cache) BY SwapEases DEF Eases
<1>3. CASE SwapSend(p) \/ SwapInitiated(p) \/ SwapClaims(p) \/ SwapOptimized(p)
  <2>1. UNCHANGED batches BY <1>3 DEF SwapSend, SwapInitiated, SwapClaims, SwapOptimized
  <2>2. \/ Goto(p, "swapping") \/ Goto(p, "ssp") \/ Goto(p, "landed")
        \/ NotifyAndGoto(p, "next")
    BY <1>3 DEF SwapSend, SwapInitiated, SwapClaims, SwapOptimized
  <2>3. ~SwapSelected(p) \/ LockInv'
    <3>1. pc[p] \in {"swap", "swapping", "ssp", "landed"}
      BY <1>3 DEF SwapSend, SwapInitiated, SwapClaims, SwapOptimized, At
    <3>2. SwapSend(p) \/ SwapInitiated(p) \/ SwapClaims(p) => pc[p] # "landed"
      BY DEF SwapSend, SwapInitiated, SwapClaims, At
    <3> QED BY <1>3, <3>1, <3>2, SendersDoNotOptimize DEF SwapSelected, SwapOptimized, At
  <2> QED BY <1>2, <2>1, <2>2, <2>3, MoveKeepsLocks DEF Resting
<1>4. CASE SwapCallFails(p) \/ SwapFailsAtSsp(p)
  <2>1. \E stale : Fails(p, stale) BY <1>4 DEF SwapCallFails, SwapFailsAtSsp
  <2> QED BY <1>1, <2>1, FailsKeepsLocks
<1>5. CASE SwapSelected(p)
  <2>1. SwapLeaves(p) = Holds(p) BY <1>5, SendersDoNotOptimize DEF SwapSelected, SwapLeaves
  <2>2. /\ SwapApplied(p) \in Cache
        /\ Locked(SwapApplied(p)) \subseteq Locked(cache) \ Holds(p)
    BY <2>1, SwapAppliedEases DEF TInv, Eases
  <2>3. CASE cache' = SwapApplied(p) /\ batches' = [batches EXCEPT ![p] = <<>>] /\ Goto(p, "failed")
    BY <1>1, <2>2, <2>3, ReleaseKeepsLocks
  <2>4. CASE \E bs : /\ cache' = transition(SwapApplied(p), Flat(bs), "LOCAL_LOCKED")
                     /\ batches' = [batches EXCEPT ![p] = bs]
                     /\ Goto(p, "renew")
    <3>1. PICK bs : /\ cache' = transition(SwapApplied(p), Flat(bs), "LOCAL_LOCKED")
                    /\ batches' = [batches EXCEPT ![p] = bs]
                    /\ Goto(p, "renew")
      BY <2>4
    <3>2. Locked(cache') \subseteq Locked(SwapApplied(p)) \cup Flat(bs)
      BY <2>2, <3>1, LockingFollows
    <3>3. Rebatches(p, bs) BY <2>2, <3>1, <3>2 DEF Rebatches
    <3> QED BY <1>1, <3>1, <3>3, BatchKeepsLocks DEF Resting
  <2> QED BY <1>5, <2>3, <2>4 DEF SwapSelected
<1> QED BY <1>3, <1>4, <1>5 DEF Swap

\* The steps of the optimizer.
LEMMA OptimizeLocks ==
  ASSUME TInv, LockInv, NEW p \in Op, Optimize(p)
  PROVE  LockInv'
<1>1. p \in Callers
  BY DEF Optimize, OptimizeStart, OptimizePlan, OptimizeSkip, OptimizeNext, OptimizeEnd, At,
         TInv, Control, Placed, Callers
<1>2. CASE OptimizeStart(p) \/ OptimizeSkip(p) \/ OptimizeNext(p)
  <2>1. UNCHANGED <<cache, batches>> BY <1>2 DEF OptimizeStart, OptimizeSkip, OptimizeNext
  <2>2. \/ pc[p] \in Resting /\ Goto(p, "done")
        \/ pc[p] \in Resting /\ Goto(p, "plan")
        \/ pc[p] \in Resting /\ NotifyAndGoto(p, "done")
        \/ Goto(p, "swap")
    BY <1>2 DEF OptimizeStart, OptimizeSkip, OptimizeNext, At, Resting
  <2>3. Locked(cache') \subseteq Locked(cache) BY <2>1 DEF Locked
  <2> QED BY <2>1, <2>2, <2>3, MoveKeepsLocks DEF Resting
<1>3. CASE OptimizePlan(p)
  <2>1. pc[p] = "plan" /\ \E plan : Capture(p, plan, "next") BY <1>3 DEF OptimizePlan, At
  <2> QED BY <1>1, <2>1, CaptureKeepsLocks DEF Resting
<1>4. CASE OptimizeEnd(p)
  <2>1. Locked(cache') \subseteq Locked(cache) \ Holds(p)
    BY <1>4, RestoredEases DEF OptimizeEnd, TInv, TypeOK, Eases
  <2> QED BY <1>1, <1>4, <2>1, ReleaseKeepsLocks DEF OptimizeEnd
<1> QED BY <1>2, <1>3, <1>4 DEF Optimize

\* The steps of renewal and the executor.  A Sweeper frees the leaves that
\* renewal dropped, and holds the rest.
LEMMA ExecuteLocks ==
  ASSUME TInv, LockInv, NEW p \in Op, Execute(p)
  PROVE  LockInv'
<1>1. p \in Callers
  BY DEF Execute, ExecuteSender, ExecuteSweeper, RenewalThrows, ExecutorSent, ExecutorCallFails, ExecutorClaims,
         QuoteReleases, ExecutorThrows, ExecutorReturns, At, TInv, Control, Placed, Callers
<1>2. Locked(cache') \subseteq Locked(cache) BY ExecuteEases DEF Eases
<1>3. CASE ExecuteSender(p) \/ ExecutorClaims(p) \/ QuoteReleases(p)
  <2>1. UNCHANGED batches BY <1>3 DEF ExecuteSender, ExecutorClaims, QuoteReleases
  <2>2. Goto(p, "quote") \/ Goto(p, "exec") \/ Goto(p, "register")
    BY <1>3 DEF ExecuteSender, ExecutorClaims, QuoteReleases
  <2> QED BY <1>2, <2>1, <2>2, MoveKeepsLocks DEF Resting
<1>4. CASE ExecuteSweeper(p)
  <2>1. PICK kept \in Kept(Holds(p)) : /\ cache' = Restored(cache, Holds(p) \ kept)
                                       /\ batches' = [batches EXCEPT ![p] = <<kept>>]
    BY <1>4 DEF ExecuteSweeper
  <2>2. Locked(cache') \cap (Holds(p) \ kept) = {} BY <2>1, RestoredEases DEF TInv, TypeOK
  <2>3. Locked(cache') \subseteq (Locked(cache) \ Holds(p)) \cup Flat(<<kept>>)
    BY <1>2, <2>2, FlatBatches
  <2>4. Goto(p, "exec") BY <1>4 DEF ExecuteSweeper
  <2>5. Rebatches(p, <<kept>>) BY <2>1, <2>3 DEF Rebatches
  <2> QED BY <1>1, <2>4, <2>5, BatchKeepsLocks DEF Resting
<1>5. CASE RenewalThrows(p)
  <2>1. UNCHANGED <<cache, batches>> /\ Goto(p, "stranded") /\ "renewThrows" \in Env
    BY <1>5 DEF RenewalThrows
  <2>2. \A q \in Callers : Holds(q)' = Holds(q) BY <2>1 DEF Holds
  <2>3. LocksHeld' BY <2>1, <2>2 DEF LockInv, LocksHeld
  <2>4. RestsEmpty' BY <2>1, MoveRests DEF LockInv, RestsEmpty, Resting, Op
  <2> QED BY <2>1, <2>3, <2>4 DEF LockInv, NobodyStranded
<1>6. CASE ExecutorSent(p)
  BY <1>2, <1>6, KeepsLocks DEF ExecutorSent
<1>7. CASE ExecutorCallFails(p)
  <2>1. UNCHANGED <<pc, batches>> \/ \E stale : Fails(p, stale)
    BY <1>7 DEF ExecutorCallFails
  <2> QED BY <1>1, <1>2, <2>1, FailsKeepsLocks, KeepsLocks
<1>8. CASE ExecutorThrows(p)
  BY <1>1, <1>8, FailsKeepsLocks DEF ExecutorThrows
<1>9. CASE ExecutorReturns(p)
  <2>1. Locked(cache') \subseteq Locked(cache) \ Holds(p)
    BY <1>9, MarkedOutgoingEases DEF ExecutorReturns, TInv, TypeOK, Eases
  <2> QED BY <1>1, <1>9, <2>1, ReleaseKeepsLocks DEF ExecutorReturns
<1> QED BY <1>3, <1>4, <1>5, <1>6, <1>7, <1>8, <1>9 DEF Execute

\* The steps of syncs and refreshes.
LEMMA FetchLocks ==
  ASSUME TInv, LockInv, NEW p \in Op, Fetch(p)
  PROVE  LockInv'
<1>1. UNCHANGED batches
  BY DEF Fetch, FetchStart, FetchAnswer, FetchFails, SyncApply, RefreshAdd, RefreshEvict
<1>2. Locked(cache') \subseteq Locked(cache)
  BY OthersEase, SyncApplyKeepsLocked DEF Eases
<1>3. p \in Callers => pc[p] \in Resting
  BY CallersAreNoOthers
     DEF Fetch, FetchStart, FetchAnswer, FetchFails, SyncApply, RefreshAdd, RefreshEvict, At, Resting
<1>4. \/ Goto(p, "fetch") \/ Goto(p, "fetched") \/ Goto(p, "failed") \/ Goto(p, "recheck")
      \/ Goto(p, "done") \/ Goto(p, "added")
  BY DEF Fetch, FetchStart, FetchAnswer, FetchFails, SyncApply, RefreshAdd, RefreshEvict
<1> QED BY <1>1, <1>2, <1>3, <1>4, MoveKeepsLocks

\* The steps of claims, by a Claimer or inside an executor.
LEMMA ClaimsLocks ==
  ASSUME TInv, LockInv, NEW p \in Op, Claims(p)
  PROVE  LockInv'
<1>1. Locked(cache') \subseteq Locked(cache) BY ClaimsEases DEF Eases
<1>2. CASE ClaimStart(p) \/ Claim(p)
  <2>1. p \notin Callers
    BY <1>2, CallersAreNoOthers DEF ClaimStart, Claim, At, TInv, Control, Placed
  <2>2. UNCHANGED batches /\ (Goto(p, "claiming") \/ Goto(p, "register"))
    BY <1>2 DEF ClaimStart, Claim
  <2> QED BY <1>1, <2>1, <2>2, MoveKeepsLocks
<1>3. CASE RegisterClaimed(p)
  <2>1. UNCHANGED batches BY <1>3 DEF RegisterClaimed
  <2>2. \/ p \in Claimer /\ Goto(p, "done")
        \/ Goto(p, "exec")
    BY <1>3 DEF RegisterClaimed
  <2> QED BY <1>1, <2>1, <2>2, CallersAreNoOthers, MoveKeepsLocks DEF Resting
<1>4. CASE RegisterThrows(p)
  <2>1. CASE p \in Claimer
    BY <1>1, <1>4, <2>1, CallersAreNoOthers, MoveKeepsLocks DEF RegisterThrows
  <2>2. CASE p \notin Claimer
    BY <1>4, <2>2, RegisteredTransfer, FailsKeepsLocks DEF RegisterThrows
  <2> QED BY <2>1, <2>2
<1> QED BY <1>2, <1>3, <1>4 DEF Claims

\* The steps of a deposit.
LEMMA HandleDepositLocks ==
  ASSUME TInv, LockInv, NEW p \in Op, HandleDeposit(p)
  PROVE  LockInv'
<1>1. p \notin Callers
  BY CallersAreNoOthers
     DEF HandleDeposit, DepositCreating, DepositAvailable, DepositVerify, DepositAdd, At, TInv, Control, Placed
<1>2. UNCHANGED batches
  BY DEF HandleDeposit, DepositCreating, DepositAvailable, DepositVerify, DepositAdd
<1>3. Goto(p, "creating") \/ Goto(p, "verify") \/ Goto(p, "verified") \/ Goto(p, "done")
  BY DEF HandleDeposit, DepositCreating, DepositAvailable, DepositVerify, DepositAdd
<1>4. Locked(cache') \subseteq Locked(cache) BY OthersEase DEF Eases
<1> QED BY <1>1, <1>2, <1>3, <1>4, MoveKeepsLocks

\* The waits and the balance check.
LEMMA WaitLocks ==
  ASSUME TInv, LockInv, NEW p \in Op, WaitOrProceed(p) \/ WaitTimesOut(p) \/ CheckBalance(p)
  PROVE  LockInv'
<1>1. UNCHANGED <<cache, batches>> /\ pc[p] \in Resting
  BY DEF WaitOrProceed, WaitTimesOut, CheckBalance, At, Resting
<1>2. \/ Goto(p, "waiting") \/ Goto(p, "check") \/ Goto(p, "select") \/ Goto(p, "failed")
  BY DEF WaitOrProceed, WaitTimesOut, CheckBalance
<1>3. Locked(cache') \subseteq Locked(cache) BY <1>1 DEF Locked
<1> QED BY <1>1, <1>2, <1>3, MoveKeepsLocks

\* Every step keeps the invariant.
LEMMA StepLocks ==
  ASSUME TInv, LockInv, [Next]_vars
  PROVE  LockInv'
<1>1. CASE UNCHANGED vars
  BY <1>1, KeepsLocks DEF vars, Locked
<1>2. ASSUME NEW x \in Xfer, Stream(x) \/ Operators(x) PROVE LockInv'
  <2>1. UNCHANGED <<pc, batches>>
    BY <1>2 DEF Stream, Operators, Hear, Miss, SoAnswers, SoTweaks, SspSwaps, SoReturns,
                DepositConfirmed, OtherInstanceSends
  <2>2. Locked(cache') \subseteq Locked(cache) BY <1>2, OthersEase DEF Eases
  <2> QED BY <2>1, <2>2, KeepsLocks
<1> QED BY <1>1, <1>2, WaitLocks, SelectLocks, SwapLocks, OptimizeLocks, ExecuteLocks, FetchLocks,
           ClaimsLocks, HandleDepositLocks DEF Next, Step

\* Nothing is locked at the start.
LEMMA InitLocks == Init => LockInv
<1> SUFFICES ASSUME Init PROVE LockInv OBVIOUS
<1>1. Locked(cache) = {}
  <2>1. [l \in Leaf |-> cache[l].status] \in [Leaf -> {"NONE", "AVAILABLE", "INCOMING"}]
    BY InitLifecycle DEF Lifecycle!Init
  <2> QED BY <2>1 DEF Locked
<1>2. \A p \in Callers : batches[p] = <<>> /\ pc[p] = "idle" BY DEF Init, Op
<1> QED BY <1>1, <1>2 DEF LockInv, LocksHeld, RestsEmpty, NobodyStranded

\* The invariant says what it is meant to.
LEMMA LocksAreRunning == "renewThrows" \notin Env /\ LockInv => NoOrphanLock
<1> SUFFICES ASSUME "renewThrows" \notin Env, LockInv, NEW l \in Leaf, cache[l].status = "LOCAL_LOCKED"
             PROVE  \E p \in Callers : Running(p) /\ l \in Holds(p)
  BY DEF NoOrphanLock
<1>1. PICK p \in Callers : l \in Holds(p) BY DEF LockInv, LocksHeld, Locked
<1>2. batches[p] # <<>> BY <1>1, FlatBatches DEF Holds
<1>3. Running(p) BY <1>2 DEF LockInv, RestsEmpty, NobodyStranded, Resting, Running, Over
<1> QED BY <1>1, <1>3

\* It is inductive, beside type correctness.
LEMMA LockInvariance == Spec => []LockInv
<1>1. TInv /\ LockInv /\ [Next]_vars => LockInv' BY StepLocks
<1> QED BY <1>1, InitLocks, TypeInvariance, PTL DEF Spec

(***************************************************************************)
(* Every way out of selectLeavesAndExecute, executeWithAllLeaves and       *)
(* optimizeLeaves releases, spends or marks what it locked, provided that  *)
(* the renewal before the try block does not throw: a LOCAL_LOCKED leaf    *)
(* always has a running operation that holds it.                           *)
(***************************************************************************)
THEOREM LocksHaveHolders == "renewThrows" \notin Env => (Spec => []NoOrphanLock)
<1> SUFFICES ASSUME "renewThrows" \notin Env PROVE Spec => []NoOrphanLock OBVIOUS
<1>1. LockInv => NoOrphanLock BY LocksAreRunning
<1> QED BY <1>1, LockInvariance, PTL

-----------------------------------------------------------------------------
(***************************************************************************)
(* The flag, the locked ids, the batches and the waiters of optimizeLeaves *)
(* agree.                                                                  *)
(***************************************************************************)

OptInv == OneOptimization /\ NobodyWaitsForNothing

InOptimization == {"next", "swap", "swapping", "ssp", "landed"}

\* The flag and the batches of the optimizers stay, the one that swaps goes on
\* swapping, and nobody starts to wait without an optimization.
LEMMA FlagKept ==
  ASSUME OptInv, UNCHANGED <<optimizing, lockedIds>>,
         \A q \in Optimizer : batches'[q] = batches[q],
         \A q \in Optimizer : pc'[q] \in InOptimization <=> pc[q] \in InOptimization,
         \A q \in Op : pc'[q] = "waiting" => pc[q] = "waiting" \/ optimizing
  PROVE  OptInv'
BY DEF OptInv, OneOptimization, NobodyWaitsForNothing, Optimizing, InOptimization, Holds

\* An operation moves on, in or out of an optimization as before.
LEMMA MoveKeepsFlag ==
  ASSUME TInv, OptInv, NEW p \in Op, NEW there,
         Goto(p, there) \/ NotifyAndGoto(p, there),
         UNCHANGED <<optimizing, lockedIds>>,
         \A q \in Optimizer : batches'[q] = batches[q],
         p \in Optimizer => (pc[p] \in InOptimization <=> there \in InOptimization),
         there = "waiting" => optimizing
  PROVE  OptInv'
<1>1. pc'[p] = there /\ \A q \in Op \ {p} : pc'[q] = pc[q] \/ (pc[q] = "waiting" /\ pc'[q] = "woken")
  BY DEF TInv, TypeOK, Goto, NotifyAndGoto
<1>2. \A q \in Optimizer : pc'[q] \in InOptimization <=> pc[q] \in InOptimization
  BY <1>1 DEF InOptimization, Op, Callers
<1>3. \A q \in Op : pc'[q] = "waiting" => pc[q] = "waiting" \/ optimizing BY <1>1
<1> QED BY <1>2, <1>3, FlagKept

\* The optimization ends: the flag goes down and the waiters are woken.
LEMMA EndLowersFlag ==
  ASSUME TInv, OptInv, NEW p \in Optimizer, Optimizing(p), NEW there,
         there \notin InOptimization, there # "waiting", NotifyAndGoto(p, there),
         optimizing' = FALSE, lockedIds' = {}
  PROVE  OptInv'
<1>1. pc'[p] = there /\ \A q \in Op \ {p} : pc'[q] = IF pc[q] = "waiting" THEN "woken" ELSE pc[q]
  BY DEF NotifyAndGoto, Op, Callers
<1>2. \A q \in Optimizer : ~ Optimizing(q)'
  BY <1>1 DEF OptInv, OneOptimization, Optimizing, InOptimization, Op, Callers
<1>3. \A q \in Op : pc'[q] # "waiting" BY <1>1
<1> QED BY <1>2, <1>3 DEF OptInv, OneOptimization, NobodyWaitsForNothing, Optimizing

\* A failure ends the optimization it is in, and no other.
LEMMA FailsFlag ==
  ASSUME TInv, OptInv, NEW p \in Callers, NEW stale, Fails(p, stale),
         p \in Optimizer => Optimizing(p)
  PROVE  OptInv'
<1>1. CASE p \in Optimizer
  BY <1>1, EndLowersFlag DEF Fails, InOptimization
<1>2. CASE p \notin Optimizer
  <2>1. \A q \in Optimizer : batches'[q] = batches[q]
    BY <1>2 DEF Fails, TInv, TypeOK, Callers
  <2>2. UNCHANGED <<optimizing, lockedIds>> BY <1>2 DEF Fails, flags
  <2>3. Goto(p, "resync") \/ Goto(p, "failed") BY <1>2 DEF Fails
  <2> QED BY <1>2, <2>1, <2>2, <2>3, MoveKeepsFlag DEF Op
<1> QED BY <1>1, <1>2

\* An operation that is no optimizer captures leaves.
LEMMA OthersBatches ==
  ASSUME TInv, NEW p \in Callers, p \notin Optimizer,
         \E bs : batches' = [batches EXCEPT ![p] = bs]
  PROVE  \A q \in Optimizer : batches'[q] = batches[q]
<1>1. \A q \in Optimizer : q \in DOMAIN batches BY DEF TInv, TypeOK, Callers
<1> QED BY <1>1
-----------------------------------------------------------------------------
\* The steps of selection are those of Senders and Sweepers.
LEMMA SelectFlag ==
  ASSUME TInv, OptInv, NEW p \in Op, Select(p)
  PROVE  OptInv'
<1>1. p \in Callers /\ p \notin Optimizer /\ UNCHANGED <<optimizing, lockedIds>>
  BY SendersDoNotOptimize
     DEF Select, SelectExact, SelectForSwap, NotEnoughLeaves, SweepSelect, Callers, flags
<1>2. \/ \E bs : batches' = [batches EXCEPT ![p] = bs]
      \/ UNCHANGED batches
  BY DEF Select, SelectExact, SelectForSwap, NotEnoughLeaves, SweepSelect, Capture
<1>3. \/ Goto(p, "renew") \/ Goto(p, "swap") \/ Goto(p, "failed")
  BY DEF Select, SelectExact, SelectForSwap, NotEnoughLeaves, SweepSelect, Capture
<1>4. \A q \in Optimizer : batches'[q] = batches[q] BY <1>1, <1>2, OthersBatches
<1> QED BY <1>1, <1>3, <1>4, MoveKeepsFlag

\* A swap stays in its optimization; one that fails ends it.
LEMMA SwapFlag ==
  ASSUME TInv, OptInv, NEW p \in Op, Swap(p)
  PROVE  OptInv'
<1>1. CASE SwapSend(p) \/ SwapInitiated(p) \/ SwapClaims(p)
  <2>1. pc[p] \in InOptimization /\ UNCHANGED <<optimizing, lockedIds, batches>>
    BY <1>1 DEF SwapSend, SwapInitiated, SwapClaims, At, InOptimization, flags
  <2>2. Goto(p, "swapping") \/ Goto(p, "ssp") \/ Goto(p, "landed")
    BY <1>1 DEF SwapSend, SwapInitiated, SwapClaims
  <2> QED BY <2>1, <2>2, MoveKeepsFlag DEF InOptimization
<1>2. CASE SwapCallFails(p) \/ SwapFailsAtSsp(p)
  <2>1. p \in Callers /\ (p \in Optimizer => Optimizing(p))
    BY <1>2 DEF SwapCallFails, SwapFailsAtSsp, At, Optimizing, TInv, Control, Placed, Callers
  <2>2. \E stale : Fails(p, stale) BY <1>2 DEF SwapCallFails, SwapFailsAtSsp
  <2> QED BY <2>1, <2>2, FailsFlag
<1>3. CASE SwapSelected(p)
  <2>1. p \in Callers /\ p \notin Optimizer /\ UNCHANGED <<optimizing, lockedIds>>
    BY <1>3, SendersDoNotOptimize DEF SwapSelected, Callers, flags
  <2>2. \E bs : batches' = [batches EXCEPT ![p] = bs] BY <1>3 DEF SwapSelected
  <2>3. Goto(p, "renew") \/ Goto(p, "failed") BY <1>3 DEF SwapSelected
  <2>4. \A q \in Optimizer : batches'[q] = batches[q] BY <2>1, <2>2, OthersBatches
  <2> QED BY <2>1, <2>3, <2>4, MoveKeepsFlag
<1>4. CASE SwapOptimized(p)
  <2>1. p \in Optimizer /\ Optimizing(p) BY <1>4 DEF SwapOptimized, At, Optimizing
  <2>2. pc'[p] = "next" /\ \A q \in Op \ {p} : pc'[q] = IF pc[q] = "waiting" THEN "woken" ELSE pc[q]
    BY <1>4 DEF SwapOptimized, NotifyAndGoto
  <2>3. \A q \in Optimizer : Optimizing(q)' <=> Optimizing(q)
    BY <2>1, <2>2 DEF Optimizing, Op, Callers
  <2>4. UNCHANGED <<optimizing, batches>> /\ lockedIds' \subseteq lockedIds
    BY <1>4 DEF SwapOptimized
  <2>5. \A q \in Op : pc'[q] # "waiting" BY <2>2
  <2> QED BY <2>3, <2>4, <2>5 DEF OptInv, OneOptimization, NobodyWaitsForNothing, Holds
<1> QED BY <1>1, <1>2, <1>3, <1>4 DEF Swap

\* The steps of the optimizer raise the flag for themselves and lower it.
LEMMA OptimizeFlag ==
  ASSUME TInv, OptInv, NEW p \in Op, Optimize(p)
  PROVE  OptInv'
<1>1. CASE OptimizeStart(p)
  BY <1>1, MoveKeepsFlag DEF OptimizeStart, At, InOptimization, flags
<1>2. CASE OptimizePlan(p)
  <2>1. PICK plan \in Plans(Available(cache)) :
          /\ Capture(p, plan, "next")
          /\ lockedIds' = lockedIds \cup Flat(plan)
    BY <1>2 DEF OptimizePlan
  <2>2. p \in Optimizer /\ ~optimizing /\ optimizing'
    BY <1>2 DEF OptimizePlan, At, TInv, Control, Placed
  <2>3. lockedIds = {} /\ \A q \in Optimizer : ~ Optimizing(q)
    BY <2>2 DEF OptInv, OneOptimization
  <2>4. pc' = [pc EXCEPT ![p] = "next"] /\ batches' = [batches EXCEPT ![p] = plan]
    BY <2>1 DEF Capture, Goto
  <2>5. \A q \in Optimizer : Optimizing(q)' <=> q = p
    BY <2>2, <2>3, <2>4 DEF Optimizing, TInv, TypeOK, Op, Callers
  <2>6. Holds(p)' = Flat(plan)
    <3>1. batches'[p] = plan BY <2>2, <2>4 DEF TInv, TypeOK, Callers
    <3> QED BY <3>1 DEF Holds
  <2>7. lockedIds' = Flat(plan) BY <2>1, <2>3
  <2> QED BY <2>2, <2>5, <2>6, <2>7 DEF OptInv, OneOptimization, NobodyWaitsForNothing
<1>3. CASE OptimizeSkip(p)
  BY <1>3, MoveKeepsFlag DEF OptimizeSkip, At, InOptimization, flags
<1>4. CASE OptimizeNext(p)
  BY <1>4, MoveKeepsFlag DEF OptimizeNext, At, InOptimization, flags
<1>5. CASE OptimizeEnd(p)
  <2>1. p \in Optimizer /\ Optimizing(p)
    BY <1>5 DEF OptimizeEnd, At, TInv, Control, Placed, Optimizing
  <2> QED BY <1>5, <2>1, EndLowersFlag DEF OptimizeEnd, InOptimization
<1> QED BY <1>1, <1>2, <1>3, <1>4, <1>5 DEF Optimize

\* The steps of renewal and the executor leave the optimizer alone.
LEMMA ExecuteFlag ==
  ASSUME TInv, OptInv, NEW p \in Op, Execute(p)
  PROVE  OptInv'
<1>1. p \in Callers /\ p \notin Optimizer
  BY SendersDoNotOptimize
     DEF Execute, ExecuteSender, ExecuteSweeper, RenewalThrows, ExecutorSent, ExecutorCallFails, ExecutorClaims,
         QuoteReleases, ExecutorThrows, ExecutorReturns, At, TInv, Control, Placed, Callers
<1>2. CASE ExecuteSender(p) \/ RenewalThrows(p) \/ ExecutorClaims(p) \/ QuoteReleases(p)
  <2>1. UNCHANGED <<optimizing, lockedIds, batches>>
    BY <1>2 DEF ExecuteSender, RenewalThrows, ExecutorClaims, QuoteReleases, flags
  <2>2. Goto(p, "quote") \/ Goto(p, "exec") \/ Goto(p, "stranded") \/ Goto(p, "register")
    BY <1>2 DEF ExecuteSender, RenewalThrows, ExecutorClaims, QuoteReleases
  <2> QED BY <1>1, <2>1, <2>2, MoveKeepsFlag
<1>3. CASE ExecuteSweeper(p) \/ ExecutorReturns(p)
  <2>1. UNCHANGED <<optimizing, lockedIds>> /\ \E bs : batches' = [batches EXCEPT ![p] = bs]
    BY <1>3 DEF ExecuteSweeper, ExecutorReturns, flags
  <2>2. Goto(p, "exec") \/ Goto(p, "done")
    BY <1>3 DEF ExecuteSweeper, ExecutorReturns
  <2> QED BY <1>1, <2>1, <2>2, MoveKeepsFlag, OthersBatches
<1>4. CASE ExecutorSent(p)
  BY <1>4, FlagKept DEF ExecutorSent, flags
<1>5. CASE ExecutorCallFails(p)
  <2>1. UNCHANGED <<flags, pc, batches>> \/ \E stale : Fails(p, stale)
    BY <1>5 DEF ExecutorCallFails
  <2> QED BY <1>1, <2>1, FailsFlag, FlagKept DEF flags
<1>6. CASE ExecutorThrows(p)
  BY <1>1, <1>6, FailsFlag DEF ExecutorThrows
<1> QED BY <1>2, <1>3, <1>4, <1>5, <1>6 DEF Execute

\* So do syncs, claims and deposits.
LEMMA OthersFlag ==
  ASSUME TInv, OptInv, NEW p \in Op, Fetch(p) \/ Claims(p) \/ HandleDeposit(p)
  PROVE  OptInv'
<1> USE DEF flags, At, InOptimization
<1>1. CASE FetchStart(p)
  <2>1. pc[p] \in {"idle", "resync"} BY <1>1 DEF FetchStart
  <2> QED BY <1>1, <2>1, MoveKeepsFlag DEF FetchStart
<1>2. CASE FetchAnswer(p)
  <2>1. Goto(p, "fetch") \/ Goto(p, "fetched") BY <1>2 DEF FetchAnswer
  <2> QED BY <1>2, <2>1, MoveKeepsFlag DEF FetchAnswer
<1>3. CASE FetchFails(p)
  BY <1>3, MoveKeepsFlag DEF FetchFails
<1>4. CASE SyncApply(p)
  BY <1>4, MoveKeepsFlag DEF SyncApply
<1>5. CASE RefreshAdd(p)
  BY <1>5, MoveKeepsFlag DEF RefreshAdd
<1>6. CASE RefreshEvict(p)
  BY <1>6, MoveKeepsFlag DEF RefreshEvict
<1>7. CASE ClaimStart(p)
  BY <1>7, MoveKeepsFlag DEF ClaimStart
<1>8. CASE Claim(p)
  BY <1>8, MoveKeepsFlag DEF Claim
<1>9. CASE RegisterClaimed(p)
  BY <1>9, MoveKeepsFlag DEF RegisterClaimed
<1>10. CASE RegisterThrows(p)
  <2>1. CASE p \in Claimer
    BY <1>10, <2>1, MoveKeepsFlag DEF RegisterThrows
  <2>2. CASE p \notin Claimer
    <3>1. p \in Callers /\ p \notin Optimizer
      BY <1>10, <2>2, SendersDoNotOptimize DEF RegisterThrows, TInv, Control, Placed, Callers
    <3> QED BY <1>10, <2>2, <3>1, FailsFlag DEF RegisterThrows
  <2> QED BY <2>1, <2>2
<1>11. CASE DepositCreating(p)
  BY <1>11, MoveKeepsFlag DEF DepositCreating
<1>12. CASE DepositAvailable(p)
  <2>1. Goto(p, "done") \/ Goto(p, "verify") BY <1>12 DEF DepositAvailable
  <2> QED BY <1>12, <2>1, MoveKeepsFlag DEF DepositAvailable
<1>13. CASE DepositVerify(p)
  BY <1>13, MoveKeepsFlag DEF DepositVerify
<1>14. CASE DepositAdd(p)
  BY <1>14, MoveKeepsFlag DEF DepositAdd
<1> QED BY <1>1, <1>2, <1>3, <1>4, <1>5, <1>6, <1>7, <1>8, <1>9, <1>10, <1>11, <1>12, <1>13, <1>14
        DEF Fetch, Claims, HandleDeposit

\* An operation waits only when an optimization runs.
LEMMA WaitFlag ==
  ASSUME TInv, OptInv, NEW p \in Op, WaitOrProceed(p) \/ WaitTimesOut(p) \/ CheckBalance(p)
  PROVE  OptInv'
<1>1. p \notin Optimizer /\ UNCHANGED <<optimizing, lockedIds, batches>>
  BY SendersDoNotOptimize DEF WaitOrProceed, WaitTimesOut, CheckBalance, flags
<1>2. \/ MayRecover(p) /\ Goto(p, "waiting")
      \/ Goto(p, "check") \/ Goto(p, "select") \/ Goto(p, "failed")
  BY DEF WaitOrProceed, WaitTimesOut, CheckBalance
<1> QED BY <1>1, <1>2, MoveKeepsFlag DEF MayRecover

\* Every step keeps the invariant.
LEMMA StepFlag ==
  ASSUME TInv, OptInv, [Next]_vars
  PROVE  OptInv'
<1>1. CASE UNCHANGED vars
  BY <1>1, FlagKept DEF vars, flags
<1>2. ASSUME NEW x \in Xfer, Stream(x) \/ Operators(x) PROVE OptInv'
  <2>1. UNCHANGED <<flags, pc, batches>>
    BY <1>2 DEF Stream, Operators, Hear, Miss, SoAnswers, SoTweaks, SspSwaps, SoReturns,
                DepositConfirmed, OtherInstanceSends
  <2> QED BY <2>1, FlagKept DEF flags
<1> QED BY <1>1, <1>2, WaitFlag, SelectFlag, SwapFlag, OptimizeFlag, ExecuteFlag, OthersFlag DEF Next, Step

\* No optimization runs at the start.
LEMMA InitFlag == Init => OptInv
BY DEF Init, OptInv, OneOptimization, NobodyWaitsForNothing, Optimizing, Op, Callers

\* The invariant is inductive, beside type correctness.
LEMMA OptInvariance == Spec => []OptInv
<1>1. TInv /\ OptInv /\ [Next]_vars => OptInv' BY StepFlag
<1> QED BY <1>1, InitFlag, TypeInvariance, PTL DEF Spec

(***************************************************************************)
(* optimizeLeaves tests optimizationInProgress, awaits the mutex and tests *)
(* it again: never do two optimizations run, the flag is up exactly while  *)
(* one does, and optimizationLockedLeafIds are leaves it holds.            *)
(***************************************************************************)
THEOREM OptimizationIsAlone == Spec => []OneOptimization
BY OptInvariance, PTL DEF OptInv

(***************************************************************************)
(* Every way out of optimizeLeaves notifies the waiters: an operation is   *)
(* never left in waitForOptimizationUpdate with no optimization running.   *)
(***************************************************************************)
THEOREM WaitersAreWoken == Spec => []NobodyWaitsForNothing
BY OptInvariance, PTL DEF OptInv
-----------------------------------------------------------------------------
(***************************************************************************)
(* A sync repairs the cache.  A leaf is bound by at most one transfer: the *)
(* one that took it, until it is tweaked, or the one that brings it, until *)
(* it is claimed.  The operators hold a bound leaf free for nobody, so     *)
(* what a sync is told of transfers agrees with what it is told of leaves. *)
(***************************************************************************)
Bound(x) ==
  IF xfer[x].st = "initiated" THEN xfer[x].leaves ELSE IF Claimable(x) THEN Received(x) ELSE {}
BoundAs(x) ==
  IF xfer[x].st = "tweaked" THEN "incoming" ELSE IF xfer[x].kind = "deposit" THEN "creating" ELSE "held"

LeavesBound == \A x \in Xfer : \A l \in Bound(x) : so[l] = BoundAs(x)
BoundOnce == \A x, y \in Xfer : x # y => Bound(x) \cap Bound(y) = {}
\* A leaf that is on its way is bound by the transfer it is in.
Backed == \A l \in Leaf : so[l] \in {"held", "incoming"} => \E x \in Xfer : l \in Bound(x)
\* What comes in is no call of this wallet, and an incoming transfer is tweaked
\* from the start; the operators know of no call that was not made or answered.
Sound(x) ==
  /\ xfer[x].kind \in {"incoming", "deposit"} => xfer[x].call # "sent"
  /\ xfer[x].kind = "incoming" => xfer[x].st # "initiated"
  /\ xfer[x].kind = "none" => xfer[x].st = "none"
  /\ xfer[x].call = "sent" => xfer[x].kind # "none" /\ xfer[x].st = "none"
\* The calls of an operation are numbered: a new one is no old one.
Call == Callers \X (1..MaxCalls)
Numbered == \A p \in Callers : \E n \in 0..MaxCalls : Made(p) = 1..n
BoundInv == LeavesBound /\ BoundOnce /\ Backed /\ Numbered /\ \A x \in Xfer : Sound(x)

\* Only leaves are bound.
LEMMA BoundType ==
  ASSUME TypeOK, NEW x \in Xfer
  PROVE  Bound(x) \subseteq Leaf
<1>1. PICK t \in Transfer : t = xfer[x] BY DEF TypeOK
<1> QED BY <1>1 DEF Bound, Received, Transfer

\* A transfer that is the same but for its call, which is none that waits for an answer.
SameBut(x) ==
  /\ xfer'[x].kind = xfer[x].kind /\ xfer'[x].leaves = xfer[x].leaves
  /\ xfer'[x].new = xfer[x].new /\ xfer'[x].st = xfer[x].st
  /\ xfer'[x].call = xfer[x].call \/ xfer'[x].call # "sent"

\* A transfer stays what it is, or every leaf that it binds moves.
OnlyMoved == \A x \in Xfer : SameBut(x) \/ \A l \in Bound(x) \cup Bound(x)' : so'[l] # so[l]

\* The last call of an operation bears the number of its calls.
LEMMA LastCallIs ==
  ASSUME Numbered, NEW p \in Callers
  PROVE  \E n \in 0..MaxCalls : /\ Made(p) = 1..n /\ Cardinality(Made(p)) = n
                                /\ LastCall(p) = <<p, n>>
                                /\ Made(p) # {} => LastCall(p) \in Call
<1>0. MaxCalls \in Nat BY LeafManagerAssumption
<1>1. PICK n \in 0..MaxCalls : Made(p) = 1..n BY DEF Numbered
<1>2. n \in Nat BY <1>0
<1>3. Cardinality(1..n) = n BY <1>2, FS_Interval
<1>4. LastCall(p) = <<p, n>> BY <1>1, <1>3 DEF LastCall
<1>5. Made(p) # {} => n \in 1..MaxCalls BY <1>0, <1>1, <1>2
<1> QED BY <1>1, <1>3, <1>4, <1>5 DEF Call

\* A step that changes no kind leaves the numbers alone.
LEMMA NumbersKept ==
  ASSUME \A x \in Call : xfer'[x].kind = xfer[x].kind
  PROVE  /\ \A q \in Callers : Made(q)' = Made(q) /\ LastCall(q)' = LastCall(q)
         /\ Numbered => Numbered'
<1>1. ASSUME NEW q \in Callers PROVE Made(q)' = Made(q)
  BY DEF Made, Call
<1>2. ASSUME NEW q \in Callers PROVE LastCall(q)' = LastCall(q)
  BY <1>1 DEF LastCall
<1> QED BY <1>1, <1>2 DEF Numbered

\* New calls are the next numbers, one for each batch.
NewCalls(n, p, kind, bs) ==
  /\ n = Cardinality(Made(p))
  /\ \A i \in DOMAIN bs : /\ <<p, n + i>> \in Call
                          /\ xfer[<<p, n + i>>].kind = "none"
                          /\ xfer'[<<p, n + i>>] = NewTransfer(kind, bs[i], "none", "sent")
  /\ \A x \in Xfer : (\A i \in DOMAIN bs : x # <<p, n + i>>) => xfer'[x] = xfer[x]
  /\ Made(p)' = 1..(n + Len(bs)) /\ n + Len(bs) \in 0..MaxCalls
  /\ LastCall(p)' = <<p, n + Len(bs)>>
  /\ \A q \in Callers \ {p} : Made(q)' = Made(q) /\ LastCall(q)' = LastCall(q)

LEMMA CallsNumbered ==
  ASSUME Numbered, NEW p \in Callers, NEW kind \in {"swap", "send", "self"},
         NEW bs \in Seq(SUBSET Leaf), Calls(p, kind, bs)
  PROVE  \E n \in Nat : NewCalls(n, p, kind, bs)
<1>0. MaxCalls \in Nat BY LeafManagerAssumption
<1>1. PICK n \in 0..MaxCalls : Made(p) = 1..n /\ Cardinality(Made(p)) = n
  BY LastCallIs
<1>2. n \in Nat /\ Len(bs) \in Nat /\ DOMAIN bs = 1..Len(bs) /\ n + Len(bs) <= MaxCalls
  BY <1>0, <1>1 DEF Calls
<1>3. \A x \in Xfer : xfer'[x] = IF \E i \in DOMAIN bs : x = <<p, n + i>>
                                 THEN NewTransfer(kind, bs[x[2] - n], "none", "sent") ELSE xfer[x]
  BY <1>1 DEF Calls
<1>4. ASSUME NEW i \in DOMAIN bs
      PROVE  /\ <<p, n + i>> \in Call
             /\ xfer[<<p, n + i>>].kind = "none"
             /\ xfer'[<<p, n + i>>] = NewTransfer(kind, bs[i], "none", "sent")
  <2>1. i \in Nat /\ i >= 1 /\ n + i \in 1..MaxCalls BY <1>0, <1>2
  <2>2. <<p, n + i>> \in Call BY <2>1 DEF Call
  <2>3. n + i \notin Made(p) BY <1>1, <1>2, <2>1
  <2>4. xfer[<<p, n + i>>].kind = "none" BY <2>1, <2>3 DEF Made
  <2>5. (n + i) - n = i BY <1>2, <2>1
  <2>6. <<p, n + i>> \in Xfer BY <2>2, LeafManagerAssumption DEF Call
  <2> QED BY <1>3, <2>2, <2>4, <2>5, <2>6
<1>5. \A x \in Xfer : (\A i \in DOMAIN bs : x # <<p, n + i>>) => xfer'[x] = xfer[x]
  BY <1>3
<1>6. Made(p)' = 1..(n + Len(bs))
  <2>1. ASSUME NEW k \in 1..MaxCalls
        PROVE  xfer'[<<p, k>>].kind # "none" <=> k <= n + Len(bs)
    <3>1. <<p, k>> \in Call /\ <<p, k>> \in Xfer BY LeafManagerAssumption DEF Call
    <3>2. CASE k > n /\ k <= n + Len(bs)
      <4>1. k - n \in DOMAIN bs /\ n + (k - n) = k BY <1>0, <1>2, <3>2
      <4>2. xfer'[<<p, k>>] = NewTransfer(kind, bs[k - n], "none", "sent") BY <1>4, <4>1
      <4> QED BY <3>2, <4>2 DEF NewTransfer
    <3>3. CASE ~(k > n /\ k <= n + Len(bs))
      <4>1. \A i \in DOMAIN bs : <<p, k>> # <<p, n + i>> BY <1>0, <1>2, <3>3
      <4>2. xfer'[<<p, k>>] = xfer[<<p, k>>] BY <1>5, <3>1, <4>1
      <4>3. k \in Made(p) <=> xfer[<<p, k>>].kind # "none" BY DEF Made
      <4>4. k \in Made(p) <=> k <= n BY <1>0, <1>1, <1>2
      <4> QED BY <1>0, <1>2, <3>3, <4>2, <4>3, <4>4
    <3> QED BY <3>2, <3>3
  <2>2. Made(p)' = {k \in 1..MaxCalls : xfer'[<<p, k>>].kind # "none"} BY DEF Made
  <2> QED BY <1>0, <1>2, <2>1, <2>2
<1>7. LastCall(p)' = <<p, n + Len(bs)>>
  <2>1. n + Len(bs) \in Nat BY <1>2
  <2>2. Cardinality(1..(n + Len(bs))) = n + Len(bs) BY <2>1, FS_Interval
  <2>3. LastCall(p)' = <<p, Cardinality(Made(p)')>> BY DEF LastCall
  <2> QED BY <1>6, <2>2, <2>3
<1>8. ASSUME NEW q \in Callers, q # p PROVE Made(q)' = Made(q) /\ LastCall(q)' = LastCall(q)
  <2>1. ASSUME NEW k \in 1..MaxCalls PROVE xfer'[<<q, k>>] = xfer[<<q, k>>]
    <3>1. <<q, k>> \in Xfer BY LeafManagerAssumption DEF Call
    <3>2. \A i \in DOMAIN bs : <<q, k>> # <<p, n + i>> BY <1>8
    <3> QED BY <1>5, <3>1, <3>2
  <2>2. Made(q)' = Made(q) BY <2>1 DEF Made
  <2> QED BY <2>2 DEF LastCall
<1>9. n + Len(bs) \in 0..MaxCalls BY <1>0, <1>2
<1>10. NewCalls(n, p, kind, bs) BY <1>1, <1>4, <1>5, <1>6, <1>7, <1>8, <1>9 DEF NewCalls
<1> QED BY <1>2, <1>10

\* Only transfer x changes, and only leaves that it binds, or that nobody does.
LEMMA OneBinds ==
  ASSUME TypeOK, BoundInv, NEW x \in Xfer, \A y \in Xfer : y # x => xfer'[y] = xfer[y],
         \A l \in Bound(x)' : so'[l] = BoundAs(x)',
         \A l \in Leaf : so'[l] # so[l] \/ l \in Bound(x)' => l \in Bound(x) \/ so[l] \in {"avail", "absent"},
         \A l \in Bound(x) \cup Bound(x)' : so'[l] # so[l],
         \A l \in Leaf : so'[l] # so[l] /\ so'[l] \in {"held", "incoming"} => l \in Bound(x)',
         Sound(x)', x \in Call => xfer'[x].kind = xfer[x].kind
  PROVE  BoundInv' /\ OnlyMoved
<1>1. \A y \in Xfer : y # x => Bound(y)' = Bound(y) /\ BoundAs(y)' = BoundAs(y) /\ SameBut(y)
  BY DEF Bound, BoundAs, Claimable, Received, SameBut
<1>2. \A y \in Xfer : \A l \in Bound(y) : l \in Leaf /\ so[l] \in {"incoming", "creating", "held"}
  BY BoundType DEF BoundInv, LeavesBound, BoundAs
<1>3. \A y \in Xfer : y # x => \A l \in Bound(y) : so'[l] = so[l] /\ l \notin Bound(x)'
  BY <1>2 DEF BoundInv, BoundOnce
<1>4. LeavesBound' BY <1>1, <1>3 DEF BoundInv, LeavesBound
<1>5. BoundOnce' BY <1>1, <1>3 DEF BoundInv, BoundOnce
<1>6. Backed'
  <2> SUFFICES ASSUME NEW l \in Leaf, so'[l] \in {"held", "incoming"} PROVE \E y \in Xfer : l \in Bound(y)'
    BY DEF Backed
  <2>1. CASE so'[l] # so[l] BY <2>1
  <2>2. CASE so'[l] = so[l] BY <1>1, <2>2 DEF BoundInv, Backed
  <2> QED BY <2>1, <2>2
<1>7. \A y \in Xfer : Sound(y)' BY DEF BoundInv, Sound
<1>8. Numbered'
  <2>1. \A y \in Call : y \in Xfer BY LeafManagerAssumption DEF Call
  <2>2. \A y \in Call : xfer'[y].kind = xfer[y].kind BY <2>1
  <2> QED BY <2>2, NumbersKept DEF BoundInv
<1> QED BY <1>1, <1>4, <1>5, <1>6, <1>7, <1>8 DEF BoundInv, OnlyMoved

\* No leaf changes at the operators, and transfers bind what they bound.
LEMMA NoneBinds ==
  ASSUME BoundInv, UNCHANGED so, Numbered',
         \A x \in Xfer : \/ SameBut(x)
                         \/ /\ xfer[x].kind = "none" /\ xfer'[x].st = "none"
                            /\ xfer'[x].kind \notin {"none", "incoming", "deposit"}
  PROVE  BoundInv' /\ OnlyMoved
<1>1. \A x \in Xfer : \/ SameBut(x) /\ Bound(x)' = Bound(x) /\ BoundAs(x)' = BoundAs(x)
                      \/ Bound(x) = {} /\ Bound(x)' = {}
  <2> TAKE x \in Xfer
  <2>1. CASE SameBut(x) BY <2>1 DEF SameBut, Bound, BoundAs, Claimable, Received
  <2>2. CASE ~SameBut(x)
    <3>1. Sound(x) BY DEF BoundInv
    <3> QED BY <2>2, <3>1 DEF Sound, Bound, Claimable
  <2> QED BY <2>1, <2>2
<1>2. LeavesBound' BY <1>1 DEF BoundInv, LeavesBound
<1>3. BoundOnce'
  <2> SUFFICES ASSUME NEW x \in Xfer, NEW y \in Xfer, x # y PROVE Bound(x)' \cap Bound(y)' = {}
    BY DEF BoundOnce
  <2> QED BY <1>1 DEF BoundInv, BoundOnce
<1>4. Backed' BY <1>1 DEF BoundInv, Backed
<1>5. \A x \in Xfer : Sound(x)' BY DEF BoundInv, Sound, SameBut
<1>6. OnlyMoved BY <1>1 DEF OnlyMoved
<1> QED BY <1>2, <1>3, <1>4, <1>5, <1>6 DEF BoundInv

\* The same transfers but for their calls.
LEMMA SameBinds ==
  ASSUME BoundInv, UNCHANGED so, \A x \in Xfer : SameBut(x)
  PROVE  BoundInv' /\ OnlyMoved
<1>1. \A x \in Call : x \in Xfer BY LeafManagerAssumption DEF Call
<1>2. \A x \in Call : xfer'[x].kind = xfer[x].kind BY <1>1 DEF SameBut
<1>3. Numbered' BY <1>2, NumbersKept DEF BoundInv
<1> QED BY <1>3, NoneBinds

\* A call is answered or over.
LEMMA CallSet ==
  ASSUME TypeOK, BoundInv, UNCHANGED so, NEW x, NEW call, xfer' = [xfer EXCEPT ![x].call = call], call # "sent"
  PROVE  BoundInv' /\ OnlyMoved
<1>1. \A y \in Xfer : SameBut(y)
  <2> TAKE y \in Xfer
  <2>1. PICK t \in Transfer : t = xfer[y] BY DEF TypeOK
  <2>2. xfer'[y] = xfer[y] \/ xfer'[y] = [xfer[y] EXCEPT !.call = call] BY DEF TypeOK
  <2> QED BY <2>1, <2>2 DEF Transfer, SameBut
<1> QED BY <1>1, SameBinds

\* Calls are made.
LEMMA CallsBind ==
  ASSUME BoundInv, UNCHANGED so, NEW p \in Callers, NEW kind \in {"swap", "send", "self"},
         NEW bs \in Seq(SUBSET Leaf), Calls(p, kind, bs)
  PROVE  BoundInv' /\ OnlyMoved
<1>1. Numbered BY DEF BoundInv
<1>2. PICK n \in Nat : NewCalls(n, p, kind, bs) BY <1>1, CallsNumbered
<1>3. \A x \in Xfer : \/ xfer'[x] = xfer[x]
                      \/ /\ xfer[x].kind = "none" /\ xfer'[x].st = "none"
                         /\ xfer'[x].kind \notin {"none", "incoming", "deposit"}
  <2> TAKE x \in Xfer
  <2>1. CASE \E i \in DOMAIN bs : x = <<p, n + i>>
    <3>1. PICK i \in DOMAIN bs : x = <<p, n + i>> BY <2>1
    <3>2. xfer[x].kind = "none" /\ xfer'[x] = NewTransfer(kind, bs[i], "none", "sent")
      BY <1>2, <3>1 DEF NewCalls
    <3> QED BY <3>2 DEF NewTransfer
  <2>2. CASE ~ \E i \in DOMAIN bs : x = <<p, n + i>> BY <1>2, <2>2 DEF NewCalls
  <2> QED BY <2>1, <2>2
<1>4. \A x \in Xfer : \/ SameBut(x)
                      \/ /\ xfer[x].kind = "none" /\ xfer'[x].st = "none"
                         /\ xfer'[x].kind \notin {"none", "incoming", "deposit"}
  BY <1>3 DEF SameBut
<1>5. Numbered'
  <2> SUFFICES ASSUME NEW r \in Callers PROVE \E m \in 0..MaxCalls : Made(r)' = 1..m BY DEF Numbered
  <2>1. CASE r = p BY <1>2, <2>1 DEF NewCalls
  <2>2. CASE r # p
    <3>1. Made(r)' = Made(r) BY <1>2, <2>2 DEF NewCalls
    <3> QED BY <1>1, <3>1 DEF Numbered
  <2> QED BY <2>1, <2>2
<1> QED BY <1>4, <1>5, NoneBinds

\* A transfer is claimed, for the first time or again.
LEMMA ClaimBinds ==
  ASSUME TypeOK, BoundInv, NEW x \in Xfer, xfer[x].st \in {"tweaked", "completed"}, so' = SoAfterClaim(x),
         \/ xfer' = [xfer EXCEPT ![x].st = "completed"]
         \/ xfer' = [xfer EXCEPT ![x].call = "over", ![x].st = "completed"]
  PROVE  BoundInv' /\ OnlyMoved
<1>1. \A y \in Xfer : y # x => xfer'[y] = xfer[y] BY DEF TypeOK
<1>2. /\ xfer'[x].kind = xfer[x].kind /\ xfer'[x].st = "completed"
      /\ xfer'[x].call \in {xfer[x].call, "over"}
  <2>1. PICK t \in Transfer : t = xfer[x] BY DEF TypeOK
  <2>2. \/ xfer'[x] = [xfer[x] EXCEPT !.st = "completed"]
        \/ xfer'[x] = [xfer[x] EXCEPT !.call = "over", !.st = "completed"]
    BY DEF TypeOK
  <2> QED BY <2>1, <2>2 DEF Transfer
<1>3. Bound(x)' = {} BY <1>2 DEF Bound, Claimable
<1>4. \A l \in Leaf : so'[l] # so[l] => l \in Bound(x) BY DEF SoAfterClaim, Bound, Claimable
<1>5. \A l \in Bound(x) : l \in Leaf /\ so[l] = "incoming" /\ so'[l] = "avail"
  <2>1. \A l \in Bound(x) : so[l] = BoundAs(x) BY DEF BoundInv, LeavesBound
  <2> QED BY <2>1, BoundType DEF SoAfterClaim, Bound, BoundAs, Claimable
<1>6. \A l \in Leaf : so'[l] # so[l] => so'[l] = "avail" BY DEF SoAfterClaim
<1>7. Sound(x)'
  <2>1. Sound(x) BY DEF BoundInv
  <2> QED BY <1>2, <2>1 DEF Sound
<1> QED BY <1>1, <1>2, <1>3, <1>4, <1>5, <1>6, <1>7, OneBinds

\* The fields of a transfer that gets another status.
LEMMA StatusFields ==
  ASSUME TypeOK, NEW x \in Xfer, NEW st, xfer' = [xfer EXCEPT ![x].st = st]
  PROVE  /\ \A y \in Xfer : y # x => xfer'[y] = xfer[y]
         /\ xfer'[x].st = st /\ xfer'[x].kind = xfer[x].kind /\ xfer'[x].leaves = xfer[x].leaves
         /\ xfer'[x].new = xfer[x].new /\ xfer'[x].call = xfer[x].call
<1>1. PICK t \in Transfer : t = xfer[x] BY DEF TypeOK
<1>2. xfer'[x] = [t EXCEPT !.st = st] BY <1>1 DEF TypeOK
<1>3. \A y \in Xfer : y # x => xfer'[y] = xfer[y] BY DEF TypeOK
<1> QED BY <1>1, <1>2, <1>3 DEF Transfer

\* The operators answer: they take all the leaves of a call, or none.
LEMMA AnswerBinds ==
  ASSUME TypeOK, BoundInv, NEW x \in Xfer, SoAnswers(x)
  PROVE  BoundInv' /\ OnlyMoved
<1>1. CASE \A l \in xfer[x].leaves : so[l] = "avail"
  <2>1. /\ xfer' = [xfer EXCEPT ![x].call = "accepted", ![x].st = "initiated"]
        /\ so' = [l \in Leaf |-> IF l \in xfer[x].leaves THEN "held" ELSE so[l]]
    BY <1>1 DEF SoAnswers
  <2>2. /\ \A y \in Xfer : y # x => xfer'[y] = xfer[y]
        /\ xfer'[x].st = "initiated" /\ xfer'[x].kind = xfer[x].kind
        /\ xfer'[x].leaves = xfer[x].leaves /\ xfer'[x].call = "accepted"
    <3>1. PICK t \in Transfer : t = xfer[x] BY DEF TypeOK
    <3>2. xfer'[x] = [t EXCEPT !.call = "accepted", !.st = "initiated"] BY <2>1, <3>1 DEF TypeOK
    <3> QED BY <2>1, <3>1, <3>2 DEF TypeOK, Transfer
  <2>3. xfer[x].kind \notin {"none", "incoming", "deposit"} /\ xfer[x].st = "none"
    BY DEF SoAnswers, BoundInv, Sound
  <2>4. /\ Bound(x) = {} /\ Bound(x)' = xfer[x].leaves /\ BoundAs(x)' = "held"
        /\ Sound(x)'
    BY <2>2, <2>3 DEF Bound, BoundAs, Claimable, Sound
  <2>5. xfer[x].leaves \subseteq Leaf
    <3>1. PICK t \in Transfer : t = xfer[x] BY DEF TypeOK
    <3> QED BY <3>1 DEF Transfer
  <2> QED BY <1>1, <2>1, <2>2, <2>3, <2>4, <2>5, OneBinds
<1>2. CASE ~ \A l \in xfer[x].leaves : so[l] = "avail"
  BY <1>2, CallSet DEF SoAnswers
<1> QED BY <1>1, <1>2

\* The key tweak of a transfer is applied.
LEMMA TweakBinds ==
  ASSUME TypeOK, BoundInv, NEW x \in Xfer, SoTweaks(x)
  PROVE  BoundInv' /\ OnlyMoved
<1>1. /\ xfer[x].st = "initiated" /\ xfer[x].kind \notin {"swap", "deposit", "incoming", "none"}
      /\ xfer[x].call # "sent"
      /\ xfer' = [xfer EXCEPT ![x].st = "tweaked"]
      /\ so' = [l \in Leaf |-> IF l \notin xfer[x].leaves THEN so[l]
                               ELSE IF xfer[x].kind = "self" THEN "incoming" ELSE "gone"]
  BY DEF SoTweaks, BoundInv, Sound
<1>2. /\ \A y \in Xfer : y # x => xfer'[y] = xfer[y]
      /\ xfer'[x].st = "tweaked" /\ xfer'[x].kind = xfer[x].kind
      /\ xfer'[x].leaves = xfer[x].leaves /\ xfer'[x].call # "sent"
  BY <1>1, StatusFields
<1>3. /\ Bound(x) = xfer[x].leaves /\ BoundAs(x)' = "incoming" /\ BoundAs(x) = "held"
      /\ Bound(x)' = IF xfer[x].kind = "self" THEN xfer[x].leaves ELSE {}
  BY <1>1, <1>2 DEF Bound, BoundAs, Claimable, Received
<1>4. Bound(x) \subseteq Leaf BY BoundType
<1>5. \A l \in Bound(x) : so[l] = "held" BY <1>3 DEF BoundInv, LeavesBound
<1>6. Sound(x)' BY <1>1, <1>2 DEF Sound
<1> QED BY <1>1, <1>2, <1>3, <1>4, <1>5, <1>6, OneBinds

\* The SSP takes the leaves of a swap, and brings leaves that did not exist.
LEMMA SspBinds ==
  ASSUME TypeOK, BoundInv, NEW x \in Xfer, SspSwaps(x)
  PROVE  BoundInv' /\ OnlyMoved
<1>1. PICK new \in SUBSET {l \in Leaf : so[l] = "absent"} :
        /\ xfer' = [xfer EXCEPT ![x].st = "tweaked", ![x].new = new]
        /\ so' = [l \in Leaf |-> IF l \in new THEN "incoming"
                                 ELSE IF l \in xfer[x].leaves THEN "gone" ELSE so[l]]
  BY DEF SspSwaps
<1>2. /\ \A y \in Xfer : y # x => xfer'[y] = xfer[y]
      /\ xfer'[x].st = "tweaked" /\ xfer'[x].kind = xfer[x].kind /\ xfer'[x].new = new
      /\ xfer'[x].call = xfer[x].call
  <2>1. PICK t \in Transfer : t = xfer[x] BY DEF TypeOK
  <2>2. xfer'[x] = [t EXCEPT !.st = "tweaked", !.new = new] BY <1>1, <2>1 DEF TypeOK
  <2> QED BY <1>1, <2>1, <2>2 DEF TypeOK, Transfer
<1>3. /\ xfer[x].kind = "swap" /\ Bound(x) = xfer[x].leaves /\ BoundAs(x) = "held"
      /\ Bound(x)' = new /\ BoundAs(x)' = "incoming"
  BY <1>2 DEF SspSwaps, Bound, BoundAs, Claimable, Received
<1>4. Bound(x) \subseteq Leaf BY BoundType
<1>5. \A l \in Bound(x) : so[l] = "held" BY <1>3 DEF BoundInv, LeavesBound
<1>6. Sound(x)'
  <2>1. Sound(x) BY DEF BoundInv
  <2> QED BY <1>2, <1>3, <2>1 DEF Sound, SspSwaps
<1> QED BY <1>1, <1>2, <1>3, <1>4, <1>5, <1>6, OneBinds

\* A transfer is returned, or a deposit confirmed: its leaves are free.
LEMMA ReleaseBinds ==
  ASSUME TypeOK, BoundInv, NEW x \in Xfer, SoReturns(x) \/ DepositConfirmed(x)
  PROVE  BoundInv' /\ OnlyMoved
<1>1. PICK st \in {"returned", "tweaked"} :
      /\ xfer[x].st = "initiated" /\ (st = "returned" \/ xfer[x].kind = "deposit")
      /\ xfer[x].kind # "none" /\ xfer[x].call # "sent"
      /\ xfer' = [xfer EXCEPT ![x].st = st]
      /\ so' = [l \in Leaf |-> IF l \in xfer[x].leaves THEN "avail" ELSE so[l]]
  BY DEF SoReturns, DepositConfirmed, BoundInv, Sound
<1>2. /\ \A y \in Xfer : y # x => xfer'[y] = xfer[y]
      /\ xfer'[x].st = st /\ xfer'[x].kind = xfer[x].kind /\ xfer'[x].call # "sent"
  BY <1>1, StatusFields
<1>3. Bound(x) = xfer[x].leaves /\ Bound(x)' = {} /\ BoundAs(x) # "avail"
  BY <1>1, <1>2 DEF Bound, BoundAs, Claimable
<1>4. \A l \in Bound(x) : l \in Leaf /\ so[l] # "avail" BY <1>3, BoundType DEF BoundInv, LeavesBound
<1>5. Sound(x)' BY <1>1, <1>2 DEF Sound
<1> QED BY <1>1, <1>2, <1>3, <1>4, <1>5, OneBinds

\* Another instance of the wallet takes leaves that are free.
LEMMA OtherBinds ==
  ASSUME TypeOK, BoundInv, NEW x \in Xfer, OtherInstanceSends(x)
  PROVE  BoundInv' /\ OnlyMoved
<1>1. PICK S \in (SUBSET {l \in Leaf : so[l] = "avail"}) \ {{}} :
        /\ xfer' = [xfer EXCEPT ![x] = NewTransfer("other", S, "initiated", "none")]
        /\ so' = [l \in Leaf |-> IF l \in S THEN "held" ELSE so[l]]
  BY DEF OtherInstanceSends
<1>2. /\ \A y \in Xfer : y # x => xfer'[y] = xfer[y]
      /\ xfer'[x].st = "initiated" /\ xfer'[x].kind = "other" /\ xfer'[x].leaves = S
      /\ xfer'[x].call = "none"
  BY <1>1 DEF TypeOK, NewTransfer
<1>3. Bound(x) = {} /\ Bound(x)' = S /\ BoundAs(x)' = "held" /\ Sound(x)'
  BY <1>2 DEF OtherInstanceSends, BoundInv, Bound, BoundAs, Claimable, Sound
<1>4. x \notin Call BY LeafManagerAssumption DEF OtherInstanceSends, Call
<1> QED BY <1>1, <1>2, <1>3, <1>4, OneBinds

\* An event is heard or missed.
LEMMA StreamBinds ==
  ASSUME TypeOK, BoundInv, NEW x \in Xfer, Stream(x)
  PROVE  BoundInv' /\ OnlyMoved
<1>1. xfer' = [xfer EXCEPT ![x].heard = @ + 1] /\ UNCHANGED so BY DEF Stream, Hear, Miss
<1>2. \A y \in Xfer : SameBut(y)
  <2> TAKE y \in Xfer
  <2>1. PICK t \in Transfer : t = xfer[y] BY DEF TypeOK
  <2>2. xfer'[y] = xfer[y] \/ xfer'[y] = [xfer[y] EXCEPT !.heard = @ + 1] BY <1>1 DEF TypeOK
  <2> QED BY <2>1, <2>2 DEF Transfer, SameBut
<1> QED BY <1>1, <1>2, SameBinds

\* The steps of an operation that change what the operators hold.
LEMMA StepTransfers ==
  ASSUME NEW p \in Op, Step(p)
  PROVE  \/ UNCHANGED <<so, xfer>>
         \/ SwapSend(p) \/ ExecuteSender(p) \/ ExecuteSweeper(p)
         \/ SwapInitiated(p) \/ SwapCallFails(p) \/ ExecutorSent(p) \/ ExecutorCallFails(p)
         \/ ExecutorThrows(p)
         \/ SwapClaims(p) \/ ExecutorClaims(p) \/ Claim(p)
<1>1. Swap(p) => SwapSend(p) \/ SwapInitiated(p) \/ SwapCallFails(p) \/ SwapClaims(p) \/ UNCHANGED <<so, xfer>>
  BY DEF operators, Swap, SwapFailsAtSsp, SwapSelected, SwapOptimized
<1>2. Execute(p) => \/ ExecuteSender(p) \/ ExecuteSweeper(p) \/ ExecutorSent(p) \/ ExecutorCallFails(p)
                    \/ ExecutorThrows(p) \/ ExecutorClaims(p) \/ UNCHANGED <<so, xfer>>
  BY DEF operators, Execute, RenewalThrows, QuoteReleases, ExecutorReturns
<1>3. Select(p) \/ Optimize(p) \/ Fetch(p) \/ HandleDeposit(p) => UNCHANGED <<so, xfer>>
  BY DEF operators, Select, SelectExact, SelectForSwap, NotEnoughLeaves, SweepSelect, Optimize, OptimizeStart,
         OptimizePlan, OptimizeSkip, OptimizeNext, OptimizeEnd, Fetch, FetchStart, FetchAnswer, FetchFails,
         SyncApply, RefreshAdd, RefreshEvict, HandleDeposit, DepositCreating, DepositAvailable,
         DepositVerify, DepositAdd
<1>4. Claims(p) => Claim(p) \/ UNCHANGED <<so, xfer>>
  BY DEF operators, Claims, ClaimStart, RegisterClaimed, RegisterThrows
<1>5. WaitOrProceed(p) \/ WaitTimesOut(p) \/ CheckBalance(p) => UNCHANGED <<so, xfer>>
  BY DEF operators, WaitOrProceed, WaitTimesOut, CheckBalance
<1> QED BY <1>1, <1>2, <1>3, <1>4, <1>5 DEF Step

\* The steps of an operation that make calls, learn of them or claim.
LEMMA StepBinds ==
  ASSUME TInv, BoundInv, NEW p \in Op, Step(p)
  PROVE  BoundInv' /\ OnlyMoved
<1>1. CASE UNCHANGED <<so, xfer>>
  <2>1. \A x \in Xfer : SameBut(x) BY <1>1 DEF SameBut
  <2> QED BY <1>1, <2>1, SameBinds
<1>2. CASE SwapSend(p)
  <2>1. p \in Callers BY <1>2 DEF SwapSend, At, TInv, Control, Placed, Callers
  <2>2. <<SwapLeaves(p)>> \in Seq(SUBSET Leaf)
    BY <1>2, <2>1, HoldsType DEF SwapSend, At, SwapLeaves, TInv, TypeOK, Control, Placed, Callers
  <2> QED BY <1>2, <2>1, <2>2, CallsBind DEF SwapSend
<1>3. CASE ExecuteSender(p) \/ ExecuteSweeper(p)
  <2>1. UNCHANGED so BY <1>3 DEF ExecuteSender, ExecuteSweeper
  <2>2. p \in Callers BY <1>3 DEF ExecuteSender, ExecuteSweeper, Callers
  <2>3. batches[p] \in Seq(SUBSET Leaf) /\ Holds(p) \in SUBSET Leaf
    BY <2>2, HoldsType DEF TInv, TypeOK
  <2>4. \A S \in SUBSET Leaf : <<S>> \in Seq(SUBSET Leaf) OBVIOUS
  <2>5. \A kept \in Kept(Holds(p)) : kept \in SUBSET Leaf BY <2>3 DEF Kept
  <2>6. \/ UNCHANGED xfer
        \/ \E kind \in {"swap", "send", "self"} : \E bs \in Seq(SUBSET Leaf) : Calls(p, kind, bs)
    BY <1>3, <2>3, <2>4, <2>5 DEF ExecuteSender, ExecuteSweeper
  <2>7. CASE UNCHANGED xfer BY <1>1, <2>1, <2>7
  <2> QED BY <2>1, <2>2, <2>6, <2>7, CallsBind
<1>4. CASE SwapInitiated(p) \/ SwapCallFails(p) \/ ExecutorSent(p) \/ ExecutorCallFails(p)
  <2>1. UNCHANGED so /\ \E x : CallOver(x)
    BY <1>4 DEF SwapInitiated, SwapCallFails, ExecutorSent, ExecutorCallFails
  <2> QED BY <2>1, CallSet DEF CallOver, TInv
<1>5. CASE ExecutorThrows(p)
  <2>1. UNCHANGED so BY <1>5 DEF ExecutorThrows
  <2>2. \A x \in Xfer : SameBut(x)
    <3> TAKE x \in Xfer
    <3>1. PICK t \in Transfer : t = xfer[x] BY DEF TInv, TypeOK
    <3>2. xfer'[x] = xfer[x] \/ xfer'[x] = [xfer[x] EXCEPT !.call = "over"] BY <1>5 DEF ExecutorThrows
    <3> QED BY <3>1, <3>2 DEF Transfer, SameBut
  <2> QED BY <2>1, <2>2, SameBinds
<1>6. CASE SwapClaims(p)
  <2>1. p \in Callers /\ Made(p) # {} BY <1>6 DEF SwapClaims, At, TInv, Control, Placed, Callers
  <2>2. PICK x \in Xfer : x = LastCall(p) BY <2>1, CallIds
  <2> QED BY <1>6, <2>2, ClaimBinds DEF SwapClaims, TInv
<1>7. CASE ExecutorClaims(p)
  <2>1. PICK x \in CallsOf(p) : /\ xfer[x].st \in {"tweaked", "completed"}
                                /\ xfer' = [xfer EXCEPT ![x].call = "over", ![x].st = "completed"]
                                /\ so' = SoAfterClaim(x)
    BY <1>7 DEF ExecutorClaims
  <2>2. x \in Xfer BY <1>7, CallsOfType DEF ExecutorClaims
  <2> QED BY <2>1, <2>2, ClaimBinds DEF TInv
<1>8. CASE Claim(p)
  <2>1. p \in Claimer BY <1>8 DEF Claim, At, TInv, Control, Placed
  <2>2. PICK x \in Xfer : x = ClaimOf[p] BY <2>1, LeafManagerAssumption
  <2> QED BY <1>8, <2>2, ClaimBinds DEF Claim, TInv
<1> QED BY <1>1, <1>2, <1>3, <1>4, <1>5, <1>6, <1>7, <1>8, StepTransfers

\* Every step keeps the invariant.
LEMMA NextBinds ==
  ASSUME TInv, BoundInv, [Next]_vars
  PROVE  BoundInv' /\ OnlyMoved
<1>1. CASE UNCHANGED vars
  <2>1. \A x \in Xfer : SameBut(x) BY <1>1 DEF vars, operators, SameBut
  <2> QED BY <1>1, <2>1, SameBinds DEF vars, operators
<1>2. ASSUME NEW x \in Xfer, Stream(x) \/ Operators(x) PROVE BoundInv' /\ OnlyMoved
  BY <1>2, StreamBinds, AnswerBinds, TweakBinds, SspBinds, ReleaseBinds, OtherBinds DEF TInv, Operators
<1> QED BY <1>1, <1>2, StepBinds DEF Next

\* At the start only what comes in is bound, and it is new.
LEMMA InitBinds == Init => BoundInv
<1> SUFFICES ASSUME Init PROVE BoundInv OBVIOUS
<1>1. /\ \A x \in Incoming \cup Deposits : x \in Xfer /\ InLeaves[x] \subseteq Leaf /\ InLeaves[x] \cap Owned = {}
      /\ \A x, y \in Incoming \cup Deposits : x # y => InLeaves[x] \cap InLeaves[y] = {}
      /\ Incoming \cap Deposits = {}
  BY LeafManagerAssumption
<1>2. \A x \in Xfer : xfer[x] = IF x \in Incoming THEN NewTransfer("incoming", InLeaves[x], "tweaked", "none")
                                ELSE IF x \in Deposits THEN NewTransfer("deposit", InLeaves[x], "initiated", "none")
                                ELSE NoTransfer
  BY DEF Init
<1>3. ASSUME NEW x \in Xfer
      PROVE  /\ Bound(x) = IF x \in Incoming \cup Deposits THEN InLeaves[x] ELSE {}
             /\ x \in Incoming => BoundAs(x) = "incoming"
             /\ x \in Deposits => BoundAs(x) = "creating"
             /\ Sound(x)
  <2>1. CASE x \in Incoming
    <3>1. xfer[x] = NewTransfer("incoming", InLeaves[x], "tweaked", "none") BY <1>2, <2>1
    <3> QED BY <1>1, <2>1, <3>1 DEF Bound, BoundAs, Claimable, Received, Sound, NewTransfer
  <2>2. CASE x \in Deposits
    <3>1. xfer[x] = NewTransfer("deposit", InLeaves[x], "initiated", "none") BY <1>1, <1>2, <2>2
    <3> QED BY <1>1, <2>2, <3>1 DEF Bound, BoundAs, Claimable, Received, Sound, NewTransfer
  <2>3. CASE x \notin Incoming \cup Deposits
    <3>1. xfer[x] = NewTransfer("none", {}, "none", "none") BY <1>2, <2>3 DEF NoTransfer
    <3> QED BY <2>3, <3>1 DEF Bound, Claimable, Sound, NewTransfer
  <2> QED BY <2>1, <2>2, <2>3
<1>4. /\ \A x \in Incoming : \A l \in InLeaves[x] : so[l] = "incoming"
      /\ \A x \in Deposits : \A l \in InLeaves[x] : so[l] = "creating"
  BY <1>1 DEF Init
<1>5. LeavesBound BY <1>3, <1>4 DEF LeavesBound
<1>6. BoundOnce BY <1>1, <1>3 DEF BoundOnce
<1>7. Backed
  <2>1. \A l \in Leaf : so[l] \in {"held", "incoming"} => \E x \in Incoming : l \in InLeaves[x] BY DEF Init
  <2> QED BY <1>1, <1>3, <2>1 DEF Backed
<1>8. Numbered
  <2> SUFFICES ASSUME NEW q \in Callers PROVE \E n \in 0..MaxCalls : Made(q) = 1..n BY DEF Numbered
  <2>1. \A x \in Call : x \in Xfer /\ x \notin Incoming \cup Deposits
    BY LeafManagerAssumption DEF Call
  <2>2. \A x \in Call : xfer[x] = NoTransfer BY <1>2, <2>1
  <2>3. Made(q) = {} BY <2>2 DEF Made, Call, NoTransfer, NewTransfer
  <2>4. 1..0 = {} /\ 0 \in 0..MaxCalls BY LeafManagerAssumption
  <2> QED BY <2>3, <2>4
<1> QED BY <1>3, <1>5, <1>6, <1>7, <1>8 DEF BoundInv

\* The invariant is inductive, beside type correctness.
LEMMA BoundInvariance == Spec => []BoundInv
<1>1. TInv /\ BoundInv /\ [Next]_vars => BoundInv' BY NextBinds
<1> QED BY <1>1, InitBinds, TypeInvariance, PTL DEF Spec

\* What the operators say of their transfers is said of leaves they hold free for nobody.
LEMMA AnswersAgree ==
  ASSUME BoundInv, NEW q \in Query \ {"leaves"}, NEW l \in Leaf, NEW x \in Xfer, <<l, x>> \in Answer(q)
  PROVE  so[l] # "avail"
<1>1. /\ <<xfer[x].kind, xfer[x].st>> \in Asked[q]
      /\ l \in IF q = "counter" THEN xfer[x].new ELSE xfer[x].leaves
  BY DEF Answer
<1>2. l \in Bound(x)
  BY <1>1 DEF Query, Asked, Bound, Claimable, Received
<1> QED BY <1>2 DEF BoundInv, LeavesBound, BoundAs

(***************************************************************************)
(* sync() repairs the cache whenever its answers are still true when they  *)
(* are applied, whatever else is under way: the leaves that may be spent   *)
(* are then those the operators hold free for the wallet, but for those an *)
(* operation has locked.                                                   *)
(***************************************************************************)
THEOREM SyncsRepair == Spec => SyncRepairs
<1>1. ASSUME TInv, BoundInv, NEW p \in Syncing, SyncApply(p),
             \A q \in Query : snap[p][q] = Answer(q)
      PROVE  Available(cache') = {l \in Leaf : so[l] = "avail" /\ cache[l].status # "LOCAL_LOCKED"}
  <2> DEFINE swaps == Answer("primary") \cup Answer("counter")
             outgoing == Answer("outgoing")
             incoming == Answer("incoming")
  <2>1. cache' = Synced(cache, Answer("leaves"), swaps, outgoing, incoming)
    BY <1>1 DEF SyncApply, SyncedWith, Query
  <2>2. \A l \in Leaf, x \in Xfer : <<l, x>> \in swaps \cup outgoing \cup incoming => so[l] # "avail"
    BY <1>1, AnswersAgree DEF Query
  <2>3. Answer("leaves") = {l \in Leaf : so[l] = "avail"} BY DEF Answer
  <2> HIDE DEF swaps, outgoing, incoming
  <2>4. ASSUME NEW l \in Leaf
        PROVE  cache'[l].status = "AVAILABLE" <=> so[l] = "avail" /\ cache[l].status # "LOCAL_LOCKED"
    BY <2>1, <2>2, <2>3 DEF Synced, SYNC_PRESERVED_STATUSES, NoRecord
  <2> QED BY <2>4 DEF Available, WithStatus
<1>2. TInv /\ BoundInv /\ [Next]_vars
      => [\A p \in Syncing :
            SyncApply(p) /\ (\A q \in Query : snap[p][q] = Answer(q))
            => Available(cache') = {l \in Leaf : so[l] = "avail" /\ cache[l].status # "LOCAL_LOCKED"}]_vars
  BY <1>1
<1> QED BY <1>2, TypeInvariance, BoundInvariance, PTL DEF Spec, SyncRepairs
-----------------------------------------------------------------------------
(***************************************************************************)
(* A sync errs about no leaf that did not move.  The answers it has got    *)
(* stay true of such a leaf (Awaited): a step of the operators moves every *)
(* leaf that the transfer it changes binds (OnlyMoved), so what it leaves  *)
(* alone is in the same transfers as before.                               *)
(***************************************************************************)
Awaited(p) ==
  /\ pc[p] = "fetched" => unread[p] = {}
  /\ Fetching(p) => \A l \in Leaf \ moved[p] :
       /\ "leaves" \notin unread[p] => (l \in snap[p]["leaves"] <=> so[l] = "avail")
       /\ \A q \in Query \ {"leaves"}, x \in Xfer :
            q \notin unread[p] => (<<l, x>> \in snap[p][q] <=> <<l, x>> \in Answer(q))
SyncInv == \A p \in Syncing : Awaited(p)

\* Free leaves that the answer p has just got leaves out.
Dropped(p) ==
  IF "leaves" \in unread[p] \ unread'[p]
  THEN {l \in Leaf : so[l] = "avail"} \ snap'[p]["leaves"]
  ELSE {}

\* What moved keeps of a sync that is under way, and stays so.
Track ==
  \A p \in Syncing : Fetching(p) /\ Fetching(p)' =>
    moved'[p] = moved[p] \cup {l \in Leaf : so'[l] # so[l]} \cup Dropped(p)

\* A transfer the operators tell of binds the leaves they tell of.
LEMMA AnswersBound ==
  ASSUME NEW q \in Query \ {"leaves"}, NEW l \in Leaf, NEW x \in Xfer
  PROVE  /\ <<l, x>> \in Answer(q) => l \in Bound(x)
         /\ <<l, x>> \in Answer(q)' => l \in Bound(x)'
BY DEF Answer, Query, Asked, Bound, Claimable, Received

\* The operators go on telling the same of a leaf that does not move.
LEMMA AnswersStand ==
  ASSUME OnlyMoved, NEW l \in Leaf, so'[l] = so[l], NEW q \in Query \ {"leaves"}, NEW x \in Xfer
  PROVE  <<l, x>> \in Answer(q)' <=> <<l, x>> \in Answer(q)
<1>1. CASE SameBut(x) BY <1>1 DEF SameBut, Answer
<1>2. CASE ~SameBut(x)
  <2>1. l \notin Bound(x) \cup Bound(x)' BY <1>2 DEF OnlyMoved
  <2> QED BY <2>1, AnswersBound
<1> QED BY <1>1, <1>2

\* What an operation waits to hear of its queries.
Heard(p) == IF Fetching(p) THEN pc[p] ELSE "idle"

\* A move that neither starts nor ends at a query.
LEMMA MoveAsksNothing ==
  ASSUME TInv, NEW p \in Op, NEW there, Goto(p, there) \/ NotifyAndGoto(p, there),
         there \notin {"fetch", "fetched"}, pc[p] \notin {"fetch", "fetched"}, NEW r \in Syncing
  PROVE  Heard(r)' = Heard(r)
<1>1. pc'[p] = there /\ \A q \in Op \ {p} : pc'[q] = pc[q] \/ (pc[q] = "waiting" /\ pc'[q] = "woken")
  BY DEF TInv, TypeOK, Goto, NotifyAndGoto
<1>2. r \in Op BY DEF Syncing, Op, Callers
<1> QED BY <1>1, <1>2 DEF Heard, Fetching

\* Only the steps of a query change what a sync has heard.
LEMMA OthersAskNothing ==
  ASSUME TInv, NEW p \in Op, Step(p), ~Fetch(p), NEW r \in Syncing
  PROVE  Heard(r)' = Heard(r) /\ UNCHANGED fetching
<1> DEFINE Moves == /\ UNCHANGED fetching
                    /\ \/ UNCHANGED pc
                       \/ /\ pc[p] \notin {"fetch", "fetched"}
                          /\ \E there \in PC \ {"fetch", "fetched"} : Goto(p, there) \/ NotifyAndGoto(p, there)
<1> USE DEF At, PC
<1>1. ASSUME NEW stale, Fails(p, stale)
      PROVE  \E there \in PC \ {"fetch", "fetched"} : Goto(p, there) \/ NotifyAndGoto(p, there)
  BY <1>1 DEF Fails
<1>2. WaitOrProceed(p) \/ WaitTimesOut(p) \/ CheckBalance(p) => Moves
  BY DEF WaitOrProceed, WaitTimesOut, CheckBalance
<1>3. Select(p) => Moves
  BY DEF Select, SelectExact, SelectForSwap, NotEnoughLeaves, SweepSelect, Capture
<1>4. Swap(p) => Moves
  <2>1. SwapSend(p) \/ SwapInitiated(p) \/ SwapClaims(p) \/ SwapOptimized(p) => Moves
    BY DEF SwapSend, SwapInitiated, SwapClaims, SwapOptimized
  <2>2. SwapSelected(p) => Moves BY DEF SwapSelected
  <2>3. SwapCallFails(p) \/ SwapFailsAtSsp(p) => Moves BY <1>1 DEF SwapCallFails, SwapFailsAtSsp
  <2> QED BY <2>1, <2>2, <2>3 DEF Swap
<1>5. Optimize(p) => Moves
  BY DEF Optimize, OptimizeStart, OptimizePlan, OptimizeSkip, OptimizeNext, OptimizeEnd, Capture
<1>6. Execute(p) => Moves
  <2>1. ExecuteSender(p) \/ ExecuteSweeper(p) \/ RenewalThrows(p) \/ ExecutorSent(p) => Moves
    BY DEF ExecuteSender, ExecuteSweeper, RenewalThrows, ExecutorSent
  <2>2. ExecutorClaims(p) \/ QuoteReleases(p) \/ ExecutorReturns(p) => Moves
    BY DEF ExecutorClaims, QuoteReleases, ExecutorReturns
  <2>3. ExecutorCallFails(p) \/ ExecutorThrows(p) => Moves BY <1>1 DEF ExecutorCallFails, ExecutorThrows
  <2> QED BY <2>1, <2>2, <2>3 DEF Execute
<1>7. Claims(p) => Moves
  BY <1>1 DEF Claims, ClaimStart, Claim, RegisterClaimed, RegisterThrows
<1>8. HandleDeposit(p) => Moves
  BY DEF HandleDeposit, DepositCreating, DepositAvailable, DepositVerify, DepositAdd
<1>9. Moves BY <1>2, <1>3, <1>4, <1>5, <1>6, <1>7, <1>8 DEF Step
<1>10. CASE UNCHANGED pc BY <1>9, <1>10 DEF Heard, Fetching
<1> QED BY <1>9, <1>10, MoveAsksNothing

\* The queries of others leave a sync alone.
LEMMA QueriesApart ==
  ASSUME TInv, NEW p \in Op, Fetch(p), NEW r \in Syncing, r # p
  PROVE  Heard(r)' = Heard(r) /\ unread'[r] = unread[r] /\ snap'[r] = snap[r]
<1>1. r \in Op BY DEF Syncing, Op, Callers
<1>2. /\ \E there : pc' = [pc EXCEPT ![p] = there]
      /\ UNCHANGED unread \/ \E Q : unread' = [unread EXCEPT ![p] = Q]
      /\ UNCHANGED snap \/ \E answers : snap' = [snap EXCEPT ![p] = answers]
  <2>1. CASE FetchStart(p) BY <2>1 DEF FetchStart, Goto
  <2>2. CASE FetchAnswer(p) BY <2>2 DEF FetchAnswer, Goto
  <2>3. CASE FetchFails(p) BY <2>3 DEF FetchFails, Goto
  <2>4. CASE SyncApply(p) BY <2>4 DEF SyncApply, Goto
  <2>5. CASE RefreshAdd(p) \/ RefreshEvict(p) BY <2>5 DEF RefreshAdd, RefreshEvict, Goto, fetching
  <2> QED BY <2>1, <2>2, <2>3, <2>4, <2>5 DEF Fetch
<1>3. pc'[r] = pc[r] /\ unread'[r] = unread[r] /\ snap'[r] = snap[r]
  BY <1>1, <1>2 DEF TInv, TypeOK
<1> QED BY <1>3 DEF Heard, Fetching

\* A refresh is no sync.
LEMMA RefreshersDoNotSync == Refresher \cap Syncing = {}
<1>1. DOMAIN <<Sender, Sweeper, Optimizer, Syncer, Refresher, Claimer, Depositor>> = 1..7 OBVIOUS
<1> QED BY <1>1, LeafManagerAssumption DEF Disjoint, Syncing

\* Every step but those of queries keeps moved as MovedTo has it.
LEMMA OthersTrack ==
  ASSUME UNCHANGED fetching, UNCHANGED soState \/ MovedTo(so')
  PROVE  Track
BY DEF Track, MovedTo, Dropped, fetching

LEMMA OthersMove ==
  ASSUME NEW p \in Op, Step(p), ~Fetch(p)
  PROVE  UNCHANGED soState \/ MovedTo(so')
<1> DEFINE Keeps == UNCHANGED soState \/ MovedTo(so')
<1> USE DEF operators
<1>1. WaitOrProceed(p) \/ WaitTimesOut(p) \/ CheckBalance(p) => Keeps
  BY DEF WaitOrProceed, WaitTimesOut, CheckBalance
<1>2. Select(p) => Keeps BY DEF Select, SelectExact, SelectForSwap, NotEnoughLeaves, SweepSelect
<1>3. Swap(p) => Keeps
  BY DEF Swap, SwapSend, SwapInitiated, SwapClaims, SwapOptimized, SwapSelected, SwapCallFails, SwapFailsAtSsp
<1>4. Optimize(p) => Keeps
  BY DEF Optimize, OptimizeStart, OptimizePlan, OptimizeSkip, OptimizeNext, OptimizeEnd
<1>5. Execute(p) => Keeps
  BY DEF Execute, ExecuteSender, ExecuteSweeper, RenewalThrows, ExecutorSent, ExecutorClaims,
         QuoteReleases, ExecutorReturns, ExecutorCallFails, ExecutorThrows
<1>6. Claims(p) => Keeps BY DEF Claims, ClaimStart, Claim, RegisterClaimed, RegisterThrows
<1>7. HandleDeposit(p) => Keeps
  BY DEF HandleDeposit, DepositCreating, DepositAvailable, DepositVerify, DepositAdd
<1> QED BY <1>1, <1>2, <1>3, <1>4, <1>5, <1>6, <1>7 DEF Step

\* A query, and what ends it.
LEMMA FetchTracks ==
  ASSUME TInv, NEW p \in Op, Fetch(p)
  PROVE  Track
<1> SUFFICES ASSUME NEW r \in Syncing, Fetching(r), Fetching(r)'
             PROVE  moved'[r] = moved[r] \cup {l \in Leaf : so'[l] # so[l]} \cup Dropped(r)
  BY DEF Track
<1>0. r \in Op BY DEF Op, Callers
<1>1. UNCHANGED so
  BY DEF Fetch, FetchStart, FetchAnswer, FetchFails, SyncApply, RefreshAdd, RefreshEvict, operators
<1>2. CASE r # p
  <2>1. unread'[r] = unread[r] BY <1>2, QueriesApart
  <2>2. moved'[r] = moved[r]
    BY <1>2 DEF Fetch, FetchStart, FetchAnswer, FetchFails, SyncApply, RefreshAdd, RefreshEvict,
                Forgotten, operators
  <2> QED BY <1>1, <2>1, <2>2 DEF Dropped
<1>3. CASE r = p
  <2> USE DEF At
  <2>1. CASE FetchStart(p) BY <1>3, <2>1 DEF FetchStart, Fetching
  <2>2. CASE FetchAnswer(p)
    <3>1. PICK Q :
            /\ Q \in IF AtomicFetch THEN {unread[p]} ELSE {{q} : q \in unread[p]}
            /\ \E leaves \in Kept(Answer("leaves")) :
                 /\ snap' = [snap EXCEPT ![p] =
                               [q \in Query |-> IF q \notin Q THEN snap[p][q]
                                                ELSE IF q = "leaves" THEN leaves ELSE Answer(q)]]
                 /\ moved' = [s \in Syncing |-> IF s = p /\ "leaves" \in Q
                                                THEN moved[s] \cup (Answer("leaves") \ leaves)
                                                ELSE moved[s]]
            /\ unread' = [unread EXCEPT ![p] = @ \ Q]
      BY <2>2 DEF FetchAnswer
    <3>2. PICK leaves :
            /\ snap' = [snap EXCEPT ![p] =
                          [q \in Query |-> IF q \notin Q THEN snap[p][q]
                                           ELSE IF q = "leaves" THEN leaves ELSE Answer(q)]]
            /\ moved' = [s \in Syncing |-> IF s = p /\ "leaves" \in Q
                                           THEN moved[s] \cup (Answer("leaves") \ leaves)
                                           ELSE moved[s]]
      BY <3>1
    <3>3. Q \subseteq unread[p] /\ unread'[p] = unread[p] \ Q BY <1>0, <1>3, <3>1 DEF TInv, TypeOK
    <3>4. "leaves" \in Q => snap'[p]["leaves"] = leaves BY <1>0, <1>3, <3>2 DEF TInv, TypeOK, Query
    <3>5. Dropped(p) = IF "leaves" \in Q THEN Answer("leaves") \ leaves ELSE {}
      BY <3>3, <3>4 DEF Dropped, Answer
    <3>6. moved'[p] = IF "leaves" \in Q THEN moved[p] \cup (Answer("leaves") \ leaves) ELSE moved[p]
      BY <1>3, <3>2
    <3> QED BY <1>1, <1>3, <3>5, <3>6
  <2>3. CASE FetchFails(p) \/ SyncApply(p)
    <3>1. pc'[p] \notin {"fetch", "fetched"} BY <2>3 DEF FetchFails, SyncApply, Goto, TInv, TypeOK
    <3> QED BY <1>3, <3>1 DEF Fetching
  <2>4. CASE RefreshAdd(p) \/ RefreshEvict(p)
    BY <1>3, <2>4, RefreshersDoNotSync DEF RefreshAdd, RefreshEvict
  <2> QED BY <2>1, <2>2, <2>3, <2>4 DEF Fetch
<1> QED BY <1>2, <1>3

\* Every step keeps moved as it should be.
LEMMA StepTracks ==
  ASSUME TInv, Next
  PROVE  Track
<1>1. ASSUME NEW p \in Op, Step(p), ~Fetch(p) PROVE Track
  <2>1. CASE Syncing = {} BY <2>1 DEF Track
  <2>2. ASSUME NEW r \in Syncing PROVE UNCHANGED fetching BY <1>1, OthersAskNothing
  <2> QED BY <1>1, <2>1, <2>2, OthersMove, OthersTrack
<1>2. ASSUME NEW x \in Xfer, Stream(x) \/ Operators(x) PROVE Track
  <2>1. UNCHANGED fetching /\ (UNCHANGED soState \/ MovedTo(so'))
    BY <1>2 DEF Stream, Operators, Hear, Miss, SoAnswers, SoTweaks, SspSwaps, SoReturns,
                DepositConfirmed, OtherInstanceSends
  <2> QED BY <2>1, OthersTrack
<1> QED BY <1>1, <1>2, FetchTracks DEF Next

\* An answer is true of the leaves that do not move when it is given.
LEMMA AnswerHeard ==
  ASSUME TInv, OnlyMoved, NEW p \in Syncing, Awaited(p), FetchAnswer(p), Track
  PROVE  Awaited(p)'
<1>0. p \in Op BY DEF Syncing, Op, Callers
<1>1. PICK Q :
        /\ Q \in IF AtomicFetch THEN {unread[p]} ELSE {{q} : q \in unread[p]}
        /\ \E leaves \in Kept(Answer("leaves")) :
             /\ snap' = [snap EXCEPT ![p] =
                           [q \in Query |-> IF q \notin Q THEN snap[p][q]
                                            ELSE IF q = "leaves" THEN leaves ELSE Answer(q)]]
             /\ moved' = [r \in Syncing |-> IF r = p /\ "leaves" \in Q
                                            THEN moved[r] \cup (Answer("leaves") \ leaves)
                                            ELSE moved[r]]
        /\ unread' = [unread EXCEPT ![p] = @ \ Q]
        /\ Goto(p, IF unread[p] = Q THEN "fetched" ELSE "fetch")
  BY DEF FetchAnswer
<1>2. PICK leaves \in Kept(Answer("leaves")) :
        snap' = [snap EXCEPT ![p] = [q \in Query |-> IF q \notin Q THEN snap[p][q]
                                                     ELSE IF q = "leaves" THEN leaves ELSE Answer(q)]]
  BY <1>1
<1>3. /\ Q \subseteq unread[p] /\ unread'[p] = unread[p] \ Q
      /\ pc[p] = "fetch" /\ pc'[p] = IF unread[p] = Q THEN "fetched" ELSE "fetch"
  BY <1>0, <1>1 DEF FetchAnswer, At, Goto, TInv, TypeOK
<1>4. \A q \in Query : snap'[p][q] = IF q \notin Q THEN snap[p][q] ELSE IF q = "leaves" THEN leaves ELSE Answer(q)
  BY <1>0, <1>2 DEF TInv, TypeOK
<1>5. UNCHANGED <<so, xfer>> BY DEF FetchAnswer, operators
<1>6. moved'[p] = moved[p] \cup {l \in Leaf : so'[l] # so[l]} \cup Dropped(p)
  BY <1>3 DEF Track, Fetching
<1>7. \A l \in leaves : l \in Leaf /\ so[l] = "avail"
  BY DEF Kept, Answer
<1>8. ASSUME NEW l \in Leaf \ moved'[p], "leaves" \notin unread'[p]
      PROVE  l \in snap'[p]["leaves"] <=> so'[l] = "avail"
  <2>1. l \notin moved[p] /\ l \notin Dropped(p) BY <1>6, <1>8
  <2>2. CASE "leaves" \in Q
    <3>1. snap'[p]["leaves"] = leaves BY <1>4, <2>2 DEF Query
    <3>2. "leaves" \in unread[p] \ unread'[p] BY <1>3, <2>2
    <3>3. so[l] = "avail" => l \in leaves BY <2>1, <3>1, <3>2 DEF Dropped
    <3> QED BY <1>5, <1>7, <3>1, <3>3
  <2>3. CASE "leaves" \notin Q
    <3>1. "leaves" \notin unread[p] /\ snap'[p]["leaves"] = snap[p]["leaves"]
      BY <1>3, <1>4, <1>8, <2>3 DEF Query
    <3> QED BY <1>3, <1>5, <2>1, <3>1 DEF Awaited, Fetching
  <2> QED BY <2>2, <2>3
<1>9. ASSUME NEW l \in Leaf \ moved'[p], NEW q \in Query \ {"leaves"}, NEW x \in Xfer, q \notin unread'[p]
      PROVE  <<l, x>> \in snap'[p][q] <=> <<l, x>> \in Answer(q)'
  <2>1. l \notin moved[p] BY <1>6
  <2>2. Answer(q)' = Answer(q) BY <1>5 DEF Answer
  <2>3. CASE q \in Q BY <1>4, <2>2, <2>3
  <2>4. CASE q \notin Q
    <3>1. q \notin unread[p] /\ snap'[p][q] = snap[p][q] BY <1>3, <1>4, <1>9, <2>4
    <3> QED BY <1>3, <2>1, <2>2, <3>1 DEF Awaited, Fetching
  <2> QED BY <2>3, <2>4
<1> QED BY <1>3, <1>8, <1>9 DEF Awaited

\* What a sync has heard stays true of the leaves that do not move, whatever others do.
LEMMA HeardStands ==
  ASSUME OnlyMoved, NEW p \in Syncing, Awaited(p), Track,
         Heard(p)' = Heard(p), unread'[p] = unread[p], snap'[p] = snap[p]
  PROVE  Awaited(p)'
<1>1. (Fetching(p)' <=> Fetching(p)) /\ (Fetching(p) => pc'[p] = pc[p])
  BY DEF Heard, Fetching
<1>2. CASE ~Fetching(p)' BY <1>2 DEF Awaited, Fetching
<1>3. CASE Fetching(p)'
  <2>1. \A l \in Leaf \ moved'[p] : l \notin moved[p] /\ so'[l] = so[l]
    BY <1>1, <1>3 DEF Track
  <2>2. \A l \in Leaf \ moved'[p], q \in Query \ {"leaves"}, x \in Xfer :
          <<l, x>> \in Answer(q)' <=> <<l, x>> \in Answer(q)
    <3> TAKE l \in Leaf \ moved'[p], q \in Query \ {"leaves"}, x \in Xfer
    <3>1. so'[l] = so[l] BY <2>1
    <3> QED BY <3>1, AnswersStand
  <2>3. ASSUME NEW l \in Leaf \ moved'[p], "leaves" \notin unread'[p]
        PROVE  l \in snap'[p]["leaves"] <=> so'[l] = "avail"
    <3>1. l \in Leaf \ moved[p] /\ so'[l] = so[l] BY <2>1
    <3>2. "leaves" \notin unread[p] BY <2>3
    <3>3. l \in snap[p]["leaves"] <=> so[l] = "avail" BY <1>1, <1>3, <3>1, <3>2 DEF Awaited
    <3> QED BY <3>1, <3>3
  <2>4. ASSUME NEW l \in Leaf \ moved'[p], NEW q \in Query \ {"leaves"}, NEW x \in Xfer, q \notin unread'[p]
        PROVE  <<l, x>> \in snap'[p][q] <=> <<l, x>> \in Answer(q)'
    <3>1. <<l, x>> \in snap[p][q] <=> <<l, x>> \in Answer(q)
      BY <1>1, <1>3, <2>1, <2>4 DEF Awaited
    <3> QED BY <2>2, <3>1
  <2>5. pc'[p] = "fetched" => unread'[p] = {} BY <1>1, <1>3 DEF Awaited
  <2> QED BY <2>3, <2>4, <2>5 DEF Awaited
<1> QED BY <1>2, <1>3

\* Every step keeps the invariant.
LEMMA StepAwaits ==
  ASSUME TInv, BoundInv, SyncInv, Next
  PROVE  SyncInv'
<1>0. OnlyMoved /\ Track BY NextBinds, StepTracks
<1> SUFFICES ASSUME NEW r \in Syncing PROVE Awaited(r)'
  BY DEF SyncInv
<1>1. Awaited(r) /\ r \in Op BY DEF SyncInv, Syncing, Op, Callers
<1>2. ASSUME NEW x \in Xfer, Stream(x) \/ Operators(x) PROVE Awaited(r)'
  <2>1. UNCHANGED <<pc, fetching>>
    BY <1>2 DEF Stream, Operators, Hear, Miss, SoAnswers, SoTweaks, SspSwaps, SoReturns,
                DepositConfirmed, OtherInstanceSends
  <2>2. Heard(r)' = Heard(r) /\ unread'[r] = unread[r] /\ snap'[r] = snap[r]
    BY <2>1 DEF Heard, Fetching, fetching
  <2> QED BY <1>0, <1>1, <2>2, HeardStands
<1>3. ASSUME NEW p \in Op, Step(p), ~Fetch(p) PROVE Awaited(r)'
  BY <1>0, <1>1, <1>3, OthersAskNothing, HeardStands DEF fetching
<1>4. ASSUME NEW p \in Op, Fetch(p), r # p PROVE Awaited(r)'
  BY <1>0, <1>1, <1>4, QueriesApart, HeardStands
<1>5. CASE Fetch(r)
  <2> USE DEF At
  <2>1. CASE FetchStart(r)
    <3>1. pc'[r] = "fetch" /\ unread'[r] = Query
      BY <1>1, <2>1, RefreshersDoNotSync DEF FetchStart, Goto, TInv, TypeOK
    <3> QED BY <3>1 DEF Awaited, Query
  <2>2. CASE FetchAnswer(r) BY <1>0, <1>1, <2>2, AnswerHeard
  <2>3. CASE FetchFails(r) \/ SyncApply(r)
    <3>1. pc'[r] \notin {"fetch", "fetched"} BY <1>1, <2>3 DEF FetchFails, SyncApply, Goto, TInv, TypeOK
    <3> QED BY <3>1 DEF Awaited, Fetching
  <2>4. CASE RefreshAdd(r) \/ RefreshEvict(r)
    BY <2>4, RefreshersDoNotSync DEF RefreshAdd, RefreshEvict
  <2> QED BY <1>5, <2>1, <2>2, <2>3, <2>4 DEF Fetch
<1> QED BY <1>2, <1>3, <1>4, <1>5 DEF Next

\* The invariant holds, beside type correctness and what binds the leaves.
LEMMA SyncInvariance == Spec => [](TInv /\ BoundInv /\ SyncInv)
<1>1. Init => TInv /\ BoundInv BY InitType, InitBinds
<1>2. Init => SyncInv
  <2> SUFFICES ASSUME Init, NEW p \in Syncing PROVE Awaited(p) BY DEF SyncInv
  <2>1. pc[p] = "idle" BY DEF Init, Syncing, Op, Callers
  <2> QED BY <2>1 DEF Awaited, Fetching
<1>3. TInv /\ BoundInv /\ SyncInv /\ [Next]_vars => (TInv /\ BoundInv /\ SyncInv)'
  <2> SUFFICES ASSUME TInv, BoundInv, SyncInv, [Next]_vars
               PROVE  (TInv /\ BoundInv /\ SyncInv)'
    OBVIOUS
  <2>1. TInv' BY TypeStep, ControlStep DEF TInv
  <2>2. BoundInv' BY NextBinds
  <2>3. CASE Next BY <2>1, <2>2, <2>3, StepAwaits
  <2>4. CASE UNCHANGED vars
    <3>1. UNCHANGED <<pc, unread, snap, so, xfer, moved>> BY <2>4 DEF vars, fetching, operators
    <3>2. SyncInv' BY <3>1 DEF SyncInv, Awaited, Fetching, Answer
    <3> QED BY <2>1, <2>2, <3>2
  <2> QED BY <2>3, <2>4
<1> QED BY <1>1, <1>2, <1>3, PTL DEF Spec

\* The transfers the operators tell of account for every leaf: one that is held
\* or comes in is in a transfer, and no other is.
LEMMA AnswersAccount ==
  ASSUME TInv, BoundInv, NEW l \in Leaf
  PROVE  /\ \A x \in Xfer : <<l, x>> \in Answer("primary") \cup Answer("outgoing") => so[l] = "held"
         /\ \A x \in Xfer : <<l, x>> \in Answer("counter") \cup Answer("incoming") => so[l] = "incoming"
         /\ so[l] = "held" => \E x \in Xfer : <<l, x>> \in Answer("primary") \cup Answer("outgoing")
         /\ so[l] = "incoming" => \E x \in Xfer : <<l, x>> \in Answer("counter") \cup Answer("incoming")
<1>1. \A x \in Xfer : l \in Bound(x) => so[l] = BoundAs(x) BY DEF BoundInv, LeavesBound
<1>2. ASSUME NEW x \in Xfer, <<l, x>> \in Answer("primary") \cup Answer("outgoing")
      PROVE  so[l] = "held"
  <2>1. l \in Bound(x) BY <1>2, AnswersBound DEF Query
  <2>2. xfer[x].st = "initiated" /\ xfer[x].kind # "deposit" BY <1>2 DEF Answer, Asked
  <2> QED BY <1>1, <2>1, <2>2 DEF BoundAs
<1>3. ASSUME NEW x \in Xfer, <<l, x>> \in Answer("counter") \cup Answer("incoming")
      PROVE  so[l] = "incoming"
  <2>1. l \in Bound(x) BY <1>3, AnswersBound DEF Query
  <2>2. xfer[x].st = "tweaked" BY <1>3 DEF Answer, Asked
  <2> QED BY <1>1, <2>1, <2>2 DEF BoundAs
<1>4. ASSUME so[l] \in {"held", "incoming"}
      PROVE  \E x \in Xfer : <<l, x>> \in IF so[l] = "held" THEN Answer("primary") \cup Answer("outgoing")
                                          ELSE Answer("counter") \cup Answer("incoming")
  <2>1. PICK x \in Xfer : l \in Bound(x) BY <1>4 DEF BoundInv, Backed
  <2>2. so[l] = BoundAs(x) BY <1>1, <2>1
  <2>3. PICK t \in Transfer : t = xfer[x] BY DEF TInv, TypeOK
  <2>4. Sound(x) BY DEF BoundInv
  <2>5. CASE xfer[x].st = "initiated"
    <3>1. /\ xfer[x].kind \in {"swap", "send", "self", "other"} /\ so[l] = "held"
          /\ l \in xfer[x].leaves
      BY <1>4, <2>1, <2>2, <2>3, <2>4, <2>5 DEF Sound, Bound, BoundAs, Transfer
    <3> QED BY <2>5, <3>1 DEF Answer, Asked
  <2>6. CASE xfer[x].st # "initiated"
    <3>1. /\ xfer[x].st = "tweaked" /\ xfer[x].kind \in {"swap", "self", "incoming"}
          /\ l \in Received(x) /\ so[l] = "incoming"
      BY <2>1, <2>2, <2>6 DEF Bound, BoundAs, Claimable
    <3> QED BY <3>1 DEF Answer, Asked, Received
  <2> QED BY <2>5, <2>6
<1> QED BY <1>2, <1>3, <1>4

(***************************************************************************)
(* sync() errs about no leaf but those that moved at the operators while   *)
(* its queries were under way: every other leaf that no operation has      *)
(* locked ends with the status the operators' state calls for, whatever    *)
(* the cache held, in whatever order the queries were answered, and        *)
(* however late they are applied.                                          *)
(***************************************************************************)
THEOREM StillLeavesSync == Spec => StillLeavesAreSynced
<1>1. ASSUME TInv, BoundInv, SyncInv, NEW p \in Syncing, SyncApply(p), NEW l \in Leaf \ moved[p],
             cache[l].status # "LOCAL_LOCKED"
      PROVE  cache'[l].status \in StatusOf[so[l]]
  <2> DEFINE swaps == snap[p]["primary"] \cup snap[p]["counter"]
             outgoing == snap[p]["outgoing"]
             incoming == snap[p]["incoming"]
             avail == snap[p]["leaves"]
  <2>1. cache' = Synced(cache, avail, swaps, outgoing, incoming) BY <1>1 DEF SyncApply, SyncedWith
  <2>2. Fetching(p) /\ unread[p] = {} BY <1>1 DEF SyncInv, Awaited, SyncApply, At, Fetching
  <2>3. /\ l \in avail <=> so[l] = "avail"
        /\ \A q \in Query \ {"leaves"}, x \in Xfer : <<l, x>> \in snap[p][q] <=> <<l, x>> \in Answer(q)
    BY <1>1, <2>2 DEF SyncInv, Awaited
  <2>4. \A x \in Xfer : /\ <<l, x>> \in swaps <=> <<l, x>> \in Answer("primary") \cup Answer("counter")
                        /\ <<l, x>> \in outgoing <=> <<l, x>> \in Answer("outgoing")
                        /\ <<l, x>> \in incoming <=> <<l, x>> \in Answer("incoming")
    BY <2>3 DEF Query
  <2> HIDE DEF swaps, outgoing, incoming, avail
  <2>5. /\ \A x \in Xfer : <<l, x>> \in outgoing => so[l] = "held"
        /\ \A x \in Xfer : <<l, x>> \in swaps => so[l] \in {"held", "incoming"}
        /\ \A x \in Xfer : <<l, x>> \in incoming => so[l] = "incoming"
        /\ so[l] = "held" => \E x \in Xfer : <<l, x>> \in outgoing \cup swaps
        /\ so[l] = "incoming" => \E x \in Xfer : <<l, x>> \in swaps \cup incoming
    BY <1>1, <2>4, AnswersAccount
  <2>6. so[l] \in {"absent", "creating", "avail", "held", "incoming", "gone"}
    BY <1>1 DEF TInv, TypeOK, LeafState
  <2>7. cache'[l].status = IF \E x \in Xfer : <<l, x>> \in outgoing THEN "OUTGOING"
                           ELSE IF \E x \in Xfer : <<l, x>> \in swaps THEN "SWAP_PENDING"
                           ELSE IF \E x \in Xfer : <<l, x>> \in incoming THEN "INCOMING"
                           ELSE IF l \in avail THEN "AVAILABLE" ELSE "NONE"
    BY <1>1, <2>1 DEF Synced, SYNC_PRESERVED_STATUSES, NoRecord
  <2>8. CASE so[l] = "avail"
    <3>1. cache'[l].status = "AVAILABLE" BY <2>3, <2>5, <2>7, <2>8
    <3> QED BY <2>8, <3>1 DEF StatusOf
  <2>9. CASE so[l] = "held"
    <3>1. cache'[l].status \in {"OUTGOING", "SWAP_PENDING"} BY <2>5, <2>7, <2>9
    <3> QED BY <2>9, <3>1 DEF StatusOf
  <2>10. CASE so[l] = "incoming"
    <3>1. \A x \in Xfer : <<l, x>> \notin outgoing BY <2>5, <2>10
    <3>2. cache'[l].status \in {"INCOMING", "SWAP_PENDING"} BY <2>5, <2>7, <2>10, <3>1
    <3> QED BY <2>10, <3>2 DEF StatusOf
  <2>11. CASE so[l] \in {"absent", "creating", "gone"}
    <3>1. cache'[l].status = "NONE" BY <2>3, <2>5, <2>7, <2>11
    <3> QED BY <2>11, <3>1 DEF StatusOf
  <2> QED BY <2>6, <2>8, <2>9, <2>10, <2>11
<1>2. TInv /\ BoundInv /\ SyncInv
      => [\A p \in Syncing : SyncApply(p) =>
            \A l \in Leaf \ moved[p] :
              cache[l].status # "LOCAL_LOCKED" => cache'[l].status \in StatusOf[so[l]]]_vars
  BY <1>1
<1> QED BY <1>2, SyncInvariance, PTL DEF StillLeavesAreSynced
=============================================================================
