---------------------------- MODULE LeafTimelocks ----------------------------
(***************************************************************************)
(* The relative timelocks of one leaf's transactions.  A leaf is a chain of*)
(* node transactions, each spending an output of the one before, and a     *)
(* refund transaction that pays the owner.  Every owner keeps what he was  *)
(* given, so the transactions of a new owner must become valid earlier:    *)
(* each send signs a refund with a lower timelock, and a leaf whose refund *)
(* is nearly due is renewed with new transactions before it is sent.       *)
(* Of each transaction there is a variant without an anchor for the fee,   *)
(* the "direct" one, DIRECT_TIMELOCK_OFFSET later.                         *)
(***************************************************************************)
EXTENDS Integers, Sequences

CONSTANTS
  INITIAL_TIMELOCK,
  MaxRenewals,           \* bound: renewals of the leaf
  Kinds                  \* of transfers that may happen: "transfer", "htlc"

TIME_LOCK_INTERVAL == 100
DIRECT_TIMELOCK_OFFSET == 50
HTLC_TIMELOCK_OFFSET == 70
DIRECT_HTLC_TIMELOCK_OFFSET == 85

ASSUME LeafTimelocksAssumption ==
  /\ INITIAL_TIMELOCK \in Nat
  /\ INITIAL_TIMELOCK % TIME_LOCK_INTERVAL = 0
  /\ INITIAL_TIMELOCK >= 2 * TIME_LOCK_INTERVAL
  /\ INITIAL_TIMELOCK + DIRECT_TIMELOCK_OFFSET < 2^16   \* the bits of a sequence for it
  /\ MaxRenewals \in Nat
  /\ Kinds \subseteq {"transfer", "htlc"}

VARIABLES
  leaf,       \* the leaf at the operators: its node transactions, its refund,
              \* and how often it was renewed
  copy,       \* what the owner's wallet has of it in its cache
  transfer    \* the transfer under way, with the refund signed for it

timelockVars == <<leaf, copy, transfer>>

\* Later than any timelock.
NoRival == INITIAL_TIMELOCK + TIME_LOCK_INTERVAL

\* A transaction: its timelock, and the lowest one of those that spend the same
\* output and that an earlier owner has.
Tx(lock, rival) == [lock |-> lock, rival |-> rival]
Earlier(tx) == IF tx.lock < tx.rival THEN tx.lock ELSE tx.rival

NoCopy == [renewals |-> -1]
CopyOf(lf) == [node |-> lf.path[Len(lf.path)].lock, refund |-> lf.refund.lock,
               renewals |-> lf.renewals]

NoTransfer == [kind |-> "none"]

\* A deposit's root node has no timelock; leaves of other trees have (external).
TimelockInit ==
  /\ \E lock \in {0, INITIAL_TIMELOCK} :
       leaf = [path |-> <<Tx(lock, NoRival)>>, refund |-> Tx(INITIAL_TIMELOCK, NoRival),
               renewals |-> 0]
  /\ copy = CopyOf(leaf)
  /\ transfer = NoTransfer

-----------------------------------------------------------------------------
\* Mutant of doesTxnNeedRenewed: one interval too many.
needsRenewedEarlier(lock) == lock <= 2 * TIME_LOCK_INTERVAL

doesTxnNeedRenewed(lock) == lock < 2 * TIME_LOCK_INTERVAL

\* getNextTransactionSequence throws when none is left.
CanDecrement(lock) == lock - TIME_LOCK_INTERVAL > 0
Decremented(lock) == lock - TIME_LOCK_INTERVAL

\* Mutant of Rounded: the timelock is taken as it is.
NotRounded(lock) == lock

\* createRefundTxs with enforceTimelocks.
Rounded(lock) == lock - (lock % TIME_LOCK_INTERVAL)

(***************************************************************************)
(* What a renewal makes of a leaf's transactions.  The refunds start again,*)
(* over a new node transaction, which the transactions it replaces race.   *)
(***************************************************************************)
Fresh == Tx(INITIAL_TIMELOCK, NoRival)
Node(lf) == lf.path[Len(lf.path)]
Above(lf) == SubSeq(lf.path, 1, Len(lf.path) - 1)

\* renewZeroTimelockNodeTxn: a node is added, which races the refunds.
WithNodeBelow(lf) == Append(lf.path, Tx(0, Earlier(lf.refund)))
\* renewNodeTxn: a node due at once replaces the node and gets a new one below.
WithNodeSplit(lf) == Above(lf) \o <<Tx(0, Earlier(Node(lf))), Fresh>>
\* renewRefundTxn: the node is replaced by one that is due earlier.
WithNodeDecremented(lf) == Append(Above(lf), Tx(Decremented(Node(lf).lock), Earlier(Node(lf))))

Renewed(lf) ==
  [path |-> IF Node(lf).lock = 0 THEN WithNodeBelow(lf)
            ELSE IF doesTxnNeedRenewed(Node(lf).lock) THEN WithNodeSplit(lf)
            ELSE WithNodeDecremented(lf),
   refund |-> Fresh,
   renewals |-> lf.renewals + 1]

(***************************************************************************)
(* checkRenewLeaves of a copy c, with the leaf as lf: the leaf and the copy*)
(* it may leave.  A renewal that fails, before the operators have it or    *)
(* after, drops the copy.  One that is tried again has the idempotency key *)
(* of the first, which is the refund's id, and is answered alike.          *)
(***************************************************************************)
checkRenewLeaves(lf, c) ==
  IF ~doesTxnNeedRenewed(c.refund) THEN {<<lf, c>>}
  ELSE {<<lf, NoCopy>>}
       \cup (IF c.renewals < lf.renewals THEN {<<lf, CopyOf(lf)>>}
             ELSE IF lf.renewals = MaxRenewals THEN {}
             ELSE {Renewed(lf)} \X {CopyOf(Renewed(lf)), NoCopy})

-----------------------------------------------------------------------------
\* sync(): what is read is renewed before it is cached.
SyncCopy ==
  /\ transfer = NoTransfer
  /\ \E r \in checkRenewLeaves(leaf, CopyOf(leaf)) : leaf' = r[1] /\ copy' = r[2]
  /\ UNCHANGED transfer

\* getBalance() adds what the cache has not; addLeaves() renews nothing.
AddLeaf ==
  /\ transfer = NoTransfer /\ copy = NoCopy
  /\ copy' = CopyOf(leaf)
  /\ UNCHANGED <<leaf, transfer>>

\* The refunds signed for the receiver of a transfer, and of a payment with a hash.
SignedRefund(c) ==
  LET lock == Rounded(Decremented(c.refund))
  IN [kind |-> "transfer", lock |-> lock, direct |-> lock + DIRECT_TIMELOCK_OFFSET, of |-> c]
SignedHtlc(c) ==
  [kind |-> "htlc", lock |-> Decremented(c.refund) + HTLC_TIMELOCK_OFFSET,
   direct |-> Decremented(c.refund) + DIRECT_HTLC_TIMELOCK_OFFSET, of |-> c]

\* It throws, and nothing is sent, when the timelock cannot be decremented.
Sign(kind, c) ==
  transfer' = IF ~CanDecrement(c.refund) THEN NoTransfer
              ELSE IF kind = "htlc" THEN SignedHtlc(c) ELSE SignedRefund(c)

\* selectLeavesAndExecute(): a leaf that was not renewed is sent all the same.
SendSelected(kind) ==
  /\ transfer = NoTransfer /\ copy # NoCopy
  /\ \E r \in checkRenewLeaves(leaf, copy) :
       /\ leaf' = r[1]
       /\ copy' = IF r[2] = NoCopy THEN copy ELSE r[2]
  /\ Sign(kind, copy')

\* executeWithAllLeaves(): it is not.
SendAll(kind) ==
  /\ transfer = NoTransfer /\ copy # NoCopy
  /\ \E r \in checkRenewLeaves(leaf, copy) :
       /\ leaf' = r[1]
       /\ IF r[2] = NoCopy THEN UNCHANGED <<copy, transfer>>
          ELSE copy' = r[2] /\ Sign(kind, r[2])

\* A swap renews nothing before it sends.
SendToSwap ==
  /\ transfer = NoTransfer /\ copy # NoCopy
  /\ CanDecrement(copy.refund)
  /\ Sign("transfer", copy)
  /\ UNCHANGED <<leaf, copy>>

\* External: a transfer that is not claimed is returned; what was signed for it
\* stays with the operators.
TransferReturns ==
  /\ transfer # NoTransfer
  /\ transfer' = NoTransfer
  /\ UNCHANGED <<leaf, copy>>

\* The receiver signs refunds of his own, with the timelock of the transfer, and
\* registers the leaf; after a swap he caches it although it is not renewed.
ClaimLeaf ==
  /\ transfer # NoTransfer
  /\ LET lock == IF transfer.kind = "htlc" THEN transfer.lock ELSE leaf.refund.lock
         mine == [leaf EXCEPT !.refund = Tx(Rounded(transfer.lock),
                                            Earlier(Tx(lock, leaf.refund.rival)))]
     IN \E r \in checkRenewLeaves(mine, CopyOf(mine)) :
          /\ leaf' = r[1]
          /\ copy' \in IF r[2] = NoCopy THEN {NoCopy, CopyOf(mine)} ELSE {r[2]}
  /\ transfer' = NoTransfer

TimelockNext ==
  \/ SyncCopy \/ AddLeaf \/ SendToSwap \/ TransferReturns \/ ClaimLeaf
  \/ \E kind \in Kinds : SendSelected(kind) \/ SendAll(kind)

TimelockSpec == TimelockInit /\ [][TimelockNext]_timelockVars

-----------------------------------------------------------------------------
(***************************************************************************)
(* The newest owner comes first: each transaction of a leaf, its direct    *)
(* variant too, is due before every one an earlier owner has that spends   *)
(* the same output, the refund signed for a receiver before the sender's,  *)
(* and no refund is due in less than one interval (the comment of          *)
(* doesTxnNeedRenewed), after any sends, payments with a hash, returns and *)
(* renewals, those included that fail or whose answer is lost.             *)
(***************************************************************************)
ComesFirst(tx) == tx.lock + DIRECT_TIMELOCK_OFFSET < tx.rival
NewestComesFirst ==
  /\ \A i \in 1..Len(leaf.path) : ComesFirst(leaf.path[i])
  /\ ComesFirst(leaf.refund)
  /\ leaf.refund.lock >= TIME_LOCK_INTERVAL
  /\ transfer # NoTransfer => transfer.direct < leaf.refund.lock

(***************************************************************************)
(* What is signed for a transfer spends the leaf's present node and takes  *)
(* its present refund on, although copies grow stale when the answer of a  *)
(* renewal is lost, and a swap renews nothing: a stale copy has no interval*)
(* left to sign with.                                                      *)
(***************************************************************************)
SignedOverPresent == transfer # NoTransfer => transfer.of = CopyOf(leaf)
=============================================================================
