------------------------- MODULE LeafTimelocksProofs -------------------------
(***************************************************************************)
(* Theorems of LeafTimelocks: for any initial timelock that is a multiple  *)
(* of the interval, any number of renewals and any sequence of sends, the  *)
(* newest transactions come first and nothing is signed over a node that   *)
(* was replaced.                                                           *)
(*                                                                         *)
(* The invariant says what the code never states: between operations every *)
(* timelock is a whole number of intervals, whatever offset a payment with *)
(* a hash added (ClaimLeaf rounds it off), so that a refund that needs no  *)
(* renewal has two intervals left and one that does has exactly one; and a *)
(* copy that fell behind the leaf is one whose refund had one interval     *)
(* left, which is what keeps it from being signed over.                    *)
(***************************************************************************)
EXTENDS LeafTimelocks, TLAPS

Lock == {n \in Nat : n % TIME_LOCK_INTERVAL = 0 /\ n <= INITIAL_TIMELOCK}
InTime == {tx \in [lock : Lock, rival : Int] : ComesFirst(tx)}

\* A leaf as it is at the operators between two operations.
LeafOK(lf) ==
  /\ lf = [path |-> lf.path, refund |-> lf.refund, renewals |-> lf.renewals]
  /\ lf.renewals \in Nat
  /\ lf.path \in Seq(InTime) /\ lf.path # <<>>
  /\ lf.refund \in InTime
  /\ lf.refund.lock >= TIME_LOCK_INTERVAL

\* A copy of a leaf: of the present one, or of one renewed since, which it was
\* because its refund was nearly due.
CopyOK(c, lf) ==
  \/ c = NoCopy
  \/ c = CopyOf(lf)
  \/ c.refund = TIME_LOCK_INTERVAL /\ c.renewals < lf.renewals /\ c # NoCopy

\* What is signed for a transfer.
TransferOK(x, lf) ==
  \/ x = NoTransfer
  \/ /\ x \in {SignedRefund(CopyOf(lf)), SignedHtlc(CopyOf(lf))}
     /\ CanDecrement(lf.refund.lock)

Inv == LeafOK(leaf) /\ CopyOK(copy, leaf) /\ TransferOK(transfer, leaf)

-----------------------------------------------------------------------------
(***************************************************************************)
(* Lemmas about the operators.                                             *)
(***************************************************************************)

\* The offsets are constants; an interval less is an interval.
LEMMA LockFacts ==
  /\ INITIAL_TIMELOCK \in Lock /\ 0 \in Lock
  /\ \A n \in Lock : n # 0 => n >= TIME_LOCK_INTERVAL /\ Decremented(n) \in Lock
  /\ \A n \in Lock : n < 2 * TIME_LOCK_INTERVAL => n = 0 \/ n = TIME_LOCK_INTERVAL
  BY LeafTimelocksAssumption DEF LeafTimelocksAssumption, Lock, TIME_LOCK_INTERVAL, Decremented

\* What a claim rounds a transfer's timelock to.
LEMMA RoundedFacts ==
  ASSUME NEW n \in Lock, CanDecrement(n)
  PROVE  /\ Rounded(Decremented(n)) = n - TIME_LOCK_INTERVAL
         /\ Rounded(Rounded(Decremented(n))) = n - TIME_LOCK_INTERVAL
         /\ Rounded(Decremented(n) + HTLC_TIMELOCK_OFFSET) = n - TIME_LOCK_INTERVAL
         /\ n - TIME_LOCK_INTERVAL \in Lock /\ n - TIME_LOCK_INTERVAL >= TIME_LOCK_INTERVAL
  <1>1. /\ n \in Nat /\ n % 100 = 0 /\ n > 100 /\ INITIAL_TIMELOCK \in Nat /\ n <= INITIAL_TIMELOCK
    BY LeafTimelocksAssumption DEF LeafTimelocksAssumption, Lock, CanDecrement, TIME_LOCK_INTERVAL
  <1>2. PICK k \in Nat : n = 100 * k /\ k >= 2
    BY <1>1
  <1>3. /\ (n - 100) % 100 = 0 /\ ((n - 100) + 70) % 100 = 70 /\ n - 100 >= 100
    BY <1>2
  <1> QED
    BY <1>1, <1>3 DEF Lock, Decremented, Rounded, TIME_LOCK_INTERVAL, HTLC_TIMELOCK_OFFSET

\* What a transaction that replaces or races another must come before.
LEMMA EarlierFacts ==
  ASSUME NEW tx \in InTime
  PROVE  Earlier(tx) = tx.lock /\ tx.lock \in Lock /\ tx.lock \in Int
  BY DEF InTime, Lock, ComesFirst, Earlier, DIRECT_TIMELOCK_OFFSET

LEMMA TxFacts ==
  ASSUME NEW lock \in Lock, NEW rival \in Int, lock + DIRECT_TIMELOCK_OFFSET < rival
  PROVE  Tx(lock, rival) \in InTime
  BY DEF Tx, InTime, ComesFirst

LEMMA FreshFacts == Fresh \in InTime /\ Fresh.lock = INITIAL_TIMELOCK
  <1>1. INITIAL_TIMELOCK \in Lock /\ INITIAL_TIMELOCK \in Nat
    BY LockFacts, LeafTimelocksAssumption DEF LeafTimelocksAssumption
  <1>2. NoRival \in Int /\ INITIAL_TIMELOCK + DIRECT_TIMELOCK_OFFSET < NoRival
    BY <1>1 DEF NoRival, DIRECT_TIMELOCK_OFFSET, TIME_LOCK_INTERVAL
  <1> QED
    BY <1>1, <1>2, TxFacts DEF Fresh, Tx

LEMMA NodeFacts ==
  ASSUME NEW lf, LeafOK(lf)
  PROVE  Node(lf) \in InTime /\ Above(lf) \in Seq(InTime)
  BY DEF LeafOK, Node, Above

\* A renewal leaves the leaf in order.
LEMMA RenewedOK ==
  ASSUME NEW lf, LeafOK(lf)
  PROVE  /\ LeafOK(Renewed(lf))
         /\ Renewed(lf).refund.lock = INITIAL_TIMELOCK
         /\ Renewed(lf).renewals = lf.renewals + 1
  <1> DEFINE node == Node(lf)
             path == Renewed(lf).path
  <1>1. /\ node \in InTime /\ Above(lf) \in Seq(InTime)
        /\ lf.path \in Seq(InTime) /\ lf.refund \in InTime
        /\ lf.refund.lock >= TIME_LOCK_INTERVAL
    BY NodeFacts DEF LeafOK
  <1>2. path \in Seq(InTime) /\ path # <<>>
    <2>1. CASE node.lock = 0
      <3>1. Tx(0, Earlier(lf.refund)) \in InTime
        BY <1>1, EarlierFacts, TxFacts, LockFacts DEF TIME_LOCK_INTERVAL, DIRECT_TIMELOCK_OFFSET
      <3>2. path = Append(lf.path, Tx(0, Earlier(lf.refund)))
        BY <2>1 DEF Renewed, WithNodeBelow
      <3> QED
        BY <1>1, <3>1, <3>2
    <2>2. CASE node.lock # 0 /\ doesTxnNeedRenewed(node.lock)
      <3>1. Tx(0, Earlier(node)) \in InTime
        BY <1>1, <2>2, EarlierFacts, TxFacts, LockFacts DEF TIME_LOCK_INTERVAL, DIRECT_TIMELOCK_OFFSET
      <3>2. path = Above(lf) \o <<Tx(0, Earlier(node)), Fresh>>
        BY <2>2 DEF Renewed, WithNodeSplit
      <3>3. <<Tx(0, Earlier(node)), Fresh>> \in Seq(InTime)
        BY <3>1, FreshFacts
      <3> QED
        BY <1>1, <3>2, <3>3
    <2>3. CASE node.lock # 0 /\ ~doesTxnNeedRenewed(node.lock)
      <3>1. /\ Decremented(node.lock) \in Lock
            /\ Decremented(node.lock) + DIRECT_TIMELOCK_OFFSET < node.lock
        BY <1>1, <2>3, EarlierFacts, LockFacts DEF Decremented, TIME_LOCK_INTERVAL, DIRECT_TIMELOCK_OFFSET
      <3>2. Tx(Decremented(node.lock), Earlier(node)) \in InTime
        BY <1>1, <3>1, EarlierFacts, TxFacts
      <3>3. path = Append(Above(lf), Tx(Decremented(node.lock), Earlier(node)))
        BY <2>3 DEF Renewed, WithNodeDecremented
      <3> QED
        BY <1>1, <3>2, <3>3
    <2> QED
      BY <2>1, <2>2, <2>3
  <1>3. INITIAL_TIMELOCK >= TIME_LOCK_INTERVAL
    BY LeafTimelocksAssumption DEF LeafTimelocksAssumption, TIME_LOCK_INTERVAL
  <1>4. Renewed(lf) = [path |-> path, refund |-> Fresh, renewals |-> lf.renewals + 1]
    BY DEF Renewed
  <1>5. lf.renewals + 1 \in Nat
    BY DEF LeafOK
  <1> HIDE DEF path
  <1> QED
    BY <1>2, <1>3, <1>4, <1>5, FreshFacts DEF LeafOK

\* A copy of the present leaf is one, and not the lack of one.
LEMMA CopyFacts ==
  ASSUME NEW lf, LeafOK(lf)
  PROVE  /\ CopyOf(lf) # NoCopy /\ CopyOf(lf).refund = lf.refund.lock
         /\ CopyOf(lf).renewals = lf.renewals
  <1>1. lf.renewals \in Nat
    BY DEF LeafOK
  <1>2. CopyOf(lf).renewals = lf.renewals /\ CopyOf(lf).refund = lf.refund.lock
    BY DEF CopyOf
  <1>3. NoCopy.renewals = -1
    BY DEF NoCopy
  <1> QED
    BY <1>1, <1>2, <1>3

\* A renewal leaves the leaf in order; a copy it returns is of that leaf, and
\* when it returns none, the one it was given had one interval left.
LEMMA CheckRenewOK ==
  ASSUME NEW lf, LeafOK(lf), NEW c, CopyOK(c, lf), c # NoCopy,
         NEW r \in checkRenewLeaves(lf, c)
  PROVE  /\ LeafOK(r[1])
         /\ r[2] = NoCopy \/ r[2] = CopyOf(r[1])
         /\ r[2] = NoCopy => c.refund = TIME_LOCK_INTERVAL /\ CopyOK(c, r[1])
  <1>1. /\ lf.renewals \in Nat /\ lf.refund.lock \in Lock
        /\ lf.refund.lock >= TIME_LOCK_INTERVAL
    BY EarlierFacts DEF LeafOK
  <1>2. \/ c = CopyOf(lf) /\ c.refund = lf.refund.lock /\ c.renewals = lf.renewals
        \/ c.refund = TIME_LOCK_INTERVAL /\ c.renewals < lf.renewals
    BY CopyFacts DEF CopyOK
  <1>3. CASE ~doesTxnNeedRenewed(c.refund)
    <2>1. r = <<lf, c>>
      BY <1>3 DEF checkRenewLeaves
    <2>2. c = CopyOf(lf)
      BY <1>2, <1>3 DEF doesTxnNeedRenewed, TIME_LOCK_INTERVAL
    <2> QED
      BY <2>1, <2>2
  <1>4. CASE doesTxnNeedRenewed(c.refund)
    <2>1. c.refund = TIME_LOCK_INTERVAL
      BY <1>1, <1>2, <1>4, LockFacts DEF doesTxnNeedRenewed, TIME_LOCK_INTERVAL
    <2>2. \/ r = <<lf, NoCopy>>
          \/ r = <<lf, CopyOf(lf)>>
          \/ /\ ~(c.renewals < lf.renewals)
             /\ r[1] = Renewed(lf) /\ r[2] \in {CopyOf(Renewed(lf)), NoCopy}
      BY <1>4 DEF checkRenewLeaves
    <2>3. CASE r = <<lf, NoCopy>> \/ r = <<lf, CopyOf(lf)>>
      BY <2>1, <2>3
    <2>4. CASE /\ ~(c.renewals < lf.renewals)
               /\ r[1] = Renewed(lf) /\ r[2] \in {CopyOf(Renewed(lf)), NoCopy}
      <3>1. c.renewals < Renewed(lf).renewals
        BY <1>1, <1>2, <2>4, RenewedOK
      <3> QED
        BY <2>1, <2>4, <3>1, RenewedOK DEF CopyOK
    <2> QED
      BY <2>2, <2>3, <2>4
  <1> QED
    BY <1>3, <1>4

\* Only the present leaf is signed over.
LEMMA SignOK ==
  ASSUME NEW kind, NEW c, LeafOK(leaf'), Sign(kind, c),
         c = CopyOf(leaf') \/ c.refund = TIME_LOCK_INTERVAL
  PROVE  TransferOK(transfer, leaf)'
  <1>1. CASE ~CanDecrement(c.refund)
    BY <1>1 DEF Sign, TransferOK
  <1>2. CASE CanDecrement(c.refund)
    <2>1. c = CopyOf(leaf') /\ c.refund = leaf'.refund.lock
      BY <1>2 DEF CanDecrement, TIME_LOCK_INTERVAL, CopyOf
    <2>2. transfer' \in {SignedRefund(c), SignedHtlc(c)}
      BY <1>2 DEF Sign
    <2> QED
      BY <1>2, <2>1, <2>2 DEF TransferOK
  <1> QED
    BY <1>1, <1>2

\* The leaf its receiver has when he has claimed it, before any renewal.
LEMMA ClaimedOK ==
  ASSUME LeafOK(leaf), TransferOK(transfer, leaf), transfer # NoTransfer
  PROVE  LET lock == IF transfer.kind = "htlc" THEN transfer.lock ELSE leaf.refund.lock
             mine == [leaf EXCEPT !.refund = Tx(Rounded(transfer.lock),
                                                Earlier(Tx(lock, leaf.refund.rival)))]
         IN LeafOK(mine)
  <1> DEFINE refund == leaf.refund.lock
             lock == IF transfer.kind = "htlc" THEN transfer.lock ELSE refund
             tx == Tx(Rounded(transfer.lock), Earlier(Tx(lock, leaf.refund.rival)))
  <1>1. /\ leaf.refund \in InTime /\ refund \in Lock /\ refund \in Int
        /\ leaf.refund.rival \in Int /\ refund + DIRECT_TIMELOCK_OFFSET < leaf.refund.rival
        /\ CanDecrement(refund)
        /\ transfer \in {SignedRefund(CopyOf(leaf)), SignedHtlc(CopyOf(leaf))}
    BY EarlierFacts DEF LeafOK, TransferOK, InTime, ComesFirst
  <1>2. CopyOf(leaf).refund = refund
    BY DEF CopyOf
  <1>3. /\ Rounded(transfer.lock) = refund - TIME_LOCK_INTERVAL
        /\ lock \in {refund, refund - TIME_LOCK_INTERVAL + HTLC_TIMELOCK_OFFSET}
    BY <1>1, <1>2, RoundedFacts DEF SignedRefund, SignedHtlc, Decremented
  <1>4. Earlier(Tx(lock, leaf.refund.rival)) = lock
    BY <1>1, <1>3 DEF Earlier, Tx, TIME_LOCK_INTERVAL, HTLC_TIMELOCK_OFFSET, DIRECT_TIMELOCK_OFFSET
  <1>5. refund - TIME_LOCK_INTERVAL \in Lock /\ refund - TIME_LOCK_INTERVAL >= TIME_LOCK_INTERVAL
    BY <1>1, RoundedFacts
  <1>6. tx \in InTime /\ tx.lock >= TIME_LOCK_INTERVAL
    <2>1. lock \in Int /\ refund - TIME_LOCK_INTERVAL + DIRECT_TIMELOCK_OFFSET < lock
      BY <1>1, <1>3 DEF TIME_LOCK_INTERVAL, HTLC_TIMELOCK_OFFSET, DIRECT_TIMELOCK_OFFSET
    <2>2. tx = Tx(refund - TIME_LOCK_INTERVAL, lock)
      BY <1>3, <1>4
    <2>3. tx \in InTime
      BY <1>5, <2>1, <2>2, TxFacts
    <2> QED
      BY <1>5, <2>2, <2>3 DEF Tx
  <1> HIDE DEF tx
  <1>7. [leaf EXCEPT !.refund = tx] = [path |-> leaf.path, refund |-> tx, renewals |-> leaf.renewals]
    BY DEF LeafOK
  <1>8. LeafOK([leaf EXCEPT !.refund = tx])
    BY <1>6, <1>7 DEF LeafOK
  <1> QED
    BY <1>8 DEF tx

-----------------------------------------------------------------------------
(***************************************************************************)
(* The invariant.                                                          *)
(***************************************************************************)

\* A new leaf is in order, and so is the wallet's copy of it.
LEMMA InitOK == TimelockInit => Inv
  <1> SUFFICES ASSUME TimelockInit PROVE Inv
    OBVIOUS
  <1>1. PICK lock \in {0, INITIAL_TIMELOCK} :
          leaf = [path |-> <<Tx(lock, NoRival)>>, refund |-> Tx(INITIAL_TIMELOCK, NoRival), renewals |-> 0]
    BY DEF TimelockInit
  <1>2. INITIAL_TIMELOCK \in Nat /\ INITIAL_TIMELOCK >= TIME_LOCK_INTERVAL
    BY LeafTimelocksAssumption DEF LeafTimelocksAssumption, TIME_LOCK_INTERVAL
  <1>3. Tx(lock, NoRival) \in InTime
    BY <1>2, LockFacts, TxFacts DEF NoRival, TIME_LOCK_INTERVAL, DIRECT_TIMELOCK_OFFSET
  <1>4. Tx(INITIAL_TIMELOCK, NoRival) \in InTime /\ Tx(INITIAL_TIMELOCK, NoRival).lock >= TIME_LOCK_INTERVAL
    BY <1>2, FreshFacts DEF Fresh
  <1>5. LeafOK(leaf)
    BY <1>1, <1>3, <1>4 DEF LeafOK
  <1> QED
    BY <1>5 DEF TimelockInit, Inv, CopyOK, TransferOK

\* No operation disturbs it.
LEMMA StepOK == Inv /\ [TimelockNext]_timelockVars => Inv'
  <1> SUFFICES ASSUME Inv, [TimelockNext]_timelockVars PROVE Inv'
    OBVIOUS
  <1> USE DEF Inv
  <1>0. CopyOK(CopyOf(leaf), leaf) /\ CopyOf(leaf) # NoCopy
    BY CopyFacts DEF CopyOK
  <1>1. CASE SyncCopy
    <2>1. PICK r \in checkRenewLeaves(leaf, CopyOf(leaf)) : leaf' = r[1] /\ copy' = r[2]
      BY <1>1 DEF SyncCopy
    <2>2. LeafOK(leaf') /\ (copy' = NoCopy \/ copy' = CopyOf(leaf'))
      BY <1>0, <2>1, CheckRenewOK
    <2>3. transfer' = NoTransfer
      BY <1>1 DEF SyncCopy
    <2> QED
      BY <2>2, <2>3 DEF CopyOK, TransferOK
  <1>2. CASE AddLeaf
    BY <1>2 DEF AddLeaf, CopyOK, TransferOK
  <1>3. ASSUME NEW kind \in Kinds, SendSelected(kind) PROVE Inv'
    <2>1. PICK r \in checkRenewLeaves(leaf, copy) :
            leaf' = r[1] /\ copy' = (IF r[2] = NoCopy THEN copy ELSE r[2])
      BY <1>3 DEF SendSelected
    <2>2. /\ LeafOK(leaf') /\ CopyOK(copy, leaf)'
          /\ copy' = CopyOf(leaf') \/ copy'.refund = TIME_LOCK_INTERVAL
      <3>1. /\ r[2] = NoCopy \/ r[2] = CopyOf(r[1])
            /\ r[2] = NoCopy => copy.refund = TIME_LOCK_INTERVAL /\ CopyOK(copy, r[1])
            /\ LeafOK(r[1])
        BY <1>3, CheckRenewOK DEF SendSelected
      <3> QED
        BY <2>1, <3>1 DEF CopyOK
    <2>3. Sign(kind, copy')
      BY <1>3 DEF SendSelected
    <2> QED
      BY <2>2, <2>3, SignOK
  <1>4. ASSUME NEW kind \in Kinds, SendAll(kind) PROVE Inv'
    <2>1. PICK r \in checkRenewLeaves(leaf, copy) :
            /\ leaf' = r[1]
            /\ IF r[2] = NoCopy THEN UNCHANGED <<copy, transfer>>
               ELSE copy' = r[2] /\ Sign(kind, r[2])
      BY <1>4 DEF SendAll
    <2>2. /\ r[2] = NoCopy \/ r[2] = CopyOf(r[1])
          /\ r[2] = NoCopy => copy.refund = TIME_LOCK_INTERVAL /\ CopyOK(copy, r[1])
          /\ LeafOK(r[1])
      BY <1>4, CheckRenewOK DEF SendAll
    <2>3. CASE r[2] = NoCopy
      BY <1>4, <2>1, <2>2, <2>3 DEF SendAll, TransferOK
    <2>4. CASE r[2] # NoCopy
      BY <2>1, <2>2, <2>4, SignOK DEF CopyOK
    <2> QED
      BY <2>3, <2>4
  <1>5. CASE SendToSwap
    <2>1. copy = CopyOf(leaf)
      BY <1>5 DEF SendToSwap, CopyOK, CanDecrement, TIME_LOCK_INTERVAL
    <2>2. leaf' = leaf /\ copy' = copy /\ Sign("transfer", copy)
      BY <1>5 DEF SendToSwap
    <2>3. LeafOK(leaf') /\ copy = CopyOf(leaf')
      BY <2>1, <2>2
    <2> QED
      BY <2>2, <2>3, SignOK DEF CopyOK
  <1>6. CASE TransferReturns
    BY <1>6 DEF TransferReturns, TransferOK
  <1>7. CASE ClaimLeaf
    <2> DEFINE lock == IF transfer.kind = "htlc" THEN transfer.lock ELSE leaf.refund.lock
               mine == [leaf EXCEPT !.refund = Tx(Rounded(transfer.lock),
                                                  Earlier(Tx(lock, leaf.refund.rival)))]
    <2>1. LeafOK(mine)
      BY <1>7, ClaimedOK DEF ClaimLeaf
    <2>2. PICK r \in checkRenewLeaves(mine, CopyOf(mine)) :
            leaf' = r[1] /\ copy' \in (IF r[2] = NoCopy THEN {NoCopy, CopyOf(mine)} ELSE {r[2]})
      BY <1>7 DEF ClaimLeaf
    <2>3. transfer' = NoTransfer
      BY <1>7 DEF ClaimLeaf
    <2> HIDE DEF mine
    <2>4. CopyOK(CopyOf(mine), mine) /\ CopyOf(mine) # NoCopy
      BY <2>1, CopyFacts DEF CopyOK
    <2>5. /\ r[2] = NoCopy \/ r[2] = CopyOf(r[1])
          /\ r[2] = NoCopy => CopyOK(CopyOf(mine), r[1])
          /\ LeafOK(r[1])
      BY <2>1, <2>4, CheckRenewOK
    <2> QED
      BY <2>2, <2>3, <2>5 DEF CopyOK, TransferOK
  <1>8. CASE UNCHANGED timelockVars
    BY <1>8 DEF timelockVars
  <1> QED
    BY <1>1, <1>2, <1>3, <1>4, <1>5, <1>6, <1>7, <1>8 DEF TimelockNext

LEMMA Invariance == TimelockSpec => []Inv
  BY InitOK, StepOK, PTL DEF TimelockSpec

(***************************************************************************)
(* The newest owner comes first, for any initial timelock that is a        *)
(* multiple of the interval, any number of renewals and any kinds of       *)
(* transfers.                                                              *)
(***************************************************************************)
THEOREM NewestAlwaysFirst == TimelockSpec => []NewestComesFirst
  <1>1. Inv => NewestComesFirst
    <2> SUFFICES ASSUME Inv PROVE NewestComesFirst
      OBVIOUS
    <2>1. LeafOK(leaf) /\ TransferOK(transfer, leaf)
      BY DEF Inv
    <2>2. /\ \A i \in 1..Len(leaf.path) : ComesFirst(leaf.path[i])
          /\ ComesFirst(leaf.refund) /\ leaf.refund.lock >= TIME_LOCK_INTERVAL
      BY <2>1 DEF LeafOK, InTime
    <2>3. leaf.refund.lock \in Lock /\ leaf.refund.lock \in Int
      BY <2>1, EarlierFacts DEF LeafOK
    <2>4. transfer # NoTransfer => transfer.direct < leaf.refund.lock
      <3> SUFFICES ASSUME transfer # NoTransfer PROVE transfer.direct < leaf.refund.lock
        OBVIOUS
      <3>1. CanDecrement(leaf.refund.lock) /\ CopyOf(leaf).refund = leaf.refund.lock
        BY <2>1 DEF TransferOK, CopyOf
      <3>2. CASE transfer = SignedRefund(CopyOf(leaf))
        BY <2>3, <3>1, <3>2, RoundedFacts DEF SignedRefund, TIME_LOCK_INTERVAL, DIRECT_TIMELOCK_OFFSET
      <3>3. CASE transfer = SignedHtlc(CopyOf(leaf))
        BY <2>3, <3>1, <3>3 DEF SignedHtlc, Decremented, TIME_LOCK_INTERVAL, DIRECT_HTLC_TIMELOCK_OFFSET
      <3> QED
        BY <2>1, <3>2, <3>3 DEF TransferOK
    <2> QED
      BY <2>2, <2>4 DEF NewestComesFirst
  <1> QED
    BY <1>1, Invariance, PTL

(***************************************************************************)
(* What is signed for a transfer is signed over the present leaf, although *)
(* answers of renewals are lost and swaps renew nothing.                   *)
(***************************************************************************)
THEOREM StaleIsNeverSigned == TimelockSpec => []SignedOverPresent
  <1>1. Inv => SignedOverPresent
    BY DEF Inv, TransferOK, SignedOverPresent, SignedRefund, SignedHtlc
  <1> QED
    BY <1>1, Invariance, PTL
=============================================================================
