---------------------------- MODULE OptimizePlans ----------------------------
(***************************************************************************)
(* utils/optimize.ts: which leaves the optimizer swaps for which.  A list  *)
(* of leaves is a sequence of amounts; a plan is a sequence of swaps, each *)
(* to be made with the service provider on its own.                        *)
(***************************************************************************)
EXTENDS Amounts

DENOMINATIONS == [i \in 1..28 |-> 2^(i - 1)]

Swap(inLeaves, outLeaves) == [inLeaves |-> inLeaves, outLeaves |-> outLeaves]

\* The fewest leaves of the denominations, the smallest first.
largest(amount) == Max({d \in ToSet(DENOMINATIONS) : d <= amount})
greedyLeaves[amount \in Nat] ==
  IF amount = 0 THEN <<>>
  ELSE Append(greedyLeaves[amount - largest(amount)], largest(amount))

Copies(n, v) == [i \in 1..n |-> v]

\* So many of each denomination as far as the amount goes.
few(amount, multiplicity) ==
  FoldLeft(LAMBDA leaves, d :
             leaves \o Copies(Min({multiplicity, (amount - Total(leaves)) \div d}), d),
           <<>>, SubSeq(DENOMINATIONS, 1, Cardinality({i \in 1..28 : DENOMINATIONS[i] <= amount})))

\* Mutant of swapMinimizingLeaves: nothing is made of what remains.
SwapMinimizingUpToRest(amount, multiplicity) == few(amount, multiplicity)

\* And the fewest of what remains.
swapMinimizingLeaves(amount, multiplicity) ==
  LET leaves == few(amount, multiplicity)
  IN ascending(leaves \o greedyLeaves[amount - Total(leaves)])

-----------------------------------------------------------------------------
\* A batch is swapped, unless that would change nothing.
CloseExit(state) ==
  LET target == greedyLeaves[Total(state.batch)]
  IN [batch |-> <<>>,
      swaps |-> IF target = state.batch THEN state.swaps
                ELSE Append(state.swaps, Swap(state.batch, target))]

\* It is cut where the batch or its target is long.
PushExit(state, leaf, maxLeavesPerSwap) ==
  LET batch == Append(state.batch, leaf)
      more == [batch |-> batch, swaps |-> state.swaps]
  IN IF \/ Len(batch) >= maxLeavesPerSwap
        \/ Len(greedyLeaves[Total(batch)]) >= maxLeavesPerSwap
     THEN CloseExit(more) ELSE more

\* The leaves are taken in ascending order.
maximizeUnilateralExit(inputLeaves, maxLeavesPerSwap) ==
  CloseExit(FoldLeft(LAMBDA state, leaf : PushExit(state, leaf, maxLeavesPerSwap),
                     [batch |-> <<>>, swaps |-> <<>>], ascending(inputLeaves))).swaps

-----------------------------------------------------------------------------
\* subtractCounters and counterToFlatArray: in ascending order, as many of each amount
\* as a has more than b.
Surplus(a, b) ==
  FoldLeft(LAMBDA flat, v : IF Count(flat, v) < Count(a, v) - Count(b, v)
                            THEN Append(flat, v) ELSE flat,
           <<>>, ascending(a))

\* A pair of batches of one amount as swaps of at most so many leaves.  None when
\* what is to be received is long and no shorter mix of it exists.
Chunk(give, k, size) == SubSeq(give, (k - 1) * size + 1, Min({k * size, Len(give)}))
Alternate(give, receive, cutoff) ==
  LET head == SubSeq(receive, 1, cutoff)
  IN head \o greedyLeaves[Total(give) - Total(head)]
SwapsOf(give, receive, maxLeavesPerSwap) ==
  LET cutoffs == {c \in 1..maxLeavesPerSwap : Len(Alternate(give, receive, c)) <= maxLeavesPerSwap}
  IN IF Len(give) > maxLeavesPerSwap
     THEN [k \in 1..((Len(give) + maxLeavesPerSwap - 1) \div maxLeavesPerSwap) |->
             Swap(Chunk(give, k, maxLeavesPerSwap), greedyLeaves[Total(Chunk(give, k, maxLeavesPerSwap))])]
     ELSE IF Len(receive) <= maxLeavesPerSwap THEN <<Swap(give, receive)>>
     ELSE IF cutoffs = {} THEN <<>>
     ELSE <<Swap(give, Alternate(give, receive, Max(cutoffs)))>>

\* A batch is closed whenever both sides are of one amount.
ClosePair(s, maxLeavesPerSwap) ==
  IF s.toGive # <<>> /\ s.toReceive # <<>> /\ Total(s.toGive) = Total(s.toReceive)
  THEN [s EXCEPT !.toGive = <<>>, !.toReceive = <<>>,
                 !.swaps = @ \o SwapsOf(s.toGive, s.toReceive, maxLeavesPerSwap)]
  ELSE s

\* Leaves to give and leaves to receive are paired up from the smallest.
PushPair(s, maxLeavesPerSwap) ==
  IF Total(s.toGive) > Total(s.toReceive)
  THEN IF s.receive = <<>> THEN s
       ELSE ClosePair([s EXCEPT !.toReceive = Append(@, Head(s.receive)), !.receive = Tail(@)],
                      maxLeavesPerSwap)
  ELSE IF s.give = <<>> THEN s
       ELSE ClosePair([s EXCEPT !.toGive = Append(@, Head(s.give)), !.give = Tail(@)],
                      maxLeavesPerSwap)

Paired(give, receive, maxLeavesPerSwap) ==
  FoldLeft(LAMBDA s, n : PushPair(s, maxLeavesPerSwap),
           [give |-> give, receive |-> receive, toGive |-> <<>>, toReceive |-> <<>>, swaps |-> <<>>],
           [n \in 1..(Len(give) + Len(receive)) |-> n])

minimizeTransferSwap(inputLeaves, multiplicity, maxLeavesPerSwap) ==
  LET optimal == swapMinimizingLeaves(Total(inputLeaves), multiplicity)
  IN Paired(Surplus(inputLeaves, optimal), Surplus(optimal, inputLeaves), maxLeavesPerSwap).swaps

optimize(inputLeaves, multiplicity, maxLeavesPerSwap) ==
  IF multiplicity = 0 THEN maximizeUnilateralExit(inputLeaves, maxLeavesPerSwap)
  ELSE minimizeTransferSwap(inputLeaves, multiplicity, maxLeavesPerSwap)

-----------------------------------------------------------------------------
(***************************************************************************)
(* A plan takes from the wallet leaves it has, each once (optimizeLeaves   *)
(* looks them up by amount and goes on without one it does not find), in   *)
(* swaps of equal sides that the swap service makes in one call each.      *)
(* When no batch is cut, making all its swaps leaves the wallet with the   *)
(* optimal leaves: few of a kind for the multiplicity, the fewest for      *)
(* unilateral exits.  It is not enough for those that the wallet and the   *)
(* optimal leaves are fewer than the limit: leaves of 7 and 9 are worth one*)
(* of 16, and with a limit of three the 7 is swapped on its own.           *)
(***************************************************************************)
Spent(plan, v) == Total([k \in DOMAIN plan |-> Count(plan[k].inLeaves, v)])
Gained(plan, v) == Total([k \in DOMAIN plan |-> Count(plan[k].outLeaves, v)])
Uncut(leaves, optimal, multiplicity, maxLeavesPerSwap) ==
  IF multiplicity = 0
  THEN \A n \in 1..Len(leaves) :
         /\ n < maxLeavesPerSwap
         /\ Len(greedyLeaves[Total(SubSeq(ascending(leaves), 1, n))]) < maxLeavesPerSwap
  ELSE Len(leaves) <= maxLeavesPerSwap /\ Len(optimal) <= maxLeavesPerSwap
PlanIsSound(leaves, multiplicity, maxLeavesPerSwap) ==
  LET plan == optimize(leaves, multiplicity, maxLeavesPerSwap)
      optimal == IF multiplicity = 0 THEN greedyLeaves[Total(leaves)]
                 ELSE swapMinimizingLeaves(Total(leaves), multiplicity)
      amounts == ToSet(leaves) \cup ToSet(optimal)
                   \cup UNION {ToSet(plan[k].inLeaves) \cup ToSet(plan[k].outLeaves) : k \in DOMAIN plan}
  IN /\ \A k \in DOMAIN plan : /\ Total(plan[k].inLeaves) = Total(plan[k].outLeaves)
                               /\ Len(plan[k].inLeaves) <= maxLeavesPerSwap
     /\ \A v \in amounts : Spent(plan, v) <= Count(leaves, v)
     /\ Uncut(leaves, optimal, multiplicity, maxLeavesPerSwap) =>
          \A v \in amounts :
            Count(leaves, v) - Spent(plan, v) + Gained(plan, v) = Count(optimal, v)
=============================================================================
