---------------------------- MODULE SelectionLoops ----------------------------
(***************************************************************************)
(* The loops of selectLeaves and determineLeavesToSwap in                  *)
(* services/leaf-manager.ts, one step per target, over leaves in the order *)
(* the sort leaves them in.  LeafSelection describes what they return by   *)
(* its properties; here those descriptions are checked against the loops.  *)
(***************************************************************************)
EXTENDS LeafSelection, Sequences, SequencesExt

CONSTANTS MaxAmount,   \* bound: the largest target
          MaxTargets   \* bound: the longest list of targets

ASSUME SelectionLoopsAssumption == MaxAmount \in Nat /\ MaxTargets \in Nat

VARIABLES avail,     \* the available leaves
          targets,   \* targetAmounts
          order,     \* the leaves by descending value
          served,    \* targets served so far
          used,      \* usedIds
          batches,   \* the leaves of each target, by its place in the list
          total,     \* totalAmount
          result     \* what was returned: nothing yet, a selection, leaves to swap, an error

vars == <<avail, targets, order, served, used, batches, total, result>>

\* Mutant of Descending: sorted the other way.
DescendingReversed(S) == {s \in SetToSeqs(S) : \A i, j \in DOMAIN s : i < j => Value[s[i]] <= Value[s[j]]}

Descending(S) == {s \in SetToSeqs(S) : \A i, j \in DOMAIN s : i < j => Value[s[i]] >= Value[s[j]]}
Ascending(S) == {s \in SetToSeqs(S) : \A i, j \in DOMAIN s : i < j => Value[s[i]] <= Value[s[j]]}

\* The places of the targets, in the order they are served.
Places ==
  CHOOSE s \in SetToSeqs(DOMAIN targets) :
    \A i, j \in DOMAIN s : i < j => ServedBefore(targets, s[i], s[j])

\* Mutant of Walk: a leaf worth exactly the rest is passed over.
WalkPastExact(target, without, leaves) ==
  FoldLeft(LAMBDA taken, l : IF l \notin without /\ target - SumOf(taken) > Value[l]
                                THEN taken \cup {l} ELSE taken,
              {}, leaves)

\* The inner loop for one target: the leaves it takes.
Walk(target, without, leaves) ==
  FoldLeft(LAMBDA taken, l : IF l \notin without /\ target - SumOf(taken) >= Value[l]
                                THEN taken \cup {l} ELSE taken,
              {}, leaves)

\* The loop of determineLeavesToSwap.
Gather(target, leaves) ==
  FoldLeft(LAMBDA taken, l : IF SumOf(taken) >= target THEN taken ELSE taken \cup {l}, {}, leaves)

Init ==
  /\ avail \in SUBSET Leaf
  /\ targets \in UNION {[1..n -> 1..MaxAmount] : n \in 1..MaxTargets}
  /\ order \in Descending(avail)
  /\ served = 0
  /\ used = {}
  /\ batches = [i \in DOMAIN targets |-> {}]
  /\ total = 0
  /\ result = "none"

\* Mutant of ServeTarget: a leaf may serve two targets.
ServeTargetTwice ==
  /\ served < Len(targets)
  /\ LET i == Places[served + 1]
         nodes == Walk(targets[i], {}, order)
     IN /\ batches' = [batches EXCEPT ![i] = nodes]
        /\ used' = used \cup nodes
        /\ total' = total + SumOf(nodes)
  /\ served' = served + 1
  /\ UNCHANGED <<avail, targets, order, result>>

ServeTarget ==
  /\ served < Len(targets)
  /\ LET i == Places[served + 1]
         nodes == Walk(targets[i], used, order)
     IN /\ batches' = [batches EXCEPT ![i] = nodes]
        /\ used' = used \cup nodes
        /\ total' = total + SumOf(nodes)
  /\ served' = served + 1
  /\ UNCHANGED <<avail, targets, order, result>>

Return ==
  /\ served = Len(targets) /\ result = "none"
  /\ total = TargetSum(targets)
  /\ result' = "selection"
  /\ UNCHANGED <<avail, targets, order, served, used, batches, total>>

\* No exact fit: the leaves to swap, captured as one batch.
DetermineLeavesToSwap ==
  /\ served = Len(targets) /\ result = "none"
  /\ total # TargetSum(targets)
  /\ \E leaves \in Ascending(avail) :
       LET nodes == Gather(TargetSum(targets), leaves)
       IN IF SumOf(nodes) < TargetSum(targets)
          THEN result' = "error" /\ UNCHANGED used
          ELSE result' = "swap" /\ used' = nodes
  /\ UNCHANGED <<avail, targets, order, served, batches, total>>

Next == ServeTarget \/ Return \/ DetermineLeavesToSwap

Spec == Init /\ [][Next]_vars
-----------------------------------------------------------------------------
(***************************************************************************)
(* The loops return what LeafSelection says: selectLeaves a selection, with*)
(* Found as its second component, and every selection for some order of    *)
(* the leaves; determineLeavesToSwap the smallest leaves that cover the    *)
(* targets, or an error when all the available leaves do not.              *)
(***************************************************************************)
LoopIsSelection ==
  /\ batches \in selectLeaves(avail, targets)
  /\ total = TargetSum(targets) <=> Found(targets, batches)
SelectionIsLoop ==
  \A bs \in selectLeaves(avail, targets) :
    \E leaves \in Descending(avail) :
      \A i \in DOMAIN targets :
        bs[i] = Walk(targets[i],
                     UNION {bs[j] : j \in {k \in DOMAIN targets : ServedBefore(targets, k, i)}},
                     leaves)
LoopsAgree ==
  /\ served = Len(targets) => LoopIsSelection /\ SelectionIsLoop
  /\ result = "swap" => used \in determineLeavesToSwap(avail, TargetSum(targets))
  /\ result = "error" => SumOf(avail) < TargetSum(targets)

(***************************************************************************)
(* A selection that is returned pays every target exactly, with no leaf    *)
(* used twice: selectLeaves compares totals only, over all the targets.    *)
(***************************************************************************)
ExactAndDisjoint ==
  result = "selection" =>
    /\ \A i \in DOMAIN targets : SumOf(batches[i]) = targets[i]
    /\ \A i, j \in DOMAIN targets : i # j => batches[i] \cap batches[j] = {}

(***************************************************************************)
(* Leaves of the denominations the optimizer makes (powers of two) are     *)
(* never swapped for nothing: when some choice of leaves pays every target *)
(* exactly, serving the targets by ascending amount finds one.             *)
(***************************************************************************)
NoNeedlessSwap ==
  /\ result \in {"swap", "error"}
  /\ \A l \in avail : Value[l] \in {2^k : k \in 0..MaxAmount}
  => ~ \E bs \in [DOMAIN targets -> SUBSET avail] :
         /\ \A i \in DOMAIN targets : SumOf(bs[i]) = targets[i]
         /\ \A i, j \in DOMAIN targets : i # j => bs[i] \cap bs[j] = {}
=============================================================================
