---------------------------- MODULE LeafSelection ----------------------------
(***************************************************************************)
(* Which leaves an operation takes: the greedy exact fit and the choice of *)
(* leaves to swap of services/leaf-manager.ts, by what they select.        *)
(*                                                                         *)
(* The code sorts the available leaves by value and walks them; leaves of  *)
(* equal value keep the insertion order of a Map.  Nothing here depends on *)
(* that order: a selection is any set that some such walk returns.         *)
(* SelectionLoops walks the loops themselves and shows that these sets   *)
(* are the ones they compute.                                              *)
(***************************************************************************)
EXTENDS Integers, FiniteSets, FiniteSetsExt

CONSTANTS Leaf,   \* leaf (tree node) identifiers
          Value   \* the value of each leaf, in sats

ASSUME LeafSelectionAssumption ==
  /\ IsFiniteSet(Leaf)
  /\ Value \in [Leaf -> Nat \ {0}]

SumOf(S) == MapThenSumSet(LAMBDA l : Value[l], S)

\* A list of target amounts, and a list of batches of leaves for them.
TargetSum(targets) == MapThenSumSet(LAMBDA i : targets[i], DOMAIN targets)
Flat(batches) == UNION {batches[i] : i \in DOMAIN batches}

(***************************************************************************)
(* What the inner loop of selectLeaves takes for one target, walking avail *)
(* by descending value: a leaf is passed over only when it no longer fits  *)
(* beside the leaves taken before it.                                      *)
(***************************************************************************)
IsGreedy(avail, target, sel) ==
  /\ sel \subseteq avail
  /\ SumOf(sel) <= target
  /\ \A l \in avail \ sel :
       SumOf({k \in sel : Value[k] >= Value[l]}) + Value[l] > target

\* Targets are served by ascending amount, equal amounts in their given order.
ServedBefore(targets, i, j) ==
  \/ targets[i] < targets[j]
  \/ targets[i] = targets[j] /\ i < j

IsSelection(avail, targets, batches) ==
  \A i \in DOMAIN targets :
    IsGreedy(avail \ UNION {batches[j] : j \in {k \in DOMAIN targets : ServedBefore(targets, k, i)}},
             targets[i], batches[i])

selectLeaves(avail, targets) ==
  {batches \in [DOMAIN targets -> SUBSET avail] : IsSelection(avail, targets, batches)}

\* The second component of what selectLeaves returns: the amounts add up.
Found(targets, batches) == SumOf(Flat(batches)) = TargetSum(targets)

(***************************************************************************)
(* The leaves handed to a swap: the smallest ones, just enough of them.    *)
(***************************************************************************)
IsLeavesToSwap(avail, target, sel) ==
  /\ sel \subseteq avail
  /\ SumOf(sel) >= target
  /\ \A l \in sel, k \in avail \ sel : Value[l] <= Value[k]
  /\ \A l \in sel :
       (\A k \in sel : Value[k] <= Value[l]) => SumOf(sel \ {l}) < target

determineLeavesToSwap(avail, target) ==
  {sel \in SUBSET avail : IsLeavesToSwap(avail, target, sel)}
=============================================================================
