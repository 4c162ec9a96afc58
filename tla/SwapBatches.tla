----------------------------- MODULE SwapBatches -----------------------------
(***************************************************************************)
(* services/swap.ts: how requestLeavesSwap splits a request of more leaves *)
(* than one swap may have.  Leaves and targets are sequences of amounts;   *)
(* MAX_BATCH_SIZE is a parameter.                                          *)
(***************************************************************************)
EXTENDS Amounts

\* The leaves by descending value, in chunks.
leafBatches(leaves, size) ==
  LET all == descending(leaves)
  IN [k \in 1..((Len(all) + size - 1) \div size) |->
        SubSeq(all, (k - 1) * size + 1, Min({k * size, Len(all)}))]

validateSwapInputs(leaves, targets, size) ==
  /\ targets # <<>>
  /\ Total(targets) <= Total(leaves)
  /\ \A i \in DOMAIN targets : targets[i] > 0
  /\ Len(leaves) > size => Max(ToSet(targets)) <= Total(leafBatches(leaves, size)[1])

NoBatch == 0

\* Mutant of FirstFit: what a batch has been given is not counted.
FirstFitUncounted(target, batches, given) ==
  LET fits == {k \in DOMAIN batches : Total(batches[k]) >= target}
  IN IF fits = {} THEN NoBatch ELSE Min(fits)

\* The first batch with enough left for a target.
FirstFit(target, batches, given) ==
  LET fits == {k \in DOMAIN batches : Total(batches[k]) - Total(given[k]) >= target}
  IN IF fits = {} THEN NoBatch ELSE Min(fits)

Unassigned == <<>>
Assign(given, target, batches) ==
  IF given = Unassigned THEN Unassigned
  ELSE LET k == FirstFit(target, batches, given)
       IN IF k = NoBatch THEN Unassigned ELSE [given EXCEPT ![k] = Append(@, target)]

\* The targets of each batch, assigned from the largest; or an error.
distributeTargetAmounts(targets, batches) ==
  FoldLeft(LAMBDA given, target : Assign(given, target, batches),
           [k \in DOMAIN batches |-> <<>>], descending(targets))

-----------------------------------------------------------------------------
(***************************************************************************)
(* A request is refused as a whole or not at all: the swaps of its batches *)
(* are made one after the other, and none of them fails the validation     *)
(* that executeSingleSwap repeats after others were made.  Together they   *)
(* pay every target.                                                       *)
(***************************************************************************)
BatchesAreValid(leaves, targets, size) ==
  LET batches == leafBatches(leaves, size)
      given == distributeTargetAmounts(targets, batches)
      paid == UNION {ToSet(amounts) : amounts \in ToSet(given)}
  IN validateSwapInputs(leaves, targets, size) /\ given # Unassigned =>
       /\ \A k \in DOMAIN batches :
            given[k] # <<>> => validateSwapInputs(batches[k], given[k], size)
       /\ \A v \in ToSet(targets) \cup paid :
            Total([k \in DOMAIN given |-> Count(given[k], v)]) = Count(targets, v)
=============================================================================
