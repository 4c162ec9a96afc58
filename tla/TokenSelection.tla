---------------------------- MODULE TokenSelection ----------------------------
(***************************************************************************)
(* selectTokenOutputs in services/tokens/token-transactions.ts: which      *)
(* outputs of a token pay an amount.  Outputs are a sequence of amounts,   *)
(* MAX_TOKEN_OUTPUTS_TX is a parameter.                                    *)
(***************************************************************************)
EXTENDS Amounts

Insufficient == <<>>

\* Mutant of SmallestPrefix: the limit is tested one output too late.
SmallestPrefixOneMore(outputs, amount, limit) ==
  LET enough == {n \in 1..Min({limit + 1, Len(outputs)}) :
                   Total(SubSeq(outputs, 1, n)) >= amount}
  IN IF enough = {} THEN Insufficient ELSE SubSeq(outputs, 1, Min(enough))

\* The first outputs that pay the amount, at most limit of them.
SmallestPrefix(outputs, amount, limit) ==
  LET enough == {n \in 1..Min({limit, Len(outputs)}) :
                   Total(SubSeq(outputs, 1, n)) >= amount}
  IN IF enough = {} THEN Insufficient ELSE SubSeq(outputs, 1, Min(enough))

\* While they do not pay the amount, the first of the chosen goes for the next output.
Replaced(small, large, amount) ==
  FoldLeft(LAMBDA selected, output : IF Total(selected) < amount
                                       THEN Append(Tail(selected), output) ELSE selected,
           small, large)

\* The smallest outputs, exchanged for the largest of the others.
Exchanged(outputs, amount, limit) ==
  LET small == SubSeq(outputs, 1, Min({limit, Len(outputs)}))
      large == Reverse(SubSeq(outputs, limit + 1, Len(outputs)))
      chosen == Replaced(small, large, amount)
  IN IF Total(chosen) < amount THEN Insufficient ELSE chosen

selectTokenOutputs(outputs, amount, strategy, limit) ==
  IF amount <= 0 \/ Total(outputs) < amount THEN Insufficient
  ELSE IF amount \in ToSet(outputs) THEN <<amount>>
  ELSE IF strategy = "LARGE_FIRST" THEN SmallestPrefix(descending(outputs), amount, limit)
  ELSE LET sortedOutputs == ascending(outputs)
           prefix == SmallestPrefix(sortedOutputs, amount, limit)
       IN IF prefix # Insufficient THEN prefix ELSE Exchanged(sortedOutputs, amount, limit)

-----------------------------------------------------------------------------
(***************************************************************************)
(* With either strategy the selection pays the amount with outputs there   *)
(* are, each once, and no more of them than a transaction takes; it fails  *)
(* only if no choice of so many outputs would pay it.                      *)
(***************************************************************************)
SelectionSuffices(outputs, amount, strategy, limit) ==
  LET selected == selectTokenOutputs(outputs, amount, strategy, limit)
  IN IF selected = Insufficient
     THEN Total(SubSeq(descending(outputs), 1, Min({limit, Len(outputs)}))) < amount
     ELSE /\ Total(selected) >= amount
          /\ Len(selected) <= limit
          /\ \A v \in ToSet(selected) : Count(selected, v) <= Count(outputs, v)
=============================================================================
