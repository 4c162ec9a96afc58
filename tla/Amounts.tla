------------------------------- MODULE Amounts -------------------------------
(***************************************************************************)
(* Lists of amounts, which utils/optimize.ts, services/swap.ts and the     *)
(* selection of token outputs compute with.  Sorting is by definition of   *)
(* the place of each element, and not by SortSeq, whose definition the     *)
(* provers do not have.                                                    *)
(***************************************************************************)
EXTENDS Integers, Sequences, FiniteSets, FiniteSetsExt, SequencesExt

Total(s) == MapThenSumSet(LAMBDA i : s[i], DOMAIN s)
Count(s, v) == Cardinality({i \in DOMAIN s : s[i] = v})

\* Array.prototype.sort: an element comes after the smaller ones and after the equal
\* ones that preceded it.
ascending(s) ==
  LET place == [j \in DOMAIN s |->
                  Cardinality({i \in DOMAIN s : s[i] < s[j] \/ (s[i] = s[j] /\ i <= j)})]
  IN [k \in DOMAIN s |-> s[CHOOSE j \in DOMAIN s : place[j] = k]]
descending(s) == Reverse(ascending(s))
=============================================================================
