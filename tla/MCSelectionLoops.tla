--------------------------- MODULE MCSelectionLoops ---------------------------
(***************************************************************************)
(* The algorithms over amounts on every small input.  The loops of         *)
(* SelectionLoops run over sets of leaves, four of power-of-two values, two*)
(* of them alike, and one of value 3.  The others are operators; wallet    *)
(* is what they are given, a list of amounts in ascending order.  When     *)
(* there is nothing to select, one leaf is sent and renewed.               *)
(***************************************************************************)
EXTENDS SelectionLoops, OptimizePlans, SwapBatches, TokenSelection, LeafTimelocks

Values == [a |-> 4, b |-> 2, c |-> 2, d |-> 1, e |-> 3]
MCValue == [l \in Leaf |-> Values[l]]

CONSTANTS
  Few, MaxFew,     \* wallets of at most MaxFew amounts of the set Few,
  Many, MaxMany,   \* and of at most MaxMany of the set Many
  Limits           \* for maxLeavesPerSwap, MAX_BATCH_SIZE, MAX_TOKEN_OUTPUTS_TX

ASSUME ListsAssumption ==
  /\ Few \subseteq Nat \ {0} /\ Many \subseteq Nat \ {0} /\ Limits \subseteq Nat \ {0}
  /\ MaxFew \in Nat /\ MaxMany \in Nat

VARIABLE wallet

Lists(amounts, n) == {s \in [1..n -> amounts] : \A i \in 1..(n - 1) : s[i] <= s[i + 1]}
Wallets == UNION ({Lists(Few, n) : n \in 0..MaxFew} \cup {Lists(Many, n) : n \in 0..MaxMany})

Idle == avail = {} /\ targets = <<1>> /\ served = 0 /\ wallet = <<>>

MCInit ==
  /\ Init
  /\ wallet \in Wallets
  /\ wallet # <<>> => avail = {} /\ targets = <<1>>
  /\ TimelockInit
  /\ Idle \/ leaf.path[1].lock = 0
MCNext ==
  \/ Next /\ UNCHANGED <<wallet, timelockVars>>
  \/ Idle /\ TimelockNext /\ UNCHANGED <<vars, wallet>>
MCSpec == MCInit /\ [][MCNext]_<<vars, wallet, timelockVars>>

(***************************************************************************)
(* The plans of utils/optimize.ts are sound (PlanIsSound) for unilateral   *)
(* exits and for both multiplicities of swap minimizing, whatever the      *)
(* limit cuts.                                                             *)
(***************************************************************************)
PlansAreSound ==
  \A limit \in Limits, multiplicity \in 0..2 : PlanIsSound(wallet, multiplicity, limit)

(***************************************************************************)
(* requestLeavesSwap splits every list of up to three targets so that no   *)
(* batch is refused after another was swapped (BatchesAreValid).           *)
(***************************************************************************)
SplitsAreValid ==
  \A limit \in Limits, targetAmounts \in UNION {[1..n -> Many] : n \in 1..3} :
    wallet # <<>> => BatchesAreValid(wallet, targetAmounts, limit)

(***************************************************************************)
(* selectTokenOutputs suffices (SelectionSuffices) with both strategies,   *)
(* for every amount up to one more than the wallet has.                    *)
(***************************************************************************)
SelectionsSuffice ==
  \A limit \in Limits, strategy \in {"SMALL_FIRST", "LARGE_FIRST"},
     amount \in 1..(Total(wallet) + 1) :
    SelectionSuffices(wallet, amount, strategy, limit)
=============================================================================
