---------------------------- MODULE MCLeafManager ----------------------------
(***************************************************************************)
(* Instances of LeafManager for TLC.  Operations, leaves and transfers are *)
(* strings and tuples of strings; a cfg picks one definition per constant. *)
(***************************************************************************)
EXTENDS LeafManager

MCXfer == (Callers \X (1..MaxCalls)) \cup Incoming \cup Deposits \cup External

\* Leaves l1, l2 and l3 are owned; c1 and c2 appear in swaps; i1 comes in and
\* d1 is deposited.
Values == [l1 |-> 2, l2 |-> 1, l3 |-> 1, c1 |-> 1, c2 |-> 1, i1 |-> 1, d1 |-> 1]
MCValue == [l \in Leaf |-> Values[l]]

JustOne == [p \in Sender |-> <<1>>]
OneAndBatch == [p \in Sender |-> IF p = "s1" THEN <<1>> ELSE <<1, 1>>]
OneOneBatch == [p \in Sender |-> <<1, 1>>]

Transfers == [p \in Sender |-> "transfer"]
Invoices == [p \in Sender |-> "invoice"]
Selves == [p \in Sender |-> "self"]
Quotes == [p \in Sender |-> "quote"]
InvoiceAndTransfer == [p \in Sender |-> IF p = "s1" THEN "transfer" ELSE "invoice"]

NoLeaves == [x \in {} |-> {}]
In1 == <<"in", 1>>
Ext1 == <<"ext", 1>>
Dep1 == <<"dep", 1>>
OneIncoming == {In1}
OneExternal == {Ext1}
OneDeposit == {Dep1}
InBoth == [x \in Incoming \cup Deposits |-> IF x = In1 THEN {"i1"} ELSE {"d1"}]

NoClaims == [p \in {} |-> In1]
ClaimsIncoming == [p \in Claimer |-> In1]
NoDeposits == [p \in {} |-> Dep1]
HandlesDeposit == [p \in Depositor |-> Dep1]
=============================================================================
