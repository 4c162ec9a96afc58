----------------------------- MODULE MCCeremony -----------------------------
(***************************************************************************)
(* A 2-of-3 group with a key of each parity.  Participant 1 may sign twice.*)
(***************************************************************************)
EXTENDS Ceremony

MCIndexOf == [s1 |-> 1, s2 |-> 2, s3 |-> 3, s4 |-> 1]
MCNonce == [s1 |-> 1, s2 |-> 3, s3 |-> 4, s4 |-> 2]
MCKey == {<<2, 5>>, <<9, 4>>}
MCOption == [e1 |-> "faucet-txid", e2 |-> "skip-claim"]

\* Stands for the hash of both; never 0, which the code's field makes as good
\* as certain.
MCChallenge(nonces, v) == 1 + ((nonces + (IF v = "p1" THEN 0 ELSE 3)) % (P - 1))

ASSUME MCSharesAddUp == SharesAddUp
=============================================================================
