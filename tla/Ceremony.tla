------------------------------ MODULE Ceremony ------------------------------
(***************************************************************************)
(* dkg/ceremony.ts: commands that propose a payment, sign it with the      *)
(* share of one participant, and execute it.  They share one file, the     *)
(* proposal, which each command reads whole when it starts and writes      *)
(* whole when it has something to add, without a lock; a command that runs *)
(* beside another may undo what the other wrote, and one that is killed    *)
(* may leave the file behind what it did.                                  *)
(*                                                                         *)
(* The wallet is external: a deposit is claimed once, and a claim or a     *)
(* payment may throw before the operators accepted it or after (a reply    *)
(* that is lost, a later step of the wallet's executor).  With today's     *)
(* signer Spark's key tweaks make every payment fail; the ceremony is      *)
(* written for one that does not.                                          *)
(***************************************************************************)
EXTENDS ThresholdScalars, SequencesExt

CONSTANTS
  Proposer, Signer, Executor,   \* the commands; each runs once
  IndexOf,      \* the participant whose share a Signer uses
  Nonce,        \* the nonce it draws
  Threshold,
  Key,          \* outcomes of keygen: the polynomials behind the shares
  Challenge(_, _),   \* challengeScalar, of the nonces' sum and the proposal
  Option,       \* of each Executor: "faucet-txid", "skip-claim" or "none"
  MaxRunning    \* bound: commands that run at a time

Command == Proposer \cup Signer \cup Executor

ASSUME CeremonyAssumption ==
  /\ Proposer \cap Signer = {} /\ Proposer \cap Executor = {} /\ Signer \cap Executor = {}
  /\ Threshold \in Nat \ {0}
  /\ IndexOf \in [Signer -> 1..(P - 1)] /\ Nonce \in [Signer -> Scalar]
  /\ Key \subseteq [1..Threshold -> Scalar]
  /\ \A n \in Scalar, v \in Proposer : Challenge(n, v) \in Scalar
  /\ Option \in [Executor -> {"faucet-txid", "skip-claim", "none"}]
  /\ "none" \notin Proposer

VARIABLES
  key,        \* the group and share files
  file,       \* the proposal file
  pc,         \* where each command is
  held,       \* the proposal it has read
  deposit,    \* has the deposit been claimed?
  signed,     \* <<proposal, participant>>: who has signed what
  used,       \* <<Signer, proposal, signers>>: which signatures a nonce is in
  unrecorded, \* payments of each proposal whose command ended before it recorded them
  payments,   \* payments the operators accepted, of each proposal
  history     \* what has happened: "overlap", "rekeyed"

outside == <<deposit, payments>>
ghosts == <<signed, used, unrecorded>>
vars == <<key, file, pc, held, outside, ghosts, history>>

NoFile == [by |-> "none", key |-> <<>>, signers |-> <<>>, status |-> "none", z |-> 0,
           claim |-> FALSE, result |-> FALSE]

Init ==
  /\ key \in Key
  /\ file = NoFile
  /\ pc = [c \in Command |-> "idle"]
  /\ held = [c \in Command |-> NoFile]
  /\ deposit = FALSE
  /\ signed = {} /\ used = {}
  /\ payments = [c \in Proposer |-> 0] /\ unrecorded = payments
  /\ history = {}

Running == {c \in Command : pc[c] \notin {"idle", "over"}}
Goto(c, place) == pc' = [pc EXCEPT ![c] = place]

\* A command starts: is another one running?
Starts(c) ==
  /\ pc[c] = "idle"
  /\ Cardinality(Running) < MaxRunning
  /\ history' = IF Running = {} THEN history ELSE history \cup {"overlap"}

\* It ends, and what it held is gone.
Ends(c) ==
  /\ Goto(c, "over")
  /\ held' = [held EXCEPT ![c] = NoFile]

-----------------------------------------------------------------------------
\* keygen replaces the group and share files, also those of a proposal.
runKeygen ==
  /\ \E k \in Key \ {key} : key' = k
  /\ history' = IF file = NoFile /\ Running = {} THEN history ELSE history \cup {"rekeyed"}
  /\ UNCHANGED <<file, pc, held, outside, ghosts>>

-----------------------------------------------------------------------------
(***************************************************************************)
(* runPropose: a new proposal replaces whatever the file had.              *)
(***************************************************************************)
ProposeStart(c) ==
  /\ c \in Proposer
  /\ Starts(c)
  /\ held' = [held EXCEPT ![c] = [NoFile EXCEPT !.by = c, !.key = key, !.status = "collecting"]]
  /\ Goto(c, "write")
  /\ UNCHANGED <<key, file, outside, ghosts>>

ProposeWrite(c) ==
  /\ c \in Proposer
  /\ pc[c] = "write"
  /\ file' = held[c]
  /\ Ends(c)
  /\ UNCHANGED <<key, outside, ghosts, history>>

-----------------------------------------------------------------------------
(***************************************************************************)
(* runSign and aggregateAuthorizationSignature.                            *)
(***************************************************************************)
IndexesOf(signers) == {IndexOf[s] : s \in ToSet(signers)}

\* Mutant of MaySign: a participant may sign what has its signature already.
MaySignLater(c, proposal) == IndexOf[c] \notin IndexesOf(proposal.signers)

MaySign(c, proposal) ==
  /\ proposal.status # "aggregated"
  /\ IndexOf[c] \notin IndexesOf(proposal.signers)
  /\ Len(proposal.signers) < Threshold

SignRead(c) ==
  /\ c \in Signer
  /\ file # NoFile
  /\ Starts(c)
  /\ IF MaySign(c, file)
     THEN Goto(c, "write") /\ held' = [held EXCEPT ![c] = file]
     ELSE Ends(c)
  /\ UNCHANGED <<key, file, outside, ghosts>>

\* The sum of the shares these signers make of a proposal of v, with this key,
\* and what it has to be.
AggregateNonce(signers) == Total(LAMBDA s : Nonce[s], ToSet(signers))
AggregateZ(signers, v, k) ==
  LET challenge == Challenge(AggregateNonce(signers), v)
      indexes == IndexesOf(signers)
  IN Total(LAMBDA s : mod(Nonce[s] + challenge * lagrangeCoefficientAtZero(IndexOf[s], indexes)
                                     * shareValue(k, IndexOf[s])),
           ToSet(signers))

WholeZ(signers, v, k) ==
  LET nonces == AggregateNonce(signers)
  IN mod(nonces + Challenge(nonces, v) * normalizeSparkPublicKey(k[1]))
Verifies(proposal, k) == proposal.z = WholeZ(proposal.signers, proposal.by, k)

\* The proposal a signer holds, with its share.
WithShare(c) == [held[c] EXCEPT !.signers = Append(@, c)]
\* Mutant of Aggregated: the proposal is left as it was, but for the signature.
AggregatedSilently(proposal) ==
  [proposal EXCEPT !.z = AggregateZ(proposal.signers, proposal.by, key)]

\* The share files are those of the day.
Aggregated(proposal) ==
  [proposal EXCEPT !.status = "aggregated", !.z = AggregateZ(proposal.signers, proposal.by, key)]

\* When the aggregate does not verify the command throws, and writes nothing.
SignWrite(c) ==
  /\ c \in Signer
  /\ pc[c] = "write"
  /\ LET proposal == WithShare(c)
         aggregated == Aggregated(proposal)
     IN IF Len(proposal.signers) < Threshold
        THEN /\ file' = proposal
             /\ signed' = signed \cup {<<proposal.by, IndexOf[c]>>}
             /\ UNCHANGED used
        ELSE IF Verifies(aggregated, key)
        THEN /\ file' = aggregated
             /\ signed' = signed \cup {<<proposal.by, IndexOf[c]>>}
             /\ used' = used \cup {<<s, proposal.by, ToSet(proposal.signers)>> :
                                      s \in ToSet(proposal.signers)}
        ELSE UNCHANGED <<file, signed, used>>
  /\ Ends(c)
  /\ UNCHANGED <<key, outside, unrecorded, history>>

-----------------------------------------------------------------------------
(***************************************************************************)
(* runExecute: claim the deposit, record it, pay, record it.               *)
(***************************************************************************)
\* Mutant of ExecuteRead: the status of the proposal is not looked at.
ExecuteReadEarly(c) ==
  /\ c \in Executor
  /\ file # NoFile
  /\ Starts(c)
  /\ IF file.result
     THEN Ends(c)
     ELSE /\ Goto(c, IF ~file.claim /\ Option[c] = "faucet-txid" THEN "claim" ELSE "pay")
          /\ held' = [held EXCEPT ![c] = file]
  /\ UNCHANGED <<key, file, outside, ghosts>>

ExecuteRead(c) ==
  /\ c \in Executor
  /\ file # NoFile
  /\ Starts(c)
  /\ LET claims == ~file.claim /\ Option[c] = "faucet-txid"
         stops == file.status # "aggregated" \/ (~file.claim /\ Option[c] = "none")
     IN IF stops \/ (~claims /\ file.result)
        THEN Ends(c)
        ELSE /\ Goto(c, IF claims THEN "claim" ELSE "pay")
             /\ held' = [held EXCEPT ![c] = file]
  /\ UNCHANGED <<key, file, outside, ghosts>>

ClaimDeposit(c) ==
  /\ pc[c] = "claim"
  /\ ~deposit
  /\ deposit' = TRUE
  /\ Goto(c, "recordClaim")
  /\ UNCHANGED <<key, file, held, payments, ghosts, history>>

RecordClaim(c) ==
  /\ pc[c] = "recordClaim"
  /\ file' = [held[c] EXCEPT !.claim = TRUE]
  /\ IF held[c].result
     THEN Ends(c)
     ELSE Goto(c, "pay") /\ held' = [held EXCEPT ![c].claim = TRUE]
  /\ UNCHANGED <<key, outside, ghosts, history>>

\* The balance suffices, at once or within the time waitForAvailableBalance has,
\* and the operators accept the payment.  The call has yet to return.
Pay(c) ==
  /\ pc[c] = "pay"
  /\ payments' = [payments EXCEPT ![held[c].by] = @ + 1]
  /\ Goto(c, "recordResult")
  /\ UNCHANGED <<key, file, held, deposit, ghosts, history>>

\* Mutant of RecordResult: what was read is written back without the result.
RecordNothing(c) ==
  /\ pc[c] = "recordResult"
  /\ file' = held[c]
  /\ Ends(c)
  /\ UNCHANGED <<key, outside, ghosts, history>>

RecordResult(c) ==
  /\ pc[c] = "recordResult"
  /\ file' = [held[c] EXCEPT !.result = TRUE]
  /\ Ends(c)
  /\ UNCHANGED <<key, outside, ghosts, history>>

\* What c paid, if it did, is nowhere in the file.
Forgets(c) ==
  unrecorded' = IF pc[c] = "recordResult" THEN [unrecorded EXCEPT ![held[c].by] = @ + 1]
                ELSE unrecorded

\* A claim, the wait for the balance or a payment throws: the operators may
\* have accepted the claim or the payment all the same.
ExecuteThrows(c) ==
  /\ pc[c] \in {"claim", "recordClaim", "pay", "recordResult"}
  /\ Ends(c)
  /\ Forgets(c)
  /\ UNCHANGED <<key, file, outside, signed, used, history>>

\* A command is killed, perhaps before it records what it did.
Killed(c) ==
  /\ c \in Running
  /\ Ends(c)
  /\ Forgets(c)
  /\ UNCHANGED <<key, file, outside, signed, used, history>>

Next ==
  \/ runKeygen
  \/ \E c \in Command :
       \/ ProposeStart(c) \/ ProposeWrite(c) \/ SignRead(c) \/ SignWrite(c)
       \/ ExecuteRead(c) \/ ClaimDeposit(c) \/ RecordClaim(c) \/ Pay(c) \/ RecordResult(c)
       \/ ExecuteThrows(c) \/ Killed(c)

Spec == Init /\ [][Next]_vars

-----------------------------------------------------------------------------
(***************************************************************************)
(* The algebra behind it: any Threshold shares, of different participants, *)
(* add up to what the whole secret would make.                             *)
(***************************************************************************)
SharesAddUp ==
  \A k \in Key, v \in Proposer, signers \in [1..Threshold -> Signer] :
    (\A i, j \in 1..Threshold : IndexOf[signers[i]] = IndexOf[signers[j]] => i = j)
      => AggregateZ(signers, v, k) = WholeZ(signers, v, k)

(***************************************************************************)
(* The shares of any Threshold participants make a signature that verifies *)
(* with the key the proposal names, whichever they are and in whatever     *)
(* order commands ran: the last signer is never turned away, and a file    *)
(* with as many signers as it needs is one with a valid signature.         *)
(* Premise: keygen was not run again since (runSign compares a share with  *)
(* the group file of the day, not with the key in the proposal).           *)
(***************************************************************************)
AggregateIsValid ==
  "rekeyed" \notin history =>
    /\ file.status = "aggregated" <=> Cardinality(IndexesOf(file.signers)) >= Threshold
    /\ file.status = "aggregated" => Verifies(file, file.key)
    /\ \A c \in Signer :
         pc[c] = "write" /\ Len(held[c].signers) + 1 = Threshold
           => Verifies(Aggregated(WithShare(c)), held[c].key)

(***************************************************************************)
(* A payment has Threshold participants who signed this very proposal,     *)
(* however the file was replaced and restored in between.                  *)
(***************************************************************************)
PaymentIsAuthorized ==
  \A v \in Proposer : payments[v] > 0 =>
    Cardinality({x \in signed : x[1] = v}) >= Threshold

(***************************************************************************)
(* A proposal is paid again only after a command that paid it ended before *)
(* it could record the payment, and once for each that did: a recorded     *)
(* payment stays in the file, whatever is signed, claimed, killed, thrown  *)
(* or proposed in between.  Premise: no two commands ran at a time (a sign *)
(* that read before the payment and writes after it makes the file forget  *)
(* the payment).                                                           *)
(***************************************************************************)
PaidAgainOnlyUnrecorded ==
  "overlap" \notin history => \A v \in Proposer : payments[v] <= 1 + unrecorded[v]

(***************************************************************************)
(* The nonce of a signer is in one signature, over one set of signers.     *)
(* The file has the nonce in clear (nonceSecretHex) from the moment its    *)
(* participant signs, beside the share made of it too, and nothing ever    *)
(* removes it: only the order of the commands keeps it from being used for *)
(* a second signature.  Premise: no two commands ran at a time.            *)
(***************************************************************************)
NonceSignsOnce ==
  "overlap" \notin history => \A x, y \in used : x[1] = y[1] => x = y

(***************************************************************************)
(* What a signer of Spark leaves makes of the shares the signers of a      *)
(* proposal selected is what the whole secret would make: for a leaf of    *)
(* any tweak, and both parities of the key.                                *)
(***************************************************************************)
Sample == {1, P - 1}
LeafShareIsOfTheWhole ==
  file.status = "aggregated" =>
    \A nonce \in Sample, challenge \in Sample, tweak \in Sample :
      signFrost(key, IndexesOf(file.signers), tweak, nonce, challenge)
        = FrostShare(normalizeSparkPublicKey(key[1]) + tweak, nonce, challenge)
=============================================================================
