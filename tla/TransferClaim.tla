---------------------------- MODULE TransferClaim ----------------------------
(***************************************************************************)
(* How a wallet claims one transfer: TransferService.claimTransfer, one    *)
(* call of the operators under withRetry, and then the registration of its *)
(* leaves.  The answer of a call that succeeded may be lost; the attempt   *)
(* that follows is then told that the claim exists already.  One claim is  *)
(* under way at a time (claimTransferMutex).                               *)
(***************************************************************************)
EXTENDS Integers, FiniteSets

CONSTANTS
  Transfer,      \* transfers to this wallet
  MaxAttempts,   \* maxAttempts of DEFAULT_RETRY_CONFIG
  Env            \* what else may happen, see ClaimMoves

ClaimMoves == {"claimFails",    \* a call fails before the operators have it
               "loseAnswer",    \* it fails after that
               "lookupFails",   \* the query about an existing claim fails
               "renewThrows"}   \* the registration fails

ASSUME TransferClaimAssumption == MaxAttempts \in Nat \ {0}

VARIABLES
  status,      \* of each transfer at the operators
  cleaned,     \* has cleanup() run?
  tries,       \* failed attempts of the claim under way, and
  faults,      \* those that failed for a reason in Env
  owed         \* transfers that calls of this wallet have claimed, whose leaves
               \* are not registered, nor lost for a reason no retry helps against

outcome == <<tries, faults, owed>>
claimVars == <<status, outcome>>

ClaimInit ==
  /\ status = [x \in Transfer |-> "absent"]
  /\ cleaned = FALSE
  /\ tries = 0 /\ faults = 0
  /\ owed = {}

-----------------------------------------------------------------------------
\* Mutant of onError: an error is an error.
onErrorRethrows(x) == FALSE

\* ALREADY_EXISTS is no error when a query finds the transfer completed.
onError(x) == status[x] = "completed"

\* claimTransferCore returns, or onError finds that it need not.
Claimed(x) ==
  /\ ~cleaned
  /\ status[x] = "claimable" \/ onError(x)
  /\ status' = [status EXCEPT ![x] = "completed"]

ClaimReturns(x) ==
  /\ Claimed(x)
  /\ owed' = owed \ {x}
  /\ tries' = 0 /\ faults' = 0

\* One attempt fails: by a fault, before or after the operators have the call,
\* or because the claim exists and onError does not help.
AttemptFailed(x, fault) ==
  \/ fault = 1 /\ "claimFails" \in Env /\ UNCHANGED status
  \/ /\ fault = 1 /\ "loseAnswer" \in Env
     /\ status[x] = "claimable"
     /\ status' = [status EXCEPT ![x] = "completed"]
  \/ fault = 0 /\ status[x] = "completed" /\ ~onError(x) /\ UNCHANGED status

Owing(x) == IF status'[x] = status[x] THEN owed ELSE owed \cup {x}

\* withRetry tries again after a delay.
ClaimRetries(x) ==
  /\ ~cleaned
  /\ tries + 1 < MaxAttempts
  /\ tries' = tries + 1
  /\ \E fault \in 0..1 : AttemptFailed(x, fault) /\ faults' = faults + fault
  /\ owed' = Owing(x)

\* No attempt is left.
ClaimExhausted(x) ==
  /\ ~cleaned
  /\ tries + 1 = MaxAttempts
  /\ \E fault \in 0..1 :
       /\ AttemptFailed(x, fault)
       /\ owed' = IF faults + fault = MaxAttempts THEN Owing(x) \ {x} ELSE Owing(x)
  /\ tries' = 0 /\ faults' = 0

\* assertClaimNotDestroyed, the query in onError, or registerClaimedLeaves throws.
ClaimThrows(x) ==
  /\ \/ cleaned /\ UNCHANGED status
     \/ "lookupFails" \in Env /\ ~cleaned /\ status[x] = "completed" /\ UNCHANGED status
     \/ "renewThrows" \in Env /\ Claimed(x)
  /\ owed' = owed \ {x}
  /\ tries' = 0 /\ faults' = 0

ClaimGivesUp(x) == ClaimExhausted(x) \/ ClaimThrows(x)

-----------------------------------------------------------------------------
(***************************************************************************)
(* A transfer this wallet has claimed gives it its leaves although answers *)
(* are lost: a retry finds what an earlier attempt did.  Its claim is      *)
(* under way, or its leaves are registered, or it was given up because     *)
(* every attempt met a fault of its own, cleanup() ran, the query about it *)
(* failed or the renewal of its leaves did.  (A completed transfer is not  *)
(* listed any more, so the leaves then wait for a sync.)                   *)
(***************************************************************************)
ClaimIsKept(underWay) == owed \subseteq underWay
=============================================================================
