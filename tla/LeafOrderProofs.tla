---------------------------- MODULE LeafOrderProofs ----------------------------
(***************************************************************************)
(* No double selection, and no leaf marked as in flight that the operators *)
(* did not take, for every value of the constants that leaves the cache to *)
(* the operations that hold leaves (Undisturbed).                          *)
(***************************************************************************)
EXTENDS LeafManagerProofs

USE DEF soState, SoBecomes

(***************************************************************************)
(* No double selection.  What the mutex and the locks give by themselves:  *)
(* nothing rewrites the cache from answers older than the locks (no sync,  *)
(* no refresh), nothing is sent from elsewhere or comes back, no call      *)
(* fails that may have been applied, an executor sends its leaves away, or *)
(* throws, and what comes in is claimed once.                              *)
(***************************************************************************)
Undisturbed ==
  /\ Syncer = {} /\ Refresher = {} /\ External = {}
  /\ "return" \notin Env /\ "loseReply" \notin Env
  /\ \A p \in Sender : Executor[p] \in {"transfer", "invoice"}
  /\ \A k \in Claimer : ClaimOf[k] \in Incoming
  /\ \A k, j \in Claimer : k # j => ClaimOf[k] # ClaimOf[j]
  /\ \A k, j \in Depositor : k # j => DepositOf[k] # DepositOf[j]

\* The operators have not answered the call, or its answer is on its way.
Open(x) == xfer[x].call \in {"sent", "accepted"}

\* A call about the leaf is on its way; a transfer of this wallet took the leaf.
Called(l) == \E x \in Call : xfer[x].call = "sent" /\ l \in xfer[x].leaves
Taken(l) == \E x \in Call : xfer[x].st # "none" /\ l \in xfer[x].leaves

\* The operators will take the leaf from whoever calls about it next.
Free(l) == so[l] = "avail" /\ ~Called(l) /\ cache[l].source.kind # "swap"

\* The leaves p holds and has made no call about.
Untouched(p) ==
  IF p \in Optimizer
  THEN UNION {batches[p][i] : i \in {j \in DOMAIN batches[p] : j > step[p] \/ (j = step[p] /\ At(p, "swap"))}}
  ELSE IF pc[p] \in {"renew", "swap", "stranded"} THEN Holds(p) ELSE {}

\* The leaves that q will put in the cache as AVAILABLE.
Coming(q) ==
  IF q \in Callers
  THEN IF pc[q] \in {"ssp", "landed"} THEN xfer[LastCall(q)].new ELSE {}
  ELSE IF q \in Claimer
  THEN IF pc[q] \in {"idle", "claiming", "register"} THEN InLeaves[ClaimOf[q]] ELSE {}
  ELSE IF q \in Depositor
  THEN IF pc[q] \in {"idle", "creating", "verify", "verified"} THEN InLeaves[DepositOf[q]] ELSE {}
  ELSE {}

(***************************************************************************)
(* The calls.  They are made in order, and every one of them is accepted.  *)
(***************************************************************************)
Quiet ==
  /\ \A p \in Callers : pc[p] \notin {"quote", "register", "resync", "fetch", "fetched"}
  /\ \A p \in Optimizer : pc[p] \in {"idle", "plan"} => step[p] = 0
CallsSound ==
  \A x \in Call :
    /\ xfer[x].kind \in {"none", "send", "swap"}
    /\ xfer[x].kind = "none" => xfer[x] = NoTransfer
    /\ xfer[x].kind # "none" => (xfer[x].call = "sent" <=> xfer[x].st = "none")
    /\ xfer[x].call # "refused" /\ xfer[x].st # "returned"
    /\ xfer[x].st \in {"none", "initiated"} => xfer[x].new = {}
    /\ Open(x) => /\ pc[x[1]] = IF xfer[x].kind = "swap" THEN "swapping" ELSE "exec"
                  /\ xfer[x].leaves \subseteq Holds(x[1])
CallsApart ==
  \A x, y \in Call :
    x # y /\ xfer[x].call = "sent" /\ xfer[y].call = "sent" => xfer[x].leaves \cap xfer[y].leaves = {}
SwapsCalled ==
  \A p \in Callers :
    /\ pc[p] \in {"swapping", "ssp", "landed"} => Made(p) # {}
    /\ pc[p] = "swapping" =>
         /\ xfer[LastCall(p)].leaves = SwapLeaves(p) /\ xfer[LastCall(p)].new = {}
         /\ \A x \in Call : x[1] = p /\ Open(x) => x = LastCall(p)
    /\ p \in Optimizer /\ pc[p] \in {"swapping", "ssp", "landed"} => step[p] \in DOMAIN batches[p]
Carried ==
  /\ \A x \in Incoming : /\ xfer[x].kind = "incoming" /\ xfer[x].leaves = InLeaves[x]
                         /\ xfer[x].st \in {"tweaked", "completed"} /\ xfer[x].call = "none"
  /\ \A x \in Deposits : /\ xfer[x].kind = "deposit" /\ xfer[x].leaves = InLeaves[x]
                         /\ xfer[x].st \in {"initiated", "tweaked"} /\ xfer[x].call = "none"
\* What is claimed next has not been claimed before.
Unclaimed ==
  /\ \A p \in Callers : pc[p] \in {"swapping", "ssp"} =>
       xfer[LastCall(p)].kind = "swap" /\ xfer[LastCall(p)].st # "completed"
  /\ \A p \in Claimer : pc[p] \in {"idle", "claiming"} => xfer[ClaimOf[p]].st # "completed"
CallInv == Quiet /\ Numbered /\ CallsSound /\ CallsApart /\ SwapsCalled /\ Carried

(***************************************************************************)
(* The leaves.  Whoever may select a leaf may have it taken; what is held  *)
(* is held once, and is locked until its call is over.                     *)
(***************************************************************************)
Pool == \A l \in Leaf : cache[l].status = "AVAILABLE" => Free(l) /\ \A p \in Callers : l \notin Holds(p)
BatchesApart ==
  \A p \in Callers : \A i, j \in DOMAIN batches[p] : i # j => batches[p][i] \cap batches[p][j] = {}
UntouchedFree == \A p \in Callers : \A l \in Untouched(p) : cache[l].status = "LOCAL_LOCKED" /\ Free(l)
Leaving(p, l) ==
  \/ At(p, "swapping") /\ l \in SwapLeaves(p)
  \/ /\ At(p, "exec") /\ cache[l].source.kind # "swap"
     /\ \E x \in Call : x[1] = p /\ Open(x) /\ l \in xfer[x].leaves
LockedMeans ==
  \A p \in Callers : \A l \in Holds(p) :
    cache[l].status = "LOCAL_LOCKED" => l \in Untouched(p) \/ Leaving(p, l)
Answered == \A l \in Leaf : /\ Called(l) => so[l] = "avail"
                            /\ Taken(l) => so[l] \in {"held", "gone"}
Unlisted(l) == cache[l].status \in {"NONE", "INCOMING"} /\ cache[l].source.kind # "swap"
Unborn ==
  \A l \in Leaf : /\ so[l] \in {"absent", "creating", "incoming"} => \A p \in Callers : l \notin Holds(p)
                  /\ so[l] = "absent" => Unlisted(l)
InFlight == \A l \in Leaf : cache[l].status \in {"OUTGOING", "SWAP_PENDING"} => Taken(l)
LeafInv ==
  /\ Pool /\ NoDoubleSelection /\ BatchesApart /\ UntouchedFree /\ LockedMeans
  /\ Answered /\ Unborn /\ InFlight

(***************************************************************************)
(* What comes in is new: nobody holds it, or has called about it.          *)
(***************************************************************************)
Arrivals ==
  \A q \in Op : \A l \in Coming(q) :
    /\ Unlisted(l)
    /\ \A p \in Callers : l \notin Holds(p)
    /\ ~Taken(l)
    /\ so[l] \in (IF q \in Depositor THEN {"creating", "avail"} ELSE {"incoming", "avail"})
    /\ pc[q] \in {"landed", "register", "verified"} => so[l] = "avail"
ArriveApart == \A q, r \in Op : q # r => Coming(q) \cap Coming(r) = {}
Confirmed ==
  \A x \in Deposits, l \in Leaf :
    l \in InLeaves[x] => (xfer[x].st = "initiated" <=> so[l] = "creating")
ArriveInv == Arrivals /\ ArriveApart /\ Confirmed
OInv == CallInv /\ LeafInv /\ ArriveInv
-----------------------------------------------------------------------------
\* Calls have transfer identifiers that no incoming transfer or deposit has.
LEMMA CallsAreTransfers ==
  /\ Call \subseteq Xfer
  /\ Call \cap (Incoming \cup Deposits) = {}
  /\ Incoming \subseteq Xfer /\ Deposits \subseteq Xfer
  /\ Undisturbed => Xfer = Call \cup Incoming \cup Deposits
  /\ \A x \in Call : x[1] \in Callers /\ x[2] \in 1..MaxCalls /\ x = <<x[1], x[2]>>
<1>1. /\ Xfer = Call \cup Incoming \cup Deposits \cup External
      /\ \A x \in Incoming \cup Deposits : x \notin Call
  BY LeafManagerAssumption DEF Call
<1>2. \A x \in Call : x[1] \in Callers /\ x[2] \in 1..MaxCalls /\ x = <<x[1], x[2]>> BY DEF Call
<1> QED BY <1>1, <1>2 DEF Undisturbed

\* What new calls are: the next numbers, one call for each batch.
LEMMA CallsAre ==
  ASSUME TypeOK, CallInv, NEW p \in Callers, NEW kind \in {"send", "swap"},
         NEW bs \in Seq(SUBSET Leaf), Calls(p, kind, bs)
  PROVE  \E n \in Nat :
           /\ n = Cardinality(Made(p))
           /\ \A i \in DOMAIN bs : /\ <<p, n + i>> \in Call
                                   /\ xfer[<<p, n + i>>] = NoTransfer
                                   /\ xfer'[<<p, n + i>>] = NewTransfer(kind, bs[i], "none", "sent")
           /\ \A x \in Xfer : (\A i \in DOMAIN bs : x # <<p, n + i>>) => xfer'[x] = xfer[x]
           /\ Made(p)' = 1..(n + Len(bs)) /\ n + Len(bs) \in 0..MaxCalls
           /\ LastCall(p)' = <<p, n + Len(bs)>>
           /\ \A q \in Callers \ {p} : Made(q)' = Made(q) /\ LastCall(q)' = LastCall(q)
<1>1. Numbered BY DEF CallInv
<1>2. PICK n \in Nat : NewCalls(n, p, kind, bs) BY <1>1, CallsNumbered
<1>3. \A x \in Call : xfer[x].kind = "none" => xfer[x] = NoTransfer BY DEF CallInv, CallsSound
<1> QED BY <1>2, <1>3 DEF NewCalls
-----------------------------------------------------------------------------
\* Nobody but p moves, but for those a notification wakes.
Alone(p) ==
  /\ \A q \in Callers \ {p} : batches'[q] = batches[q]
  /\ \A q \in Optimizer \ {p} : step'[q] = step[q]
  /\ \A q \in Op \ {p} : pc'[q] = pc[q] \/ (pc[q] = "waiting" /\ pc'[q] = "woken")

\* The others keep what they hold.
LEMMA OthersKeep ==
  ASSUME NEW p, Alone(p), NEW q \in Callers, q # p
  PROVE  /\ Holds(q)' = Holds(q)
         /\ Untouched(q)' = Untouched(q)
         /\ SwapLeaves(q)' = SwapLeaves(q)
         /\ \A here \in {"swapping", "exec", "ssp", "landed"} : pc'[q] = here <=> pc[q] = here
<1>1. /\ batches'[q] = batches[q]
      /\ q \in Optimizer => step'[q] = step[q]
      /\ pc'[q] = pc[q] \/ (pc[q] = "waiting" /\ pc'[q] = "woken")
  BY DEF Alone, Op
<1>2. Holds(q)' = Holds(q) BY <1>1 DEF Holds
<1>3. At(q, "swap")' <=> At(q, "swap") BY <1>1 DEF At
<1>4. Untouched(q)' = Untouched(q) BY <1>1, <1>2, <1>3 DEF Untouched
<1>5. SwapLeaves(q)' = SwapLeaves(q) BY <1>1, <1>2 DEF SwapLeaves
<1> QED BY <1>1, <1>2, <1>4, <1>5

\* What comes in for them stays the same.
LEMMA OthersAwait ==
  ASSUME NEW p, Alone(p), NEW q \in Op, q # p,
         q \in Callers /\ pc[q] \in {"ssp", "landed"}
           => LastCall(q)' = LastCall(q) /\ xfer'[LastCall(q)].new = xfer[LastCall(q)].new
  PROVE  Coming(q)' = Coming(q)
<1>1. pc'[q] = pc[q] \/ (pc[q] = "waiting" /\ pc'[q] = "woken") BY DEF Alone
<1>2. CASE q \in Callers /\ pc[q] \in {"ssp", "landed"}
  <2>1. pc'[q] \in {"ssp", "landed"} BY <1>1, <1>2
  <2>2. Coming(q) = xfer[LastCall(q)].new BY <1>2 DEF Coming
  <2>3. Coming(q)' = xfer'[LastCall(q)'].new BY <1>2, <2>1 DEF Coming
  <2> QED BY <1>2, <2>2, <2>3
<1>3. CASE q \in Callers /\ pc[q] \notin {"ssp", "landed"}
  <2>1. pc'[q] \notin {"ssp", "landed"} BY <1>1, <1>3
  <2> QED BY <1>3, <2>1 DEF Coming
<1>4. CASE q \notin Callers
  BY <1>1, <1>4 DEF Coming
<1> QED BY <1>2, <1>3, <1>4

\* A move leaves the others alone.
LEMMA MovesAlone ==
  ASSUME TypeOK, NEW p \in Op, NEW there, Goto(p, there) \/ NotifyAndGoto(p, there),
         p \in Callers => UNCHANGED batches \/ \E bs : batches' = [batches EXCEPT ![p] = bs],
         p \in Optimizer => UNCHANGED step \/ \E k : step' = [step EXCEPT ![p] = k],
         p \notin Callers => UNCHANGED batches,
         p \notin Optimizer => UNCHANGED step
  PROVE  Alone(p) /\ pc'[p] = there
<1>1. pc'[p] = there /\ \A q \in Op \ {p} : pc'[q] = pc[q] \/ (pc[q] = "waiting" /\ pc'[q] = "woken")
  BY DEF TypeOK, Goto, NotifyAndGoto
<1>2. \A q \in Callers \ {p} : batches'[q] = batches[q]
  BY DEF TypeOK
<1>3. \A q \in Optimizer \ {p} : step'[q] = step[q]
  BY DEF TypeOK
<1> QED BY <1>1, <1>2, <1>3 DEF Alone

\* A step without calls: the calls stay sound when p has none open.
LEMMA CallsStay ==
  ASSUME TInv, Undisturbed, CallInv, NEW p \in Op, Alone(p), UNCHANGED xfer,
         \A x \in Call : x[1] = p => ~Open(x),
         p \in Callers => pc'[p] \notin {"quote", "register", "resync", "fetch", "fetched",
                                         "swapping", "ssp", "landed"},
         p \in Optimizer /\ pc'[p] \in {"idle", "plan"} => step'[p] = 0
  PROVE  CallInv'
<1>0. \A q \in Callers : q \in Op BY DEF Op
<1>1. Quiet'
  BY <1>0 DEF CallInv, Quiet, Alone, Callers
<1>2. /\ \A q \in Callers : Made(q)' = Made(q) /\ LastCall(q)' = LastCall(q)
      /\ Numbered'
  BY NumbersKept DEF CallInv
<1>3. CallsSound'
  <2> SUFFICES ASSUME NEW x \in Call, Open(x)
               PROVE  /\ pc'[x[1]] = IF xfer[x].kind = "swap" THEN "swapping" ELSE "exec"
                      /\ xfer[x].leaves \subseteq Holds(x[1])'
    BY DEF CallInv, CallsSound, Open
  <2>1. x[1] \in Callers /\ x[1] # p BY CallsAreTransfers
  <2>2. /\ pc[x[1]] = IF xfer[x].kind = "swap" THEN "swapping" ELSE "exec"
        /\ xfer[x].leaves \subseteq Holds(x[1])
    BY DEF CallInv, CallsSound
  <2> QED BY <1>0, <2>1, <2>2, OthersKeep DEF Alone
<1>4. CallsApart' BY DEF CallInv, CallsApart
<1>5. SwapsCalled'
  <2> SUFFICES ASSUME NEW q \in Callers
               PROVE  /\ pc'[q] \in {"swapping", "ssp", "landed"} => Made(q)' # {}
                      /\ pc'[q] = "swapping" => /\ xfer'[LastCall(q)'].leaves = SwapLeaves(q)'
                                               /\ xfer'[LastCall(q)'].new = {}
                                               /\ \A x \in Call : x[1] = q /\ Open(x) => x = LastCall(q)'
                      /\ q \in Optimizer /\ pc'[q] \in {"swapping", "ssp", "landed"}
                           => step'[q] \in DOMAIN batches'[q]
    BY DEF SwapsCalled, Open
  <2>1. CASE q = p
    BY <2>1
  <2>2. CASE q # p
    BY <1>0, <1>2, <2>2, OthersKeep DEF CallInv, SwapsCalled, Alone
  <2> QED BY <2>1, <2>2
<1>6. Carried' BY DEF CallInv, Carried
<1> QED BY <1>1, <1>2, <1>3, <1>4, <1>5, <1>6 DEF CallInv

\* An operation has open calls at two awaits only.
LEMMA OpenAt ==
  ASSUME CallInv, NEW p \in Op, pc[p] \notin {"swapping", "exec"}
  PROVE  \A x \in Call : x[1] = p => ~Open(x)
BY DEF CallInv, CallsSound

\* What comes in are leaves.
LEMMA ComingType ==
  ASSUME TInv, Undisturbed, CallInv, NEW q \in Op
  PROVE  Coming(q) \in SUBSET Leaf
<1>1. CASE q \in Callers /\ pc[q] \in {"ssp", "landed"}
  <2>1. Coming(q) = xfer[LastCall(q)].new BY <1>1 DEF Coming
  <2>2. LastCall(q) \in Xfer BY <1>1, LastCallIs, CallsAreTransfers DEF CallInv, SwapsCalled
  <2> QED BY <2>1, <2>2 DEF TInv, TypeOK, Transfer
<1>2. CASE q \in Claimer /\ q \notin Callers
  <2>1. InLeaves[ClaimOf[q]] \in SUBSET Leaf BY <1>2, LeafManagerAssumption DEF Undisturbed
  <2> QED BY <1>2, <2>1 DEF Coming
<1>3. CASE q \in Depositor /\ q \notin Callers
  <2>1. InLeaves[DepositOf[q]] \in SUBSET Leaf BY <1>3, LeafManagerAssumption
  <2>2. q \notin Claimer
    <3>1. DOMAIN <<Sender, Sweeper, Optimizer, Syncer, Refresher, Claimer, Depositor>> = 1..7 OBVIOUS
    <3> QED BY <1>3, <3>1, LeafManagerAssumption DEF Disjoint
  <2> QED BY <1>3, <2>1, <2>2 DEF Coming
<1> QED BY <1>1, <1>2, <1>3 DEF Coming
-----------------------------------------------------------------------------
(***************************************************************************)
(* One operation p updates the cache: it locks the leaves got, makes free  *)
(* those of freed, and calls about those of out.                           *)
(***************************************************************************)
Lawful(p, got, freed, out, l) ==
  \/ l \notin got \cup freed \cup out /\ cache'[l] = cache[l]
  \/ l \in got /\ cache'[l].status = "LOCAL_LOCKED" /\ cache'[l].source.kind # "swap"
  \/ l \in freed /\ cache'[l].status = "AVAILABLE" /\ cache'[l].source.kind # "swap"
  \/ l \in out /\ cache'[l].status = "LOCAL_LOCKED"
  \/ l \notin got \cup freed \cup out /\ Taken(l) /\ cache'[l].status \in {"NONE", "OUTGOING", "SWAP_PENDING"}
  \/ l \notin got \cup freed \cup out /\ l \in Coming(p) /\ Unlisted(l)'

Updates(p, got, freed, out) ==
  /\ Alone(p)
  /\ UNCHANGED so
  /\ \A x \in Call : x[1] # p => xfer'[x] = xfer[x] \/ (xfer'[x].call = xfer[x].call /\ xfer'[x].leaves = xfer[x].leaves)
  /\ \A l \in Leaf : /\ Called(l)' => Called(l) \/ l \in out
                     /\ Taken(l)' <=> Taken(l)
                     /\ Lawful(p, got, freed, out, l)
  /\ got \cap freed = {} /\ out \cap (got \cup freed) = {}
  /\ p \in Callers =>
       /\ out \subseteq Untouched(p) /\ out \cap Untouched(p)' = {}
       /\ Holds(p)' \subseteq (Holds(p) \cup got) \ freed
       /\ Untouched(p)' \subseteq Untouched(p) \cup got
       /\ \A i, j \in DOMAIN batches'[p] : i # j => batches'[p][i] \cap batches'[p][j] = {}
       /\ \A l \in Holds(p)' : cache'[l].status = "LOCAL_LOCKED" => l \in Untouched(p)' \/ Leaving(p, l)'
  /\ p \notin Callers => got = {} /\ out = {}
  \* What becomes available, or is locked, may be taken and was nobody else's.
  /\ \A l \in got \cup freed : /\ so[l] = "avail" /\ ~Called(l) /\ l \notin Coming(p)'
                               /\ \A q \in Callers \ {p} : l \notin Holds(q)
                               /\ \A q \in Op \ {p} : l \notin Coming(q)
  /\ Coming(p)' \subseteq Coming(p)
  /\ \A q \in Op \ {p} : Coming(q)' = Coming(q)
  /\ pc'[p] \in {"landed", "register", "verified"} => \A l \in Coming(p)' : so[l] = "avail"

\* A leaf p holds is held by nobody else and is no leaf of an update of another.
LEMMA UpdateKeeps ==
  ASSUME TInv, Undisturbed, CallInv, LeafInv, Arrivals, ArriveApart, NEW p \in Op,
         NEW got \in SUBSET Leaf, NEW freed \in SUBSET Leaf, NEW out \in SUBSET Leaf,
         Updates(p, got, freed, out)
  PROVE  LeafInv' /\ Arrivals' /\ ArriveApart'
<1>a. \A q \in Callers : q \in Op BY DEF Op
<1>b. /\ \A q \in Callers \ {p} : /\ Holds(q)' = Holds(q) /\ Untouched(q)' = Untouched(q)
                                  /\ SwapLeaves(q)' = SwapLeaves(q)
      /\ \A q \in Callers \ {p} : \A here \in {"swapping", "exec"} : pc'[q] = here <=> pc[q] = here
  BY OthersKeep DEF Updates
<1>c. \A q \in Callers : Holds(q) \subseteq Leaf /\ Untouched(q) \subseteq Holds(q)
  BY HoldsType DEF TInv, Untouched, Holds, Flat
<1>d. \A q \in Callers : \A l \in Holds(q) : l \notin got \ Holds(p) /\ (q # p => l \notin got \cup freed)
  BY DEF Updates
<1>e. \A l \in Leaf : Lawful(p, got, freed, out, l) BY DEF Updates
<1>f. \A q \in Callers \ {p} : \A l \in Holds(q) : l \notin got \cup freed \cup out
  <2>1. p \in Callers => out \subseteq Holds(p) BY <1>c DEF Updates
  <2>2. p \notin Callers => out = {} BY DEF Updates
  <2> QED BY <2>1, <2>2 DEF Updates, LeafInv, NoDoubleSelection
<1>1. Pool'
  <2> SUFFICES ASSUME NEW l \in Leaf, cache'[l].status = "AVAILABLE"
               PROVE  Free(l)' /\ \A q \in Callers : l \notin Holds(q)'
    BY DEF Pool
  <2>1. CASE l \in freed
    <3>1. Free(l)' BY <1>e, <2>1 DEF Updates, Lawful, Free
    <3> QED BY <1>b, <2>1, <3>1 DEF Updates
  <2>2. CASE l \notin freed
    <3>1. cache'[l] = cache[l] /\ l \notin got \cup out BY <1>e, <2>2 DEF Lawful, Unlisted
    <3>2. Free(l) /\ \A q \in Callers : l \notin Holds(q) BY <3>1 DEF LeafInv, Pool
    <3>3. Free(l)' BY <3>1, <3>2 DEF Updates, Free
    <3> QED BY <1>b, <3>1, <3>2, <3>3 DEF Updates
  <2> QED BY <2>1, <2>2
<1>2. NoDoubleSelection'
  <2> SUFFICES ASSUME NEW q \in Callers, NEW r \in Callers, q # r
               PROVE  Holds(q)' \cap Holds(r)' = {}
    BY DEF NoDoubleSelection
  <2>1. ASSUME NEW s \in Callers, s # p, p \in Callers PROVE Holds(s)' \cap Holds(p)' = {}
    BY <1>b, <2>1 DEF Updates, LeafInv, NoDoubleSelection
  <2>2. q # p /\ r # p => Holds(q)' \cap Holds(r)' = {} BY <1>b DEF LeafInv, NoDoubleSelection
  <2> QED BY <2>1, <2>2
<1>3. BatchesApart'
  BY <1>a DEF Updates, Alone, LeafInv, BatchesApart
<1>4. UntouchedFree'
  <2> SUFFICES ASSUME NEW q \in Callers, NEW l \in Untouched(q)'
               PROVE  cache'[l].status = "LOCAL_LOCKED" /\ Free(l)'
    BY DEF UntouchedFree
  <2>1. CASE q # p
    <3>1. l \in Untouched(q) /\ l \in Leaf /\ l \in Holds(q) BY <1>b, <1>c, <2>1
    <3>2. cache[l].status = "LOCAL_LOCKED" /\ Free(l) BY <3>1 DEF LeafInv, UntouchedFree
    <3>3. l \notin got \cup freed \cup out BY <1>f, <2>1, <3>1
    <3>4. ~Taken(l) BY <3>1, <3>2 DEF Free, LeafInv, Answered
    <3>5. l \notin Coming(p) BY <3>1, <3>2 DEF Arrivals, Unlisted
    <3>6. cache'[l] = cache[l] BY <1>e, <3>1, <3>3, <3>4, <3>5 DEF Lawful
    <3> QED BY <3>1, <3>2, <3>3, <3>6 DEF Free, Updates
  <2>2. CASE q = p /\ l \in got
    <3>1. l \in Leaf /\ l \notin freed \cup out BY <2>2 DEF Updates
    <3> QED BY <1>e, <2>2, <3>1 DEF Lawful, Updates, Free
  <2>3. CASE q = p /\ l \notin got
    <3>1. l \in Untouched(p) /\ l \in Leaf BY <1>c, <2>3 DEF Updates
    <3>2. cache[l].status = "LOCAL_LOCKED" /\ Free(l) BY <2>3, <3>1 DEF LeafInv, UntouchedFree
    <3>3. l \notin freed \cup out
      <4>1. Untouched(p)' \subseteq Holds(p)' BY DEF Untouched, Holds, Flat
      <4> QED BY <2>3, <4>1 DEF Updates
    <3>4. ~Taken(l) BY <3>1, <3>2 DEF Free, LeafInv, Answered
    <3>5. l \notin Coming(p) BY <3>1, <3>2 DEF Arrivals, Unlisted
    <3>6. cache'[l] = cache[l] BY <1>e, <2>3, <3>1, <3>3, <3>4, <3>5 DEF Lawful
    <3> QED BY <3>1, <3>2, <3>3, <3>6 DEF Free, Updates
  <2> QED BY <2>1, <2>2, <2>3
<1>5. LockedMeans'
  <2> SUFFICES ASSUME NEW q \in Callers, NEW l \in Holds(q)', cache'[l].status = "LOCAL_LOCKED"
               PROVE  l \in Untouched(q)' \/ Leaving(q, l)'
    BY DEF LockedMeans
  <2>1. CASE q = p BY <2>1 DEF Updates
  <2>2. CASE q # p
    <3>1. l \in Holds(q) /\ l \in Leaf /\ l \notin got \cup freed \cup out BY <1>b, <1>c, <1>f, <2>2
    <3>2. l \notin Coming(p) BY <3>1 DEF Arrivals
    <3>3. cache'[l] = cache[l] BY <1>e, <3>1, <3>2 DEF Lawful
    <3>4. l \in Untouched(q) \/ Leaving(q, l) BY <3>1, <3>3 DEF LeafInv, LockedMeans
    <3>5. Leaving(q, l) => Leaving(q, l)'
      <4>1. \A x \in Call : x[1] = q /\ Open(x) /\ l \in xfer[x].leaves => Open(x)' /\ l \in xfer'[x].leaves
        BY <2>2 DEF Updates, Open
      <4> QED BY <1>b, <2>2, <3>3, <4>1 DEF Leaving, At
    <3> QED BY <1>b, <2>2, <3>4, <3>5
  <2> QED BY <2>1, <2>2
<1>6. Answered'
  <2> SUFFICES ASSUME NEW l \in Leaf
               PROVE  (Called(l)' => so'[l] = "avail") /\ (Taken(l)' => so'[l] \in {"held", "gone"})
    BY DEF Answered
  <2>1. l \in out => so[l] = "avail" BY DEF Updates, LeafInv, UntouchedFree, Free
  <2> QED BY <2>1 DEF Updates, LeafInv, Answered
<1>7. Unborn'
  <2> SUFFICES ASSUME NEW l \in Leaf
               PROVE  /\ so'[l] \in {"absent", "creating", "incoming"} => \A q \in Callers : l \notin Holds(q)'
                      /\ so'[l] = "absent" => Unlisted(l)'
    BY DEF Unborn
  <2>1. so'[l] = so[l] BY DEF Updates
  <2>2. so[l] \in {"absent", "creating", "incoming"} => l \notin got \cup freed \cup out
    BY DEF Updates, LeafInv, UntouchedFree, Free
  <2>3. so[l] \in {"absent", "creating", "incoming"} => ~Taken(l) BY DEF LeafInv, Answered
  <2>4. so[l] = "absent" => l \notin Coming(p)
    BY DEF Arrivals
  <2>5. so[l] = "absent" => cache'[l] = cache[l] BY <1>e, <2>2, <2>3, <2>4 DEF Lawful
  <2>6. so[l] \in {"absent", "creating", "incoming"} => \A q \in Callers : l \notin Holds(q)'
    BY <1>b, <2>2 DEF LeafInv, Unborn, Updates
  <2> QED BY <2>1, <2>5, <2>6 DEF LeafInv, Unborn, Unlisted
<1>8. InFlight'
  <2> SUFFICES ASSUME NEW l \in Leaf, cache'[l].status \in {"OUTGOING", "SWAP_PENDING"}
               PROVE  Taken(l)
    BY DEF InFlight, Updates
  <2>1. Taken(l) \/ cache'[l] = cache[l] BY <1>e DEF Lawful, Unlisted
  <2> QED BY <2>1 DEF LeafInv, InFlight
<1>9. Arrivals'
  <2> SUFFICES ASSUME NEW q \in Op, NEW l \in Coming(q)'
               PROVE  /\ Unlisted(l)'
                      /\ \A r \in Callers : l \notin Holds(r)'
                      /\ ~Taken(l)'
                      /\ so'[l] \in (IF q \in Depositor THEN {"creating", "avail"} ELSE {"incoming", "avail"})
                      /\ pc'[q] \in {"landed", "register", "verified"} => so'[l] = "avail"
    BY DEF Arrivals
  <2>1. l \in Coming(q) BY DEF Updates
  <2>2. /\ Unlisted(l)
        /\ \A r \in Callers : l \notin Holds(r)
        /\ ~Taken(l)
        /\ so[l] \in (IF q \in Depositor THEN {"creating", "avail"} ELSE {"incoming", "avail"})
        /\ pc[q] \in {"landed", "register", "verified"} => so[l] = "avail"
    BY <2>1 DEF Arrivals
  <2>4. l \notin got \cup freed BY <2>1 DEF Updates
  <2>5. l \notin out BY <1>c, <2>2 DEF Updates
  <2>6. \A r \in Callers : l \notin Holds(r)' BY <1>b, <2>2, <2>4 DEF Updates
  <2>7. so'[l] = so[l] BY DEF Updates
  <2>8. pc'[q] \in {"landed", "register", "verified"} => so'[l] = "avail"
    BY <2>2, <2>7 DEF Updates, Alone
  <2>9. l \in Leaf BY <2>1, ComingType
  <2>10. Unlisted(l)' /\ ~Taken(l)'
    BY <1>e, <2>2, <2>4, <2>5, <2>9 DEF Lawful, Updates, Unlisted
  <2> QED BY <2>2, <2>6, <2>7, <2>8, <2>10
<1>10. ArriveApart'
  BY DEF ArriveApart, Updates
<1> QED BY <1>1, <1>2, <1>3, <1>4, <1>5, <1>6, <1>7, <1>8, <1>9, <1>10 DEF LeafInv
-----------------------------------------------------------------------------
\* An update of a step that tells the operators nothing.
LEMMA UpdateStays ==
  ASSUME TInv, Undisturbed, OInv, NEW p \in Op, CallInv', UNCHANGED xfer,
         NEW got \in SUBSET Leaf, NEW freed \in SUBSET Leaf, Updates(p, got, freed, {})
  PROVE  OInv'
<1>1. LeafInv' /\ Arrivals' /\ ArriveApart' BY UpdateKeeps DEF OInv, ArriveInv
<1>2. Confirmed' BY DEF Updates, OInv, ArriveInv, Confirmed
<1> QED BY <1>1, <1>2 DEF OInv, ArriveInv

\* What Updates asks of such a step, without what the step leaves as it is.
LEMMA QuietUpdate ==
  ASSUME TInv, OInv, NEW p \in Op, Alone(p), UNCHANGED <<so, xfer>>,
         NEW got \in SUBSET Leaf, NEW freed \in SUBSET Leaf, got \cap freed = {},
         \A l \in Leaf : Lawful(p, got, freed, {}, l),
         p \notin Callers => got = {},
         p \in Callers => /\ Holds(p)' \subseteq (Holds(p) \cup got) \ freed
                          /\ Untouched(p)' \subseteq Untouched(p) \cup got
                          /\ \A i, j \in DOMAIN batches'[p] : i # j => batches'[p][i] \cap batches'[p][j] = {}
                          /\ \A l \in Holds(p)' : cache'[l].status = "LOCAL_LOCKED" => l \in Untouched(p)' \/ Leaving(p, l)',
         \A l \in got \cup freed : /\ so[l] = "avail" /\ ~Called(l) /\ l \notin Coming(p)'
                                   /\ \A q \in Callers \ {p} : l \notin Holds(q)
                                   /\ \A q \in Op \ {p} : l \notin Coming(q),
         Coming(p)' \subseteq Coming(p),
         pc'[p] \in {"landed", "register", "verified"} => \A l \in Coming(p)' : so[l] = "avail"
  PROVE  Updates(p, got, freed, {})
<1>1. \A q \in Callers : LastCall(q)' = LastCall(q) BY NumbersKept
<1>2. \A q \in Op \ {p} : Coming(q)' = Coming(q) BY <1>1, OthersAwait
<1>3. \A l \in Leaf : (Called(l)' <=> Called(l)) /\ (Taken(l)' <=> Taken(l)) BY DEF Called, Taken
<1> QED BY <1>2, <1>3 DEF Updates

\* An operation at rest holds nothing.
LEMMA RestHoldsNothing ==
  ASSUME LockInv, NEW p \in Callers, pc[p] \in Resting
  PROVE  batches[p] = <<>> /\ Holds(p) = {} /\ Untouched(p) = {}
<1>1. batches[p] = <<>> BY DEF LockInv, RestsEmpty
<1>2. Holds(p) = {} BY <1>1, FlatBatches DEF Holds
<1>3. Untouched(p) = {} BY <1>1, <1>2 DEF Untouched
<1> QED BY <1>1, <1>2, <1>3

\* Nothing is held of an empty list.
LEMMA EmptyHoldsNothing ==
  ASSUME NEW p \in Callers, batches'[p] = <<>>
  PROVE  Holds(p)' = {} /\ Untouched(p)' = {}
<1>1. Holds(p)' = {} BY FlatBatches DEF Holds
<1>2. Untouched(p)' = {} BY <1>1 DEF Untouched
<1> QED BY <1>1, <1>2

\* A locked leaf whose holder has no call under way is untouched.
LEMMA LockedUntouched ==
  ASSUME OInv, NEW p \in Callers, ~At(p, "swapping"), \A x \in Call : x[1] = p => ~Open(x)
  PROVE  \A l \in Holds(p) : cache[l].status = "LOCAL_LOCKED" => l \in Untouched(p)
BY DEF OInv, LeafInv, LockedMeans, Leaving

\* Operations move, and nothing else changes.
LEMMA MoveKeeps ==
  ASSUME TInv, Undisturbed, OInv, NEW p \in Op, NEW there, Goto(p, there) \/ NotifyAndGoto(p, there),
         UNCHANGED <<cache, batches, so, xfer>>, pc[p] \notin {"swapping", "exec"},
         UNCHANGED step \/ \E k : step' = [step EXCEPT ![p] = k],
         p \notin Optimizer => UNCHANGED step,
         p \in Callers => there \notin {"quote", "register", "resync", "fetch", "fetched",
                                        "swapping", "ssp", "landed"},
         p \in Optimizer /\ there \in {"idle", "plan"} => step'[p] = 0,
         p \in Callers => Untouched(p)' = Untouched(p),
         Coming(p)' \subseteq Coming(p),
         there \in {"landed", "register", "verified"} => \A l \in Coming(p)' : so[l] = "avail"
  PROVE  OInv'
<1>1. Alone(p) /\ pc'[p] = there BY MovesAlone DEF TInv
<1>2. \A x \in Call : x[1] = p => ~Open(x) BY OpenAt DEF OInv
<1>3. CallInv' BY <1>1, <1>2, CallsStay DEF OInv
<1>4. p \in Callers => Holds(p)' = Holds(p) BY DEF Holds
<1>5. \A l \in Leaf : Lawful(p, {}, {}, {}, l) BY DEF Lawful
<1>6. p \in Callers => \A l \in Holds(p)' : cache'[l].status = "LOCAL_LOCKED" => l \in Untouched(p)'
  BY <1>2, <1>4, LockedUntouched DEF At
<1>7. p \in Callers => \A i, j \in DOMAIN batches'[p] : i # j => batches'[p][i] \cap batches'[p][j] = {}
  BY DEF OInv, LeafInv, BatchesApart
<1>8. Updates(p, {}, {}, {}) BY <1>1, <1>4, <1>5, <1>6, <1>7, QuietUpdate
<1> QED BY <1>3, <1>8, UpdateStays

\* An operation at rest captures available leaves.
LEMMA CaptureKeeps ==
  ASSUME TInv, LockInv, Undisturbed, OInv, NEW p \in Callers, pc[p] \in Resting, pc[p] \in {"select", "plan"},
         NEW bs \in Seq(SUBSET Leaf), Flat(bs) \subseteq Available(cache),
         \A i, j \in DOMAIN bs : i # j => bs[i] \cap bs[j] = {},
         NEW there, Capture(p, bs, there), UNCHANGED <<so, xfer, step>>,
         IF p \in Optimizer THEN there = "next" /\ pc[p] = "plan" ELSE there \in {"renew", "swap"}
  PROVE  OInv'
<1>0. p \in Op BY DEF Op
<1>1. Alone(p) /\ pc'[p] = there /\ batches'[p] = bs
  <2>1. batches' = [batches EXCEPT ![p] = bs] /\ Goto(p, there) BY DEF Capture
  <2>2. Alone(p) /\ pc'[p] = there BY <1>0, <2>1, MovesAlone DEF TInv
  <2> QED BY <2>1, <2>2 DEF TInv, TypeOK
<1>2. \A x \in Call : x[1] = p => ~Open(x) BY <1>0, OpenAt DEF OInv
<1>3. CallInv' BY <1>0, <1>1, <1>2, CallsStay DEF OInv
<1>4. Holds(p) = {} /\ Untouched(p) = {} BY RestHoldsNothing
<1>5. Holds(p)' = Flat(bs) BY <1>1 DEF Holds
<1>6. Untouched(p)' = Flat(bs)
  <2>1. CASE p \in Optimizer
    <3>1. step'[p] = 0 /\ ~At(p, "swap")' BY <1>1, <2>1 DEF OInv, CallInv, Quiet, At
    <3>2. \A j \in DOMAIN bs : j > 0 OBVIOUS
    <3>3. Untouched(p)' = UNION {bs[i] : i \in {j \in DOMAIN bs : j > 0}}
      BY <1>1, <2>1, <3>1, <3>2 DEF Untouched
    <3>4. {j \in DOMAIN bs : j > 0} = DOMAIN bs BY <3>2
    <3> QED BY <3>3, <3>4 DEF Flat
  <2>2. CASE p \notin Optimizer
    BY <1>1, <1>5, <2>2 DEF Untouched
  <2> QED BY <2>1, <2>2
<1>7. \A l \in Flat(bs) : /\ l \in Leaf /\ cache[l].status = "AVAILABLE"
                          /\ Free(l) /\ \A q \in Callers : l \notin Holds(q)
  BY DEF Available, WithStatus, OInv, LeafInv, Pool
<1>8. \A l \in Leaf : Lawful(p, Flat(bs), {}, {}, l)
  BY <1>7 DEF Capture, transition, Moved, VALID_TRANSITIONS, Lawful, Free, TInv, TypeOK
<1>9. Coming(p)' = {} BY <1>1, <1>3 DEF Coming, Resting
<1>10. \A l \in Flat(bs) : \A q \in Op : l \notin Coming(q) BY <1>7 DEF OInv, ArriveInv, Arrivals, Unlisted
<1>11. Flat(bs) \in SUBSET Leaf BY <1>7
<1>12. Updates(p, Flat(bs), {}, {})
  BY <1>0, <1>1, <1>4, <1>5, <1>6, <1>7, <1>8, <1>9, <1>10, <1>11, QuietUpdate DEF Free
<1> QED BY <1>0, <1>3, <1>11, <1>12, UpdateStays

\* An operation lets go of everything it holds; what it made no call about is
\* available again, and the rest has left.
LEMMA ReleaseKeeps ==
  ASSUME TInv, Undisturbed, OInv, NEW p \in Callers, ~At(p, "swapping"),
         \A x \in Call : x[1] = p => ~Open(x),
         NEW there \in {"done", "failed"}, Goto(p, there) \/ NotifyAndGoto(p, there),
         batches' = [batches EXCEPT ![p] = <<>>], UNCHANGED <<so, xfer, step>>,
         cache' = Restored(cache, Holds(p)) \/ (Untouched(p) = {} /\ cache' = MarkedOutgoing(cache, Holds(p)))
  PROVE  OInv'
<1>0. p \in Op BY DEF Op
<1>1. Alone(p) /\ pc'[p] = there BY <1>0, MovesAlone DEF TInv
<1>2. batches'[p] = <<>> BY DEF TInv, TypeOK
<1>3. CallInv' BY <1>0, <1>1, CallsStay DEF OInv
<1>4. Holds(p)' = {} /\ Untouched(p)' = {} BY <1>2, EmptyHoldsNothing
<1>5. \A l \in Holds(p) : cache[l].status = "LOCAL_LOCKED" => l \in Untouched(p) BY LockedUntouched
<1>6. Untouched(p) \subseteq Holds(p) /\ Holds(p) \subseteq Leaf
  BY HoldsType DEF TInv, Untouched, Holds, Flat
<1>7. \A l \in Untouched(p) : cache[l].status = "LOCAL_LOCKED" /\ Free(l)
  BY DEF OInv, LeafInv, UntouchedFree
<1>8. \A l \in Leaf : Lawful(p, {}, Untouched(p), {}, l)
  BY <1>5, <1>6, <1>7 DEF Restored, MarkedOutgoing, NoSource, Lawful
<1>9. Coming(p)' = {} BY <1>1 DEF Coming
<1>10. \A l \in Untouched(p) : \A q \in Op : l \notin Coming(q) BY <1>6 DEF OInv, ArriveInv, Arrivals
<1>11. \A l \in Untouched(p) : \A q \in Callers \ {p} : l \notin Holds(q)
  BY <1>6 DEF OInv, LeafInv, NoDoubleSelection
<1>12. Untouched(p) \in SUBSET Leaf BY <1>6
<1>13. Updates(p, {}, Untouched(p), {})
  BY <1>0, <1>1, <1>2, <1>4, <1>6, <1>7, <1>8, <1>9, <1>10, <1>11, <1>12, QuietUpdate DEF Free
<1> QED BY <1>0, <1>3, <1>12, <1>13, UpdateStays
-----------------------------------------------------------------------------
\* The batches of a selection share no leaf: one target is served before the other.
LEMMA SelectionApart ==
  ASSUME NEW avail, NEW targets \in Seq(Nat \ {0}), NEW bs \in selectLeaves(avail, targets)
  PROVE  /\ Flat(bs) \subseteq avail
         /\ \A i, j \in DOMAIN bs : i # j => bs[i] \cap bs[j] = {}
<1>1. bs \in [DOMAIN targets -> SUBSET avail] /\ IsSelection(avail, targets, bs) BY DEF selectLeaves
<1>2. ASSUME NEW i \in DOMAIN targets, NEW j \in DOMAIN targets, ServedBefore(targets, j, i)
      PROVE  bs[i] \cap bs[j] = {}
  <2>1. bs[i] \subseteq avail \ UNION {bs[k] : k \in {m \in DOMAIN targets : ServedBefore(targets, m, i)}}
    BY <1>1 DEF IsSelection, IsGreedy
  <2>2. j \in {m \in DOMAIN targets : ServedBefore(targets, m, i)} BY <1>2
  <2> HIDE DEF ServedBefore
  <2>3. bs[j] \subseteq UNION {bs[k] : k \in {m \in DOMAIN targets : ServedBefore(targets, m, i)}}
    BY <2>2
  <2> QED BY <2>1, <2>3
<1>3. ASSUME NEW i \in DOMAIN targets, NEW j \in DOMAIN targets, i # j
      PROVE  ServedBefore(targets, i, j) \/ ServedBefore(targets, j, i)
  <2>1. i \in Nat /\ j \in Nat /\ targets[i] \in Nat /\ targets[j] \in Nat OBVIOUS
  <2> QED BY <1>3, <2>1 DEF ServedBefore
<1>4. \A i, j \in DOMAIN bs : i # j => bs[i] \cap bs[j] = {} BY <1>1, <1>2, <1>3
<1> QED BY <1>1, <1>4 DEF Flat

\* A single batch shares no leaf with another.
LEMMA OneBatch ==
  ASSUME NEW S
  PROVE  \A i, j \in DOMAIN <<S>> : i # j => <<S>>[i] \cap <<S>>[j] = {}
<1>1. DOMAIN <<S>> = 1..1 OBVIOUS
<1> QED BY <1>1

\* An operation at rest moves on to another await at which it holds nothing.
LEMMA RestKeeps ==
  ASSUME TInv, LockInv, Undisturbed, OInv, NEW p \in Callers, pc[p] \in Resting,
         NEW there \in Resting \ {"resync", "fetch", "fetched", "idle"},
         p \in Optimizer /\ there = "plan" => step[p] = 0,
         Goto(p, there) \/ NotifyAndGoto(p, there), UNCHANGED <<cache, batches, step, so, xfer>>
  PROVE  OInv'
<1>0. p \in Op BY DEF Op
<1>1. Untouched(p) = {} /\ batches[p] = <<>> BY RestHoldsNothing
<1>2. Untouched(p)' = {} BY <1>1, EmptyHoldsNothing
<1>3. pc'[p] = there BY <1>0, MovesAlone DEF TInv
<1>4. Coming(p)' = {} BY <1>3 DEF Coming, Resting
<1>5. there \notin {"quote", "register", "swapping", "ssp", "landed", "verified"}
      /\ pc[p] \notin {"swapping", "exec"}
  BY DEF Resting
<1> QED BY <1>0, <1>1, <1>2, <1>4, <1>5, MoveKeeps

\* The waits and the balance check.
LEMMA WaitOrder ==
  ASSUME TInv, LockInv, Undisturbed, OInv, NEW p \in Op, WaitOrProceed(p) \/ WaitTimesOut(p) \/ CheckBalance(p)
  PROVE  OInv'
<1>1. p \in Callers /\ pc[p] \in Resting /\ UNCHANGED <<cache, batches, step, so, xfer>>
  BY DEF WaitOrProceed, WaitTimesOut, CheckBalance, At, Resting, Callers, operators
<1>2. \E there \in {"waiting", "check", "select", "failed"} : Goto(p, there)
  BY DEF WaitOrProceed, WaitTimesOut, CheckBalance
<1> QED BY <1>1, <1>2, RestKeeps DEF Resting

\* The steps of selection.
LEMMA SelectOrder ==
  ASSUME TInv, LockInv, Undisturbed, OInv, NEW p \in Op, Select(p)
  PROVE  OInv'
<1>1. /\ p \in Callers /\ p \notin Optimizer /\ pc[p] = "select" /\ pc[p] \in Resting
      /\ UNCHANGED <<step, so, xfer>>
  BY SendersDoNotOptimize
     DEF Select, SelectExact, SelectForSwap, NotEnoughLeaves, SweepSelect, At, Callers, Resting, operators
<1>2. CASE NotEnoughLeaves(p)
  BY <1>1, <1>2, RestKeeps DEF NotEnoughLeaves, Resting
<1>3. CASE SelectExact(p)
  <2>1. Targets[p] \in Seq(Nat \ {0}) BY <1>3, LeafManagerAssumption DEF SelectExact
  <2>2. PICK bs \in selectLeaves(Available(cache), Targets[p]) : Capture(p, bs, "renew")
    BY <1>3 DEF SelectExact
  <2>3. bs \in Seq(SUBSET Leaf) BY <2>1, SelectionType
  <2> QED BY <1>1, <2>1, <2>2, <2>3, SelectionApart, CaptureKeeps
<1>4. CASE SelectForSwap(p) \/ SweepSelect(p)
  <2>1. PICK S \in SUBSET Available(cache), there \in {"renew", "swap"} : Capture(p, <<S>>, there)
    BY <1>4 DEF SelectForSwap, SweepSelect, determineLeavesToSwap
  <2>2. <<S>> \in Seq(SUBSET Leaf) /\ Flat(<<S>>) \subseteq Available(cache)
    BY FlatBatches DEF Available, WithStatus
  <2> QED BY <1>1, <2>1, <2>2, OneBatch, CaptureKeeps
<1> QED BY <1>2, <1>3, <1>4 DEF Select

\* The steps of the optimizer between its swaps.
LEMMA OptimizeOrder ==
  ASSUME TInv, LockInv, Undisturbed, OInv, NEW p \in Op, Optimize(p)
  PROVE  OInv'
<1>1. p \in Optimizer /\ p \in Callers /\ UNCHANGED <<so, xfer>>
  BY DEF Optimize, OptimizeStart, OptimizePlan, OptimizeSkip, OptimizeNext, OptimizeEnd, At,
         TInv, Control, Placed, Callers, operators
<1>2. CASE OptimizeStart(p) \/ OptimizeSkip(p)
  <2>1. pc[p] \in {"idle", "plan"} /\ UNCHANGED <<cache, batches, step>>
    BY <1>2 DEF OptimizeStart, OptimizeSkip, At
  <2>2. step[p] = 0 BY <1>1, <2>1 DEF OInv, CallInv, Quiet
  <2>3. \E there \in {"plan", "done"} : Goto(p, there) \/ NotifyAndGoto(p, there)
    BY <1>2 DEF OptimizeStart, OptimizeSkip
  <2> QED BY <1>1, <2>1, <2>2, <2>3, RestKeeps DEF Resting
<1>3. CASE OptimizePlan(p)
  <2>1. PICK plan \in Plans(Available(cache)) : Capture(p, plan, "next") BY <1>3 DEF OptimizePlan
  <2>2. PICK n \in 1..MaxBatches : /\ plan \in [1..n -> (SUBSET Available(cache)) \ {{}}]
                                   /\ \A i, j \in 1..n : i # j => plan[i] \cap plan[j] = {}
    BY <2>1 DEF Plans
  <2>3. Flat(plan) \subseteq Available(cache) BY <2>2 DEF Flat
  <2>4. plan \in Seq(SUBSET Leaf) BY <2>1, PlansType
  <2>5. pc[p] = "plan" /\ UNCHANGED step BY <1>3 DEF OptimizePlan, At
  <2> QED BY <1>1, <2>1, <2>2, <2>3, <2>4, <2>5, CaptureKeeps DEF Resting
<1>4. CASE OptimizeNext(p)
  <2>1. /\ Goto(p, "swap") /\ UNCHANGED <<cache, batches>> /\ pc[p] = "next"
        /\ step' = [step EXCEPT ![p] = step[p] + 1]
    BY <1>4 DEF OptimizeNext, At
  <2>2. pc'[p] = "swap" /\ step'[p] = step[p] + 1 /\ step[p] \in Nat /\ batches'[p] = batches[p]
    BY <1>1, <2>1, MovesAlone DEF TInv, TypeOK
  <2>3. batches[p] \in Seq(SUBSET Leaf) BY <1>1 DEF TInv, TypeOK
  <2>4. \A j \in DOMAIN batches[p] : j > step[p] <=> (j > step'[p] \/ j = step'[p])
    BY <2>2, <2>3
  <2>5. Untouched(p)' = Untouched(p) BY <1>1, <2>1, <2>2, <2>4 DEF Untouched, At
  <2>6. Coming(p)' = {} BY <1>1, <2>2 DEF Coming
  <2> QED BY <1>1, <2>1, <2>5, <2>6, MoveKeeps
<1>5. CASE OptimizeEnd(p)
  <2>1. pc[p] = "next" /\ ~At(p, "swapping") BY <1>5 DEF OptimizeEnd, At
  <2>2. \A x \in Call : x[1] = p => ~Open(x) BY <2>1, OpenAt DEF OInv
  <2> QED BY <1>1, <1>5, <2>1, <2>2, ReleaseKeeps DEF OptimizeEnd
<1> QED BY <1>2, <1>3, <1>4, <1>5 DEF Optimize
-----------------------------------------------------------------------------
\* Whoever claims or handles deposits is of one kind only.
LEMMA ArrivalKinds ==
  /\ (Claimer \cup Depositor) \cap Callers = {}
  /\ Claimer \cap Depositor = {}
<1>1. DOMAIN <<Sender, Sweeper, Optimizer, Syncer, Refresher, Claimer, Depositor>> = 1..7 OBVIOUS
<1>2. Claimer \cap Depositor = {} BY <1>1, LeafManagerAssumption DEF Disjoint
<1> QED BY <1>2, CallersAreNoOthers

\* No call is about a leaf that comes in.
LEMMA ComingUncalled ==
  ASSUME OInv, NEW q \in Op, NEW l \in Coming(q)
  PROVE  ~Called(l)
<1>1. \A p \in Callers : l \notin Holds(p) BY DEF OInv, ArriveInv, Arrivals
<1>2. ASSUME NEW x \in Call, xfer[x].call = "sent" PROVE l \notin xfer[x].leaves
  BY <1>1, <1>2, CallsAreTransfers DEF OInv, CallInv, CallsSound, Open
<1> QED BY <1>2 DEF Called

\* A claim or a deposit makes leaves of its own available.
LEMMA ArrivalKeeps ==
  ASSUME TInv, Undisturbed, OInv, NEW p \in Claimer \cup Depositor, NEW there, Goto(p, there),
         UNCHANGED <<batches, step, so, xfer>>,
         NEW freed \in SUBSET Coming(p), freed \cap Coming(p)' = {}, \A l \in freed : so[l] = "avail",
         \A l \in Leaf : Lawful(p, {}, freed, {}, l),
         Coming(p)' \subseteq Coming(p),
         there \in {"landed", "register", "verified"} => \A l \in Coming(p)' : so[l] = "avail"
  PROVE  OInv'
<1>0. p \in Op /\ p \notin Callers /\ p \notin Optimizer BY ArrivalKinds DEF Op, Callers
<1>1. Alone(p) /\ pc'[p] = there BY <1>0, MovesAlone DEF TInv
<1>2. \A x \in Call : x[1] # p BY <1>0, CallsAreTransfers
<1>3. CallInv' BY <1>0, <1>1, <1>2, CallsStay DEF OInv
<1>4. \A l \in freed : \A q \in Callers : l \notin Holds(q) BY <1>0 DEF OInv, ArriveInv, Arrivals
<1>5. \A l \in freed : \A q \in Op \ {p} : l \notin Coming(q)
  BY <1>0 DEF OInv, ArriveInv, ArriveApart
<1>6. \A l \in freed : ~Called(l) BY <1>0, ComingUncalled
<1>7. freed \in SUBSET Leaf BY <1>0, ComingType DEF OInv
<1>8. Updates(p, {}, freed, {}) BY <1>0, <1>1, <1>4, <1>5, <1>6, <1>7, QuietUpdate
<1> QED BY <1>0, <1>3, <1>7, <1>8, UpdateStays

\* The leaves a claimer claims.
LEMMA ClaimedLeaves ==
  ASSUME Undisturbed, OInv, NEW p \in Claimer
  PROVE  /\ p \in Op /\ ClaimOf[p] \in Incoming
         /\ xfer[ClaimOf[p]].kind = "incoming"
         /\ xfer[ClaimOf[p]].leaves = InLeaves[ClaimOf[p]]
         /\ Received(ClaimOf[p]) = InLeaves[ClaimOf[p]]
         /\ pc[p] \in {"idle", "claiming", "register"} => Coming(p) = InLeaves[ClaimOf[p]]
<1>1. p \notin Callers /\ p \in Op BY ArrivalKinds DEF Op
<1>2. ClaimOf[p] \in Incoming BY DEF Undisturbed
<1>3. xfer[ClaimOf[p]].kind = "incoming" /\ xfer[ClaimOf[p]].leaves = InLeaves[ClaimOf[p]]
  BY <1>2 DEF OInv, CallInv, Carried
<1> QED BY <1>1, <1>2, <1>3 DEF Received, Coming

\* What a claimer awaits after its move.
LEMMA ClaimerAwaits ==
  ASSUME TypeOK, NEW p \in Claimer, NEW there, Goto(p, there)
  PROVE  Coming(p)' = IF there \in {"idle", "claiming", "register"} THEN InLeaves[ClaimOf[p]] ELSE {}
<1>1. p \notin Callers /\ p \in Op BY ArrivalKinds DEF Op
<1>2. pc'[p] = there BY <1>1 DEF TypeOK, Goto
<1> QED BY <1>1, <1>2 DEF Coming

\* The steps of a claim, but for the claim itself.
LEMMA ClaimsOrder ==
  ASSUME TInv, Undisturbed, OInv, NEW p \in Op, Claims(p), ~Claim(p)
  PROVE  OInv'
<1>0. p \in Claimer
  <2>1. CASE ClaimStart(p) BY <2>1 DEF ClaimStart
  <2>2. CASE RegisterClaimed(p) \/ RegisterThrows(p)
    <3>1. pc[p] = "register" BY <2>2 DEF RegisterClaimed, RegisterThrows, At
    <3>2. p \notin Callers BY <3>1 DEF OInv, CallInv, Quiet
    <3> QED BY <3>1, <3>2 DEF TInv, Control, Placed, Callers
  <2> QED BY <2>1, <2>2 DEF Claims
<1>1. CASE ClaimStart(p)
  <2>1. /\ cache' = cache \/ cache' = IncomingAdded(cache, InLeaves[ClaimOf[p]], ClaimOf[p])
        /\ pc[p] = "idle" /\ Goto(p, "claiming") /\ UNCHANGED <<batches, step, so, xfer>>
    BY <1>0, <1>1, ClaimedLeaves DEF ClaimStart, At, operators
  <2>2. Coming(p) = InLeaves[ClaimOf[p]] /\ Coming(p)' = Coming(p)
    BY <1>0, <2>1, ClaimedLeaves, ClaimerAwaits DEF TInv
  <2>3. \A l \in Leaf : Lawful(p, {}, {}, {}, l) BY <2>1, <2>2 DEF IncomingAdded, TransferSource, Lawful, Unlisted
  <2> QED BY <1>0, <2>1, <2>2, <2>3, ArrivalKeeps
<1>2. CASE RegisterClaimed(p)
  <2>1. PICK kept \in Kept(InLeaves[ClaimOf[p]]) :
               cache' = Registered(cache, kept, TransferSource(ClaimOf[p]))
    BY <1>0, <1>2, ClaimedLeaves DEF RegisterClaimed
  <2>2. pc[p] = "register" /\ Goto(p, "done") /\ UNCHANGED <<batches, step, so, xfer>>
    BY <1>0, <1>2 DEF RegisterClaimed, At, operators
  <2>3. Coming(p) = InLeaves[ClaimOf[p]] /\ Coming(p)' = {}
    BY <1>0, <2>2, ClaimedLeaves, ClaimerAwaits DEF TInv
  <2>4. kept \in SUBSET Coming(p) BY <2>1, <2>3 DEF Kept
  <2>5. \A l \in kept : so[l] = "avail"
    BY <1>0, <2>2, <2>4, ClaimedLeaves DEF OInv, ArriveInv, Arrivals
  <2>6. \A l \in Leaf : Lawful(p, {}, kept, {}, l)
    BY <2>1 DEF Registered, TransferSource, Lawful
  <2> QED BY <1>0, <2>2, <2>3, <2>4, <2>5, <2>6, ArrivalKeeps
<1>3. CASE RegisterThrows(p)
  <2>1. Goto(p, "failed") /\ UNCHANGED <<cache, batches, step, so, xfer>>
    BY <1>0, <1>3 DEF RegisterThrows, operators
  <2>2. Coming(p)' = {} BY <1>0, <2>1, ClaimerAwaits DEF TInv
  <2>3. \A l \in Leaf : Lawful(p, {}, {}, {}, l) BY <2>1 DEF Lawful
  <2> QED BY <1>0, <2>1, <2>2, <2>3, ArrivalKeeps
<1> QED BY <1>1, <1>2, <1>3 DEF Claims

\* The leaves of a deposit, and what its handler awaits after its move.
LEMMA DepositedLeaves ==
  ASSUME TypeOK, OInv, NEW p \in Depositor
  PROVE  /\ p \in Op /\ DepositOf[p] \in Deposits
         /\ xfer[DepositOf[p]].leaves = InLeaves[DepositOf[p]]
         /\ pc[p] \in {"idle", "creating", "verify", "verified"} => Coming(p) = InLeaves[DepositOf[p]]
         /\ \A there : Goto(p, there) =>
              Coming(p)' = IF there \in {"idle", "creating", "verify", "verified"}
                           THEN InLeaves[DepositOf[p]] ELSE {}
<1>1. p \notin Callers /\ p \notin Claimer /\ p \in Op BY ArrivalKinds DEF Op
<1>2. DepositOf[p] \in Deposits BY LeafManagerAssumption
<1>3. xfer[DepositOf[p]].leaves = InLeaves[DepositOf[p]] BY <1>2 DEF OInv, CallInv, Carried
<1>4. \A there : Goto(p, there) => pc'[p] = there BY <1>1 DEF TypeOK, Goto
<1>5. \A there : Goto(p, there) =>
              Coming(p)' = IF there \in {"idle", "creating", "verify", "verified"}
                           THEN InLeaves[DepositOf[p]] ELSE {}
  BY <1>1, <1>4 DEF Coming
<1> QED BY <1>1, <1>2, <1>3, <1>5 DEF Coming

\* The steps of a deposit.
LEMMA HandleDepositOrder ==
  ASSUME TInv, Undisturbed, OInv, NEW p \in Op, HandleDeposit(p)
  PROVE  OInv'
<1>0. p \in Depositor
  BY DEF HandleDeposit, DepositCreating, DepositAvailable, DepositVerify, DepositAdd, At, TInv, Control, Placed
<1>1. /\ pc[p] \in {"idle", "creating", "verify", "verified"} /\ UNCHANGED <<batches, step, so, xfer>>
  BY DEF HandleDeposit, DepositCreating, DepositAvailable, DepositVerify, DepositAdd, At, operators
<1>2. Coming(p) = InLeaves[DepositOf[p]] /\ xfer[DepositOf[p]].leaves = Coming(p)
  BY <1>0, <1>1, DepositedLeaves DEF TInv
<1>3. \A l \in Coming(p) : /\ l \in Leaf /\ so[l] \in {"creating", "avail"}
                           /\ pc[p] = "verified" => so[l] = "avail"
  <2>1. p \in Op BY DEF Op
  <2> QED BY <1>0, <2>1, ComingType DEF OInv, ArriveInv, Arrivals
<1>4. CASE DepositCreating(p)
  <2>1. Goto(p, "creating") /\ cache' = DepositSeen(cache, Coming(p)) BY <1>2, <1>4 DEF DepositCreating
  <2>2. Coming(p)' = Coming(p) BY <1>0, <1>2, <2>1, DepositedLeaves DEF TInv
  <2>3. \A l \in Leaf : Lawful(p, {}, {}, {}, l) BY <2>1 DEF DepositSeen, DepositPut, DepositSource, Lawful, Unlisted
  <2> QED BY <1>0, <1>1, <2>1, <2>2, <2>3, ArrivalKeeps
<1>5. CASE DepositAvailable(p)
  <2>1. xfer[DepositOf[p]].st = "tweaked" BY <1>5 DEF DepositAvailable
  <2>2. \A l \in Coming(p) : so[l] = "avail"
    <3>1. DepositOf[p] \in Deposits BY <1>0, DepositedLeaves DEF TInv
    <3> QED BY <1>2, <1>3, <2>1, <3>1 DEF OInv, ArriveInv, Confirmed
  <2>3. PICK l \in Coming(p) :
             \/ cache[l].status = "INCOMING" /\ cache' = transition(cache, {l}, "AVAILABLE") /\ Goto(p, "done")
             \/ cache[l].status = "NONE" /\ cache' = DepositAdded(cache, {l}) /\ Goto(p, "done")
             \/ cache' = cache /\ (Goto(p, "verify") \/ Goto(p, "done"))
    BY <1>2, <1>5 DEF DepositAvailable
  <2>4. Goto(p, "done") => Coming(p)' = {} BY <1>0, DepositedLeaves DEF TInv
  <2>5. Goto(p, "verify") => Coming(p)' = Coming(p) BY <1>0, <1>2, DepositedLeaves DEF TInv
  <2>6. CASE cache' = cache /\ (Goto(p, "verify") \/ Goto(p, "done"))
    <3>1. \A k \in Leaf : Lawful(p, {}, {}, {}, k) BY <2>6 DEF Lawful
    <3> QED BY <1>0, <1>1, <2>4, <2>5, <2>6, <3>1, ArrivalKeeps
  <2>7. CASE cache[l].status = "INCOMING" /\ cache' = transition(cache, {l}, "AVAILABLE") /\ Goto(p, "done")
    <3>1. cache[l].source.kind # "swap"
      BY <1>0, DepositedLeaves DEF TInv, OInv, ArriveInv, Arrivals, Unlisted
    <3>2. \A k \in Leaf : Lawful(p, {}, {l}, {}, k)
      BY <1>3, <2>7, <3>1 DEF transition, Moved, VALID_TRANSITIONS, Lawful
    <3> QED BY <1>0, <1>1, <2>2, <2>4, <2>7, <3>2, ArrivalKeeps
  <2>8. CASE cache[l].status = "NONE" /\ cache' = DepositAdded(cache, {l}) /\ Goto(p, "done")
    <3>1. \A k \in Leaf : Lawful(p, {}, {l}, {}, k)
      BY <1>3, <2>8 DEF DepositAdded, DepositPut, DepositSource, Lawful
    <3> QED BY <1>0, <1>1, <2>2, <2>4, <2>8, <3>1, ArrivalKeeps
  <2> QED BY <2>3, <2>6, <2>7, <2>8
<1>6. CASE DepositVerify(p)
  <2>1. \A k \in Leaf : Lawful(p, {}, {}, {}, k) BY <1>6 DEF DepositVerify, Lawful
  <2>2. CASE Goto(p, "done")
    <3>1. Coming(p)' = {} BY <1>0, <2>2, DepositedLeaves DEF TInv
    <3> QED BY <1>0, <1>1, <2>1, <2>2, <3>1, ArrivalKeeps
  <2>3. CASE Goto(p, "verified") /\ \A l \in Coming(p) : so[l] \in {"avail", "gone"}
    <3>1. Coming(p)' = Coming(p) BY <1>0, <1>2, <2>3, DepositedLeaves DEF TInv
    <3>2. \A l \in Coming(p) : so[l] = "avail" BY <1>3, <2>3
    <3> QED BY <1>0, <1>1, <2>1, <2>3, <3>1, <3>2, ArrivalKeeps
  <2> QED BY <1>2, <1>6, <2>2, <2>3 DEF DepositVerify
<1>7. CASE DepositAdd(p)
  <2> DEFINE new == {l \in Coming(p) : cache[l].status = "NONE"}
  <2>1. Goto(p, "done") /\ cache' = DepositAdded(cache, Coming(p)) /\ pc[p] = "verified"
    BY <1>2, <1>7 DEF DepositAdd, At
  <2>2. Coming(p)' = {} BY <1>0, <2>1, DepositedLeaves DEF TInv
  <2>3. \A l \in Leaf : Lawful(p, {}, new, {}, l)
    BY <2>1 DEF DepositAdded, DepositPut, DepositSource, Lawful
  <2>4. \A l \in new : so[l] = "avail" BY <1>3, <2>1
  <2>5. new \in SUBSET Coming(p) OBVIOUS
  <2> HIDE DEF new
  <2> QED BY <1>0, <1>1, <2>1, <2>2, <2>3, <2>4, <2>5, ArrivalKeeps
<1> QED BY <1>4, <1>5, <1>6, <1>7 DEF HandleDeposit
-----------------------------------------------------------------------------
\* What the end of a swap does to the cache: its leaves go, the new ones are available.
LEMMA SwapAppliedIs ==
  ASSUME TInv, Undisturbed, OInv, NEW p \in Callers, At(p, "landed")
  PROVE  /\ p \in Op /\ Coming(p) = xfer[LastCall(p)].new /\ Coming(p) \subseteq Leaf
         /\ \A l \in Leaf :
              IF l \in Coming(p) THEN SwapApplied(p)[l] = [status |-> "AVAILABLE", source |-> NoSource]
              ELSE SwapApplied(p)[l] = cache[l] \/ (Taken(l) /\ SwapApplied(p)[l] = NoRecord)
         /\ \A l \in Coming(p) : /\ so[l] = "avail" /\ ~Called(l)
                                 /\ \A q \in Callers : l \notin Holds(q)
                                 /\ \A q \in Op \ {p} : l \notin Coming(q)
<1>0. p \in Op BY DEF Op
<1>1. Coming(p) = xfer[LastCall(p)].new BY DEF At, Coming
<1>2. Coming(p) \subseteq Leaf BY <1>0, ComingType DEF OInv
<1>3. \A l \in Coming(p) : /\ so[l] = "avail" /\ ~Called(l)
                           /\ \A q \in Callers : l \notin Holds(q)
                           /\ \A q \in Op \ {p} : l \notin Coming(q)
  BY <1>0, ComingUncalled DEF OInv, ArriveInv, Arrivals, ArriveApart, At
<1>4. \A x \in Call : x[1] = p => ~Open(x) BY <1>0, OpenAt DEF OInv, At
<1>5. SwapLeaves(p) \subseteq Holds(p) /\ SwapLeaves(p) \cap Untouched(p) = {}
  <2>1. CASE p \in Optimizer
    <3>1. SwapLeaves(p) = batches[p][step[p]] BY <2>1 DEF SwapLeaves
    <3>2. step[p] \in DOMAIN batches[p] BY <2>1 DEF OInv, CallInv, SwapsCalled, At
    <3>3. QED
      <4>1. SwapLeaves(p) \subseteq Holds(p) BY <3>1, <3>2 DEF Holds, Flat
      <4>2. \A i \in DOMAIN batches[p] : i > step[p] => batches[p][i] \cap batches[p][step[p]] = {}
        <5>1. step[p] \in Nat BY <2>1 DEF TInv, TypeOK
        <5>2. \A i, j \in DOMAIN batches[p] : i # j => batches[p][i] \cap batches[p][j] = {}
          BY DEF OInv, LeafInv, BatchesApart
        <5> QED BY <3>2, <5>1, <5>2
      <4>3. ~At(p, "swap") BY DEF At
      <4>4. \A l \in Untouched(p) : \E i \in DOMAIN batches[p] : i > step[p] /\ l \in batches[p][i]
        BY <2>1, <4>3 DEF Untouched
      <4> QED BY <3>1, <4>1, <4>2, <4>4
  <2>2. CASE p \notin Optimizer
    BY <2>2 DEF SwapLeaves, Untouched, At
  <2> QED BY <2>1, <2>2
<1>6. ASSUME NEW l \in SwapLeaves(p), l \in Leaf, cache[l].status \notin {"NONE", "INCOMING"} PROVE Taken(l)
  <2>1. l \in Holds(p) /\ l \notin Untouched(p) BY <1>5
  <2>2. cache[l].status # "LOCAL_LOCKED" BY <1>4, <2>1, LockedUntouched DEF At
  <2>3. cache[l].status # "AVAILABLE" BY <1>6, <2>1 DEF OInv, LeafInv, Pool
  <2>4. cache[l] \in LeafRecord BY <1>6 DEF TInv, TypeOK, Cache
  <2>5. cache[l].status \in {"OUTGOING", "SWAP_PENDING"} BY <1>6, <2>2, <2>3, <2>4 DEF LeafRecord, LeafStatus
  <2> QED BY <1>6, <2>5 DEF OInv, LeafInv, InFlight
<1>7. ASSUME NEW l \in Leaf
      PROVE  IF l \in Coming(p) THEN SwapApplied(p)[l] = [status |-> "AVAILABLE", source |-> NoSource]
             ELSE SwapApplied(p)[l] = cache[l] \/ (Taken(l) /\ SwapApplied(p)[l] = NoRecord)
  <2>1. SwapApplied(p)[l] = IF l \in Coming(p) THEN [status |-> "AVAILABLE", source |-> NoSource]
                            ELSE transition(cache, SwapLeaves(p), "SPENT")[l]
    BY <1>1 DEF SwapApplied, Registered
  <2>2. /\ transition(cache, SwapLeaves(p), "SPENT")[l] \in {cache[l], NoRecord}
        /\ l \notin SwapLeaves(p) \/ cache[l].status \in {"NONE", "INCOMING"}
             => transition(cache, SwapLeaves(p), "SPENT")[l] = cache[l]
    BY DEF transition, Moved, VALID_TRANSITIONS, TInv, TypeOK
  <2> QED BY <1>6, <2>1, <2>2
<1> QED BY <1>0, <1>1, <1>2, <1>3, <1>7

\* A swap of the optimizer ends.
LEMMA SwapOptimizedOrder ==
  ASSUME TInv, Undisturbed, OInv, NEW p \in Op, SwapOptimized(p)
  PROVE  OInv'
<1>0. p \in Callers /\ p \in Optimizer /\ At(p, "landed") BY DEF SwapOptimized, Callers
<1>1. /\ NotifyAndGoto(p, "next") /\ cache' = SwapApplied(p)
      /\ UNCHANGED <<batches, step, so, xfer>>
  BY DEF SwapOptimized, operators
<1>2. Alone(p) /\ pc'[p] = "next" BY <1>1, MovesAlone DEF TInv
<1>3. \A x \in Call : x[1] = p => ~Open(x) BY <1>0, OpenAt DEF OInv, At
<1>4. CallInv' BY <1>1, <1>2, <1>3, CallsStay DEF OInv
<1>5. Holds(p)' = Holds(p) /\ Untouched(p)' = Untouched(p)
  BY <1>0, <1>1, <1>2 DEF Holds, Untouched, At
<1>6. Coming(p)' = {} BY <1>0, <1>2 DEF Coming
<1>7. \A l \in Leaf : Lawful(p, {}, Coming(p), {}, l)
  BY <1>0, <1>1, SwapAppliedIs DEF NoRecord, NoSource, Lawful
<1>8. Coming(p) \in SUBSET Leaf BY <1>0, SwapAppliedIs
<1>9. ASSUME NEW l \in Holds(p), cache'[l].status = "LOCAL_LOCKED" PROVE l \in Untouched(p)
  <2>1. l \in Leaf /\ l \notin Coming(p) BY <1>0, SwapAppliedIs, HoldsType DEF TInv
  <2>2. cache[l].status = "LOCAL_LOCKED" BY <1>0, <1>1, <1>9, <2>1, SwapAppliedIs DEF NoRecord
  <2> QED BY <1>0, <1>3, <2>2, LockedUntouched DEF At
<1>10. \A i, j \in DOMAIN batches'[p] : i # j => batches'[p][i] \cap batches'[p][j] = {}
  BY <1>0, <1>1 DEF OInv, LeafInv, BatchesApart
<1>11. Updates(p, {}, Coming(p), {})
  BY <1>0, <1>1, <1>2, <1>5, <1>6, <1>7, <1>8, <1>9, <1>10, SwapAppliedIs, QuietUpdate
<1> QED BY <1>1, <1>4, <1>8, <1>11, UpdateStays

\* A swap of a Sender ends, and it captures what it was after, or gives up.
LEMMA SwapSelectedOrder ==
  ASSUME TInv, Undisturbed, OInv, NEW p \in Op, SwapSelected(p)
  PROVE  OInv'
<1>0. p \in Callers /\ p \in Sender /\ p \notin Optimizer /\ At(p, "landed")
  BY SendersDoNotOptimize DEF SwapSelected, Callers
<1>1. \E bs \in selectLeaves(Available(SwapApplied(p)), Targets[p]), got \in SUBSET Leaf :
        /\ batches' = [batches EXCEPT ![p] = bs] \/ batches' = [batches EXCEPT ![p] = <<>>]
        /\ \/ /\ batches' = [batches EXCEPT ![p] = bs] /\ got = Flat(bs)
              /\ cache' = transition(SwapApplied(p), got, "LOCAL_LOCKED") /\ Goto(p, "renew")
           \/ /\ batches' = [batches EXCEPT ![p] = <<>>] /\ got = {}
              /\ cache' = SwapApplied(p) /\ Goto(p, "failed")
  <2>1. PICK bs \in selectLeaves(Available(SwapApplied(p)), Targets[p]) :
          \/ /\ cache' = transition(SwapApplied(p), Flat(bs), "LOCAL_LOCKED")
             /\ batches' = [batches EXCEPT ![p] = bs] /\ Goto(p, "renew")
          \/ /\ cache' = SwapApplied(p)
             /\ batches' = [batches EXCEPT ![p] = <<>>] /\ Goto(p, "failed")
    BY DEF SwapSelected
  <2>2. Targets[p] \in Seq(Nat \ {0}) BY <1>0, LeafManagerAssumption
  <2>3. Flat(bs) \in SUBSET Leaf BY <2>2, SelectionApart DEF Available, WithStatus
  <2> QED BY <2>1, <2>3
<1>2. PICK bs \in selectLeaves(Available(SwapApplied(p)), Targets[p]), got \in SUBSET Leaf :
        /\ batches' = [batches EXCEPT ![p] = bs] \/ batches' = [batches EXCEPT ![p] = <<>>]
        /\ \/ /\ batches' = [batches EXCEPT ![p] = bs] /\ got = Flat(bs)
              /\ cache' = transition(SwapApplied(p), got, "LOCAL_LOCKED") /\ Goto(p, "renew")
           \/ /\ batches' = [batches EXCEPT ![p] = <<>>] /\ got = {}
              /\ cache' = SwapApplied(p) /\ Goto(p, "failed")
  BY <1>1
<1>3. UNCHANGED <<step, so, xfer>> BY DEF SwapSelected, operators
<1>4. Targets[p] \in Seq(Nat \ {0}) BY <1>0, LeafManagerAssumption
<1>5. got \subseteq Available(SwapApplied(p)) BY <1>2, <1>4, SelectionApart
<1>6. Alone(p) /\ pc'[p] \in {"renew", "failed"} BY <1>0, <1>2, <1>3, MovesAlone DEF TInv
<1>7. \/ batches'[p] = bs /\ got = Flat(bs) /\ pc'[p] = "renew"
      \/ batches'[p] = <<>> /\ got = {} /\ pc'[p] = "failed"
  <2>1. \A there : Goto(p, there) => pc'[p] = there BY DEF TInv, TypeOK, Goto
  <2> QED BY <1>0, <1>2, <2>1 DEF TInv, TypeOK
<1>8. Holds(p)' = got /\ Untouched(p)' = got
  <2>1. CASE batches'[p] = bs /\ got = Flat(bs) /\ pc'[p] = "renew"
    BY <1>0, <2>1 DEF Holds, Untouched
  <2>2. CASE batches'[p] = <<>> /\ got = {} /\ pc'[p] = "failed"
    BY <1>0, <2>2, EmptyHoldsNothing
  <2> QED BY <1>7, <2>1, <2>2
<1>9. \A i, j \in DOMAIN batches'[p] : i # j => batches'[p][i] \cap batches'[p][j] = {}
  <2>1. \A i, j \in DOMAIN bs : i # j => bs[i] \cap bs[j] = {} BY <1>4, SelectionApart
  <2> QED BY <1>7, <2>1
<1>10. \A x \in Call : x[1] = p => ~Open(x) BY <1>0, OpenAt DEF OInv, At
<1>11. CallInv' BY <1>0, <1>3, <1>6, <1>10, CallsStay DEF OInv
<1>12. Coming(p)' = {} BY <1>0, <1>6 DEF Coming
<1>13. \A l \in got : /\ so[l] = "avail" /\ ~Called(l) /\ SwapApplied(p)[l].status = "AVAILABLE"
                      /\ SwapApplied(p)[l].source.kind # "swap"
                      /\ \A q \in Callers : l \notin Holds(q)
                      /\ \A q \in Op \ {p} : l \notin Coming(q)
  <2> SUFFICES ASSUME NEW l \in got
               PROVE  /\ so[l] = "avail" /\ ~Called(l) /\ SwapApplied(p)[l].status = "AVAILABLE"
                      /\ SwapApplied(p)[l].source.kind # "swap"
                      /\ \A q \in Callers : l \notin Holds(q)
                      /\ \A q \in Op \ {p} : l \notin Coming(q)
    OBVIOUS
  <2>1. l \in Leaf /\ SwapApplied(p)[l].status = "AVAILABLE" BY <1>5 DEF Available, WithStatus
  <2>2. CASE l \in Coming(p)
    BY <1>0, <2>1, <2>2, SwapAppliedIs DEF NoSource
  <2>3. CASE l \notin Coming(p)
    <3>1. SwapApplied(p)[l] = cache[l] BY <1>0, <2>1, <2>3, SwapAppliedIs DEF NoRecord
    <3>2. Free(l) /\ \A q \in Callers : l \notin Holds(q) BY <2>1, <3>1 DEF OInv, LeafInv, Pool
    <3>3. \A q \in Op : l \notin Coming(q) BY <2>1, <3>1 DEF OInv, ArriveInv, Arrivals, Unlisted
    <3> QED BY <2>1, <3>1, <3>2, <3>3 DEF Free
  <2> QED BY <2>2, <2>3
<1>14. \A l \in Leaf : Lawful(p, got, Coming(p) \ got, {}, l)
  <2> SUFFICES ASSUME NEW l \in Leaf PROVE Lawful(p, got, Coming(p) \ got, {}, l) OBVIOUS
  <2>1. CASE l \in got
    <3>1. cache' = transition(SwapApplied(p), got, "LOCAL_LOCKED") BY <1>2, <2>1
    <3>2. cache'[l] = [status |-> "LOCAL_LOCKED", source |-> SwapApplied(p)[l].source]
      BY <1>13, <2>1, <3>1 DEF transition, Moved, VALID_TRANSITIONS
    <3> QED BY <1>13, <2>1, <3>2 DEF Lawful
  <2>2. CASE l \notin got
    <3>0. SwapApplied(p) \in Cache BY SwapAppliedType DEF TInv
    <3>1. cache'[l] = SwapApplied(p)[l] BY <1>2, <2>2, <3>0 DEF transition, Moved
    <3> QED BY <1>0, <2>2, <3>1, SwapAppliedIs DEF NoRecord, NoSource, Lawful
  <2> QED BY <2>1, <2>2
<1>15. Holds(p)' \subseteq (Holds(p) \cup got) \ (Coming(p) \ got) BY <1>8
<1>16. Coming(p) \ got \in SUBSET Leaf BY <1>0, SwapAppliedIs
<1>17. \A l \in Coming(p) : /\ so[l] = "avail" /\ ~Called(l)
                            /\ \A q \in Callers : l \notin Holds(q)
                            /\ \A q \in Op \ {p} : l \notin Coming(q)
  BY <1>0, SwapAppliedIs
<1>18. Updates(p, got, Coming(p) \ got, {})
  BY <1>0, <1>3, <1>6, <1>8, <1>9, <1>12, <1>13, <1>14, <1>15, <1>16, <1>17, QuietUpdate
<1> QED BY <1>3, <1>11, <1>16, <1>18, UpdateStays

\* The steps at which an operation lets go, or is stranded.
LEMMA EndOrder ==
  ASSUME TInv, Undisturbed, OInv, NEW p \in Op,
         SwapFailsAtSsp(p) \/ ExecutorThrows(p) \/ ExecutorReturns(p) \/ RenewalThrows(p)
  PROVE  OInv'
<1>0. p \in Callers
  BY DEF SwapFailsAtSsp, ExecutorThrows, ExecutorReturns, RenewalThrows, At, TInv, Control, Placed, Callers
<1>1. CASE SwapFailsAtSsp(p)
  <2>1. pc[p] = "ssp" /\ Fails(p, FALSE) /\ UNCHANGED <<step, so, xfer>>
    BY <1>1 DEF SwapFailsAtSsp, At, operators
  <2>2. \A x \in Call : x[1] = p => ~Open(x) BY <2>1, OpenAt DEF OInv
  <2>3. /\ Goto(p, "failed") \/ NotifyAndGoto(p, "failed")
        /\ cache' = Restored(cache, Holds(p)) /\ batches' = [batches EXCEPT ![p] = <<>>]
    BY <2>1 DEF Fails
  <2> QED BY <1>0, <2>1, <2>2, <2>3, ReleaseKeeps DEF At
<1>2. CASE ExecutorThrows(p)
  <2>1. /\ pc[p] \in {"exec", "quote"} /\ Fails(p, FALSE) /\ UNCHANGED <<step, so>>
        /\ \A x \in CallsOf(p) : xfer[x].kind = "self"
        /\ xfer' = [x \in Xfer |-> IF x \in CallsOf(p) THEN [xfer[x] EXCEPT !.call = "over"] ELSE xfer[x]]
    BY <1>2 DEF ExecutorThrows
  <2>2. CallsOf(p) = {}
    <3>1. \A x \in CallsOf(p) : x \in Call BY <1>0 DEF CallsOf, Call
    <3> QED BY <2>1, <3>1 DEF OInv, CallInv, CallsSound
  <2>3. UNCHANGED xfer BY <2>1, <2>2 DEF TInv, TypeOK
  <2>4. \A x \in Call : x[1] = p => ~Open(x)
    BY <2>2, CallsAreTransfers DEF CallsOf, Open
  <2>5. /\ Goto(p, "failed") \/ NotifyAndGoto(p, "failed")
        /\ cache' = Restored(cache, Holds(p)) /\ batches' = [batches EXCEPT ![p] = <<>>]
    BY <2>1 DEF Fails
  <2> QED BY <1>0, <2>1, <2>3, <2>4, <2>5, ReleaseKeeps DEF At
<1>3. CASE ExecutorReturns(p)
  <2>1. /\ pc[p] = "exec" /\ CallsOf(p) = {} /\ cache' = MarkedOutgoing(cache, Holds(p))
        /\ batches' = [batches EXCEPT ![p] = <<>>] /\ Goto(p, "done") /\ UNCHANGED <<step, so, xfer>>
    BY <1>3 DEF ExecutorReturns, At, operators
  <2>2. \A x \in Call : x[1] = p => ~Open(x)
    BY <2>1, CallsAreTransfers DEF CallsOf, Open
  <2>3. p \notin Optimizer BY <1>0, <2>1, SendersDoNotOptimize DEF TInv, Control, Placed
  <2>4. Untouched(p) = {} BY <2>1, <2>3 DEF Untouched
  <2> QED BY <1>0, <2>1, <2>2, <2>4, ReleaseKeeps DEF At
<1>4. CASE RenewalThrows(p)
  <2>1. pc[p] = "renew" /\ Goto(p, "stranded") /\ UNCHANGED <<cache, batches, step, so, xfer>>
    BY <1>4 DEF RenewalThrows, At, operators
  <2>2. pc'[p] = "stranded" /\ batches'[p] = batches[p] BY <2>1, MovesAlone DEF TInv
  <2>3. p \notin Optimizer BY <1>0, <2>1, SendersDoNotOptimize DEF TInv, Control, Placed
  <2>4. Untouched(p)' = Untouched(p) BY <2>1, <2>2, <2>3 DEF Untouched, Holds
  <2>5. Coming(p)' = {} BY <1>0, <2>2 DEF Coming
  <2> QED BY <1>0, <2>1, <2>3, <2>4, <2>5, MoveKeeps
<1> QED BY <1>1, <1>2, <1>3, <1>4
-----------------------------------------------------------------------------
\* An operation makes calls about leaves it holds and has made no call about.
LEMMA CallsMade ==
  ASSUME TInv, Undisturbed, CallInv, NEW p \in Callers, NEW kind \in {"send", "swap"},
         NEW bs \in Seq(SUBSET Leaf), Calls(p, kind, bs), Alone(p),
         pc[p] \in {"renew", "swap"}, pc'[p] = IF kind = "swap" THEN "swapping" ELSE "exec",
         Flat(bs) \subseteq Holds(p)', \A l \in Flat(bs) : ~Called(l),
         \A i, j \in DOMAIN bs : i # j => bs[i] \cap bs[j] = {},
         kind = "swap" => pc[p] = "swap" /\ bs = <<SwapLeaves(p)>> /\ UNCHANGED <<batches, step>>
  PROVE  /\ CallInv'
         /\ \A x \in Xfer : (x \in Call => x[1] # p) => xfer'[x] = xfer[x]
         /\ \A l : /\ Called(l)' <=> Called(l) \/ l \in Flat(bs)
                   /\ Taken(l)' <=> Taken(l)
         /\ \A l \in Flat(bs) : \E x \in Call : x[1] = p /\ Open(x)' /\ l \in xfer'[x].leaves
         /\ \A q \in Callers \ {p} : LastCall(q)' = LastCall(q)
<1> DEFINE new == {<<p, Cardinality(Made(p)) + i>> : i \in DOMAIN bs}
<1>0. p \in Op /\ \A q \in Callers : q \in Op BY DEF Op
<1>1. PICK n \in Nat :
         /\ n = Cardinality(Made(p))
         /\ \A i \in DOMAIN bs : /\ <<p, n + i>> \in Call
                                 /\ xfer[<<p, n + i>>] = NoTransfer
                                 /\ xfer'[<<p, n + i>>] = NewTransfer(kind, bs[i], "none", "sent")
         /\ \A x \in Xfer : (\A i \in DOMAIN bs : x # <<p, n + i>>) => xfer'[x] = xfer[x]
         /\ Made(p)' = 1..(n + Len(bs)) /\ n + Len(bs) \in 0..MaxCalls
         /\ LastCall(p)' = <<p, n + Len(bs)>>
         /\ \A q \in Callers \ {p} : Made(q)' = Made(q) /\ LastCall(q)' = LastCall(q)
  BY CallsAre DEF TInv
<1>2. \A x \in new : \E i \in DOMAIN bs :
         /\ x = <<p, n + i>> /\ x \in Call /\ x[1] = p
         /\ xfer[x] = NoTransfer /\ xfer'[x] = NewTransfer(kind, bs[i], "none", "sent")
  BY <1>1
<1>3. \A x \in Xfer \ new : xfer'[x] = xfer[x]
  <2> SUFFICES ASSUME NEW x \in Xfer, x \notin new PROVE xfer'[x] = xfer[x] OBVIOUS
  <2>1. \A i \in DOMAIN bs : x # <<p, n + i>> BY <1>1
  <2> QED BY <1>1, <2>1
<1>4. \A l \in Flat(bs) : \E x \in new : l \in xfer'[x].leaves /\ xfer'[x].call = "sent"
  <2> SUFFICES ASSUME NEW l \in Flat(bs)
               PROVE  \E x \in new : l \in xfer'[x].leaves /\ xfer'[x].call = "sent"
    OBVIOUS
  <2>1. PICK i \in DOMAIN bs : l \in bs[i] BY DEF Flat
  <2>2. <<p, n + i>> \in new BY <1>1
  <2>3. xfer'[<<p, n + i>>] = NewTransfer(kind, bs[i], "none", "sent") BY <1>1
  <2>4. xfer'[<<p, n + i>>].leaves = bs[i] /\ xfer'[<<p, n + i>>].call = "sent"
    BY <2>3 DEF NewTransfer
  <2> QED BY <2>1, <2>2, <2>4
<1>5. \A x \in new : /\ x \in Call /\ x[1] = p /\ xfer[x] = NoTransfer
                     /\ xfer'[x].kind = kind /\ xfer'[x].call = "sent" /\ xfer'[x].st = "none"
                     /\ xfer'[x].new = {} /\ xfer'[x].leaves \subseteq Flat(bs)
  <2> TAKE x \in new
  <2>1. PICK i \in DOMAIN bs : /\ x = <<p, n + i>> /\ x \in Call /\ x[1] = p
                               /\ xfer[x] = NoTransfer /\ xfer'[x] = NewTransfer(kind, bs[i], "none", "sent")
    BY <1>2
  <2>2. bs[i] \subseteq Flat(bs) BY DEF Flat
  <2>3. /\ xfer'[x].kind = kind /\ xfer'[x].call = "sent" /\ xfer'[x].st = "none"
        /\ xfer'[x].new = {} /\ xfer'[x].leaves = bs[i]
    BY <2>1 DEF NewTransfer
  <2> QED BY <2>1, <2>2, <2>3
<1>6. \A x, y \in new : x # y => xfer'[x].leaves \cap xfer'[y].leaves = {}
  <2> TAKE x, y \in new
  <2>1. PICK i \in DOMAIN bs : x = <<p, n + i>> /\ xfer'[x] = NewTransfer(kind, bs[i], "none", "sent")
    BY <1>2
  <2>2. PICK j \in DOMAIN bs : y = <<p, n + j>> /\ xfer'[y] = NewTransfer(kind, bs[j], "none", "sent")
    BY <1>2
  <2>3. xfer'[x].leaves = bs[i] /\ xfer'[y].leaves = bs[j] BY <2>1, <2>2 DEF NewTransfer
  <2> QED BY <2>1, <2>2, <2>3
<1>7. Call \subseteq Xfer BY CallsAreTransfers
<1>8. \A x \in Call : x[1] = p => ~Open(x) BY <1>0, OpenAt
<1> HIDE DEF new
<1>9. \A l : /\ Called(l)' <=> Called(l) \/ l \in Flat(bs)
             /\ Taken(l)' <=> Taken(l)
  <2> TAKE l
  <2>1. \A x \in new : xfer[x].call # "sent" /\ xfer[x].st = "none" BY <1>5 DEF NoTransfer, NewTransfer
  <2>2. Called(l)' <=> \E x \in Call : xfer'[x].call = "sent" /\ l \in xfer'[x].leaves BY DEF Called
  <2>3. Taken(l)' <=> \E x \in Call : xfer'[x].st # "none" /\ l \in xfer'[x].leaves BY DEF Taken
  <2> QED BY <1>3, <1>4, <1>5, <1>7, <2>1, <2>2, <2>3 DEF Called, Taken
<1>10. Quiet' BY <1>0 DEF CallInv, Quiet, Alone, Callers
<1>11. Numbered'
  <2>1. ASSUME NEW q \in Callers PROVE \E k \in 0..MaxCalls : Made(q)' = 1..k
    BY <1>1 DEF CallInv, Numbered
  <2> QED BY <2>1 DEF Numbered
<1>12. CallsSound'
  <2> SUFFICES ASSUME NEW x \in Call
               PROVE  /\ xfer'[x].kind \in {"none", "send", "swap"}
                      /\ xfer'[x].kind = "none" => xfer'[x] = NoTransfer
                      /\ xfer'[x].kind # "none" => (xfer'[x].call = "sent" <=> xfer'[x].st = "none")
                      /\ xfer'[x].call # "refused" /\ xfer'[x].st # "returned"
                      /\ xfer'[x].st \in {"none", "initiated"} => xfer'[x].new = {}
                      /\ xfer'[x].call \in {"sent", "accepted"} =>
                           /\ pc'[x[1]] = IF xfer'[x].kind = "swap" THEN "swapping" ELSE "exec"
                           /\ xfer'[x].leaves \subseteq Holds(x[1])'
    BY DEF CallsSound, Open
  <2>1. CASE x \in new
    <3>1. xfer'[x].leaves \subseteq Holds(x[1])' BY <1>5, <2>1
    <3> QED BY <1>5, <2>1, <3>1
  <2>2. CASE x \notin new
    <3>1. xfer'[x] = xfer[x] /\ x[1] \in Callers BY <1>3, <1>7, <2>2, CallsAreTransfers
    <3>2. Open(x) => /\ x[1] # p
                     /\ pc[x[1]] = IF xfer[x].kind = "swap" THEN "swapping" ELSE "exec"
                     /\ xfer[x].leaves \subseteq Holds(x[1])
      BY <1>8 DEF CallInv, CallsSound
    <3>3. Open(x) => /\ pc'[x[1]] = pc[x[1]]
                     /\ Holds(x[1])' = Holds(x[1])
      BY <1>0, <3>1, <3>2, OthersKeep DEF Alone
    <3> QED BY <3>1, <3>2, <3>3 DEF CallInv, CallsSound, Open
  <2> QED BY <2>1, <2>2
<1>13. CallsApart'
  <2> SUFFICES ASSUME NEW x \in Call, NEW y \in Call, x # y,
                      xfer'[x].call = "sent", xfer'[y].call = "sent"
               PROVE  xfer'[x].leaves \cap xfer'[y].leaves = {}
    BY DEF CallsApart
  <2>1. ASSUME NEW z \in Call, z \notin new, xfer'[z].call = "sent", NEW l \in Flat(bs)
        PROVE  l \notin xfer'[z].leaves
    BY <1>3, <1>7, <2>1 DEF Called
  <2>2. CASE x \in new /\ y \in new BY <1>6, <2>2
  <2>3. CASE x \in new /\ y \notin new BY <1>5, <2>1, <2>3
  <2>4. CASE x \notin new /\ y \in new BY <1>5, <2>1, <2>4
  <2>5. CASE x \notin new /\ y \notin new
    BY <1>3, <1>7, <2>5 DEF CallInv, CallsApart
  <2> QED BY <2>2, <2>3, <2>4, <2>5
<1>14. SwapsCalled'
  <2> SUFFICES ASSUME NEW q \in Callers
               PROVE  /\ pc'[q] \in {"swapping", "ssp", "landed"} => Made(q)' # {}
                      /\ pc'[q] = "swapping" => /\ xfer'[LastCall(q)'].leaves = SwapLeaves(q)'
                                               /\ xfer'[LastCall(q)'].new = {}
                                               /\ \A x \in Call : x[1] = q /\ Open(x)' => x = LastCall(q)'
                      /\ q \in Optimizer /\ pc'[q] \in {"swapping", "ssp", "landed"}
                           => step'[q] \in DOMAIN batches'[q]
    BY DEF SwapsCalled
  <2>1. CASE q = p /\ kind = "swap"
    <3>1. bs = <<SwapLeaves(p)>> /\ UNCHANGED <<batches, step>> /\ pc[p] = "swap" BY <2>1
    <3>2. Len(bs) = 1 /\ 1 \in DOMAIN bs /\ bs[1] = SwapLeaves(p) BY <3>1
    <3>3. xfer'[<<p, n + 1>>] = NewTransfer(kind, bs[1], "none", "sent") BY <1>1, <3>2
    <3>4. LastCall(p)' = <<p, n + 1>> /\ Made(p)' = 1..(n + 1) BY <1>1, <3>2
    <3>5. Made(p)' # {}
      <4>1. 1 \in 1..(n + 1) OBVIOUS
      <4> QED BY <3>4, <4>1
    <3>6. SwapLeaves(p)' = SwapLeaves(p) BY <3>1 DEF SwapLeaves, Holds
    <3>7. p \in Optimizer => step[p] \in DOMAIN batches[p] BY <1>0, <3>1 DEF TInv, Control, Placed
    <3>8. new = {<<p, n + 1>>} BY <1>1, <3>1, <3>2 DEF new
    <3>9. \A x \in Call : x[1] = p /\ Open(x)' => x = LastCall(p)'
      BY <1>3, <1>7, <1>8, <3>4, <3>8 DEF Open
    <3> QED BY <2>1, <3>1, <3>2, <3>3, <3>4, <3>5, <3>6, <3>7, <3>9 DEF NewTransfer
  <2>2. CASE q = p /\ kind # "swap" BY <2>2
  <2>3. CASE q # p
    <3>1. pc[q] = "swapping" => LastCall(q) \in Xfer /\ LastCall(q) \notin new
      <4>1. LastCall(q)[1] = q BY DEF LastCall
      <4>2. pc[q] = "swapping" => LastCall(q) \in Call BY LastCallIs DEF CallInv, SwapsCalled
      <4> QED BY <1>5, <1>7, <2>3, <4>1, <4>2
    <3>2. /\ pc'[q] \in {"swapping", "ssp", "landed"} => pc'[q] = pc[q]
          /\ q \in Optimizer => batches'[q] = batches[q] /\ step'[q] = step[q]
      BY <1>0, <2>3 DEF Alone
    <3>3. Made(q)' = Made(q) /\ LastCall(q)' = LastCall(q) /\ SwapLeaves(q)' = SwapLeaves(q)
      BY <1>1, <2>3, OthersKeep
    <3>4. pc[q] = "swapping" => xfer'[LastCall(q)] = xfer[LastCall(q)] BY <1>3, <3>1
    <3>5. \A x \in Call : x[1] = q => xfer'[x] = xfer[x] BY <1>3, <1>5, <1>7, <2>3
    <3> QED BY <3>2, <3>3, <3>4, <3>5 DEF CallInv, SwapsCalled, Open
  <2> QED BY <2>1, <2>2, <2>3
<1>15. Carried'
  <2>1. \A x \in Incoming \cup Deposits : xfer'[x] = xfer[x] BY <1>3, <1>5, CallsAreTransfers
  <2> QED BY <2>1 DEF CallInv, Carried
<1>16. CallInv' BY <1>10, <1>11, <1>12, <1>13, <1>14, <1>15 DEF CallInv
<1>17. \A x \in Xfer : (x \in Call => x[1] # p) => xfer'[x] = xfer[x] BY <1>3, <1>5
<1>18. \A l \in Flat(bs) : \E x \in Call : x[1] = p /\ Open(x)' /\ l \in xfer'[x].leaves
  BY <1>4, <1>5 DEF Open
<1> QED BY <1>1, <1>9, <1>16, <1>17, <1>18

\* An operation p calls about the leaves of bs, and frees those of freed.
CallsAbout(p, kind, bs, freed) ==
  /\ Calls(p, kind, bs) /\ Alone(p) /\ UNCHANGED so
  /\ pc[p] \in {"renew", "swap"} /\ pc'[p] = IF kind = "swap" THEN "swapping" ELSE "exec"
  /\ \A i, j \in DOMAIN bs : i # j => bs[i] \cap bs[j] = {}
  /\ kind = "swap" => pc[p] = "swap" /\ bs = <<SwapLeaves(p)>> /\ UNCHANGED <<batches, step>>
  /\ Flat(bs) \cup freed \subseteq Untouched(p) /\ Flat(bs) \cap freed = {}
  /\ Flat(bs) \subseteq Holds(p)' /\ Holds(p)' \subseteq Holds(p) \ freed
  /\ Untouched(p)' \subseteq Untouched(p) \ Flat(bs)
  /\ \A i, j \in DOMAIN batches'[p] : i # j => batches'[p][i] \cap batches'[p][j] = {}
  /\ \A l \in Holds(p)' : cache'[l].status = "LOCAL_LOCKED" => l \in Untouched(p)' \cup Flat(bs)
  /\ \A l \in Leaf :
       IF l \in freed THEN cache'[l] = [status |-> "AVAILABLE", source |-> NoSource]
       ELSE IF l \in Flat(bs)
       THEN cache'[l].status = "LOCAL_LOCKED" /\ (kind = "send" => cache'[l].source.kind # "swap")
       ELSE cache'[l] = cache[l]

\* So the leaves that it calls about leave, and those that it frees are available.
LEMMA CallsKeep ==
  ASSUME TInv, Undisturbed, OInv, NEW p \in Callers, NEW kind \in {"send", "swap"},
         NEW bs \in Seq(SUBSET Leaf), NEW freed \in SUBSET Leaf, CallsAbout(p, kind, bs, freed)
  PROVE  OInv'
<1>0. p \in Op BY DEF Op
<1>1. \A l \in Untouched(p) : /\ l \in Leaf /\ l \in Holds(p) /\ Free(l)
                              /\ \A q \in Callers \ {p} : l \notin Holds(q)
                              /\ \A q \in Op : l \notin Coming(q)
  <2>1. Untouched(p) \subseteq Holds(p) /\ Holds(p) \subseteq Leaf
    BY HoldsType DEF TInv, Untouched, Holds, Flat
  <2> QED BY <2>1 DEF OInv, LeafInv, UntouchedFree, NoDoubleSelection, ArriveInv, Arrivals
<1> USE DEF CallsAbout
<1>2. \A l \in Flat(bs) : ~Called(l) BY <1>1 DEF Free
<1>3. /\ CallInv'
      /\ \A x \in Xfer : (x \in Call => x[1] # p) => xfer'[x] = xfer[x]
      /\ \A l : /\ Called(l)' <=> Called(l) \/ l \in Flat(bs)
                /\ Taken(l)' <=> Taken(l)
      /\ \A l \in Flat(bs) : \E x \in Call : x[1] = p /\ Open(x)' /\ l \in xfer'[x].leaves
      /\ \A q \in Callers \ {p} : LastCall(q)' = LastCall(q)
  BY <1>2, CallsMade DEF OInv
<1>4. \A q \in Op \ {p} : Coming(q)' = Coming(q)
  <2> SUFFICES ASSUME NEW q \in Op, q # p PROVE Coming(q)' = Coming(q) OBVIOUS
  <2>1. q \in Callers /\ pc[q] \in {"ssp", "landed"} => LastCall(q) \in Call /\ LastCall(q)[1] = q
    BY LastCallIs DEF OInv, CallInv, SwapsCalled, LastCall
  <2>2. q \in Callers /\ pc[q] \in {"ssp", "landed"} => xfer'[LastCall(q)] = xfer[LastCall(q)]
    BY <1>3, <2>1, CallsAreTransfers
  <2> QED BY <1>3, <2>2, OthersAwait
<1>5. Coming(p)' = {} BY DEF Coming
<1>6. \A l \in Leaf : Lawful(p, {}, freed, Flat(bs), l) BY DEF Lawful, NoSource
<1>7. \A l \in Holds(p)' : cache'[l].status = "LOCAL_LOCKED" => l \in Untouched(p)' \/ Leaving(p, l)'
  <2> SUFFICES ASSUME NEW l \in Flat(bs), l \notin freed PROVE Leaving(p, l)'
    OBVIOUS
  <2>1. CASE kind = "swap"
    <3>1. bs = <<SwapLeaves(p)>> /\ SwapLeaves(p)' = SwapLeaves(p) BY <2>1 DEF SwapLeaves, Holds
    <3>2. l \in SwapLeaves(p)' BY <3>1, FlatBatches
    <3> QED BY <2>1, <3>2 DEF Leaving, At
  <2>2. CASE kind = "send"
    <3>1. l \in Leaf BY <1>1
    <3>2. cache'[l].source.kind # "swap" BY <2>2, <3>1
    <3>3. PICK x \in Call : x[1] = p /\ Open(x)' /\ l \in xfer'[x].leaves BY <1>3
    <3> QED BY <2>2, <3>2, <3>3 DEF Leaving, At
  <2> QED BY <2>1, <2>2
<1>8. Updates(p, {}, freed, Flat(bs))
  <2>1. \A x \in Call : x[1] # p => xfer'[x] = xfer[x] BY <1>3, CallsAreTransfers
  <2>2. \A l \in freed : /\ so[l] = "avail" /\ ~Called(l) /\ l \notin Coming(p)'
                         /\ \A q \in Callers \ {p} : l \notin Holds(q)
                         /\ \A q \in Op \ {p} : l \notin Coming(q)
    BY <1>1, <1>5 DEF Free
  <2> QED BY <1>3, <1>4, <1>5, <1>6, <1>7, <2>1, <2>2 DEF Updates
<1>9. Flat(bs) \in SUBSET Leaf BY <1>1
<1>10. LeafInv' /\ Arrivals' /\ ArriveApart' BY <1>0, <1>8, <1>9, UpdateKeeps DEF OInv, ArriveInv
<1>11. \A x \in Deposits : xfer'[x] = xfer[x] BY <1>3, CallsAreTransfers
<1>12. Confirmed' BY <1>11 DEF OInv, ArriveInv, Confirmed
<1> QED BY <1>3, <1>10, <1>12 DEF OInv, ArriveInv

\* A swap is asked for.
LEMMA SwapSendOrder ==
  ASSUME TInv, Undisturbed, OInv, NEW p \in Op, SwapSend(p)
  PROVE  OInv'
<1>0. p \in Callers BY DEF SwapSend, At, TInv, Control, Placed, Callers
<1>1. /\ pc[p] = "swap" /\ Goto(p, "swapping") /\ Calls(p, "swap", <<SwapLeaves(p)>>)
      /\ cache' = SourceUpdated(cache, SwapLeaves(p), SwapSource(<<p, Cardinality(Made(p)) + 1>>))
      /\ UNCHANGED <<batches, step, so>>
  BY DEF SwapSend, At
<1>2. Alone(p) /\ pc'[p] = "swapping" BY <1>1, MovesAlone DEF TInv
<1>3. SwapLeaves(p) \subseteq Untouched(p) /\ Untouched(p)' \subseteq Untouched(p) \ SwapLeaves(p)
      /\ Untouched(p) \subseteq Untouched(p)' \cup SwapLeaves(p)
  <2>1. CASE p \in Optimizer
    <3>1. step[p] \in DOMAIN batches[p] /\ step[p] \in Nat
      BY <1>1, <2>1 DEF TInv, TypeOK, Control, Placed
    <3>2. batches[p] \in Seq(SUBSET Leaf) BY <1>0 DEF TInv, TypeOK
    <3>3. \A i \in DOMAIN batches[p] : i > step[p] => batches[p][i] \cap batches[p][step[p]] = {}
      BY <1>0, <3>1, <3>2 DEF OInv, LeafInv, BatchesApart
    <3>4. Untouched(p)' = UNION {batches[p][i] : i \in {j \in DOMAIN batches[p] : j > step[p]}}
      BY <1>1, <1>2, <2>1 DEF Untouched, At
    <3>5. Untouched(p) = UNION {batches[p][i] : i \in {j \in DOMAIN batches[p] : j > step[p] \/ j = step[p]}}
      BY <1>1, <2>1 DEF Untouched, At
    <3>6. SwapLeaves(p) = batches[p][step[p]] BY <2>1 DEF SwapLeaves
    <3> QED BY <3>1, <3>2, <3>3, <3>4, <3>5, <3>6
  <2>2. CASE p \notin Optimizer
    BY <1>1, <1>2, <2>2 DEF SwapLeaves, Untouched
  <2> QED BY <2>1, <2>2
<1>4. Holds(p)' = Holds(p) BY <1>1 DEF Holds
<1>5. Untouched(p) \subseteq Holds(p) /\ Holds(p) \subseteq Leaf
  BY <1>0, HoldsType DEF TInv, Untouched, Holds, Flat
<1>6. \A l \in Untouched(p) : cache[l].status = "LOCAL_LOCKED" BY <1>0 DEF OInv, LeafInv, UntouchedFree
<1>7. \A l \in Leaf : IF l \in SwapLeaves(p) THEN cache'[l].status = "LOCAL_LOCKED" ELSE cache'[l] = cache[l]
  BY <1>1, <1>3, <1>6 DEF SourceUpdated, TInv, TypeOK, Cache, LeafRecord
<1>8. \A x \in Call : x[1] = p => ~Open(x) BY <1>1, OpenAt DEF OInv
<1>9. \A l \in Holds(p)' : cache'[l].status = "LOCAL_LOCKED" => l \in Untouched(p)' \cup SwapLeaves(p)
  <2>1. \A l \in Holds(p) : cache[l].status = "LOCAL_LOCKED" => l \in Untouched(p)
    BY <1>0, <1>1, <1>8, LockedUntouched DEF At
  <2> QED BY <1>3, <1>4, <1>5, <1>7, <2>1
<1>10. \A i, j \in DOMAIN batches'[p] : i # j => batches'[p][i] \cap batches'[p][j] = {}
  BY <1>0, <1>1 DEF OInv, LeafInv, BatchesApart
<1>11. Flat(<<SwapLeaves(p)>>) = SwapLeaves(p) BY FlatBatches
<1>12. <<SwapLeaves(p)>> \in Seq(SUBSET Leaf)
  <2>1. SwapLeaves(p) \in SUBSET Leaf BY <1>3, <1>5
  <2> QED BY <2>1
<1>13. {} \in SUBSET Leaf OBVIOUS
<1>14. CallsAbout(p, "swap", <<SwapLeaves(p)>>, {})
  BY <1>1, <1>2, <1>3, <1>4, <1>5, <1>7, <1>9, <1>10, <1>11, OneBatch DEF CallsAbout
<1> QED BY <1>0, <1>12, <1>13, <1>14, CallsKeep

\* The executor of a Sender starts its calls.
LEMMA ExecuteSenderOrder ==
  ASSUME TInv, Undisturbed, OInv, NEW p \in Op, ExecuteSender(p)
  PROVE  OInv'
<1>0. p \in Callers /\ p \notin Optimizer /\ pc[p] = "renew"
  BY SendersDoNotOptimize DEF ExecuteSender, Callers, At
<1>1. UNCHANGED <<cache, batches, step, so>> BY DEF ExecuteSender
<1>2. Executor[p] \in {"transfer", "invoice"} BY DEF Undisturbed, ExecuteSender
<1>3. Goto(p, "exec") /\ \E bs \in {<<Holds(p)>>, batches[p]} : Calls(p, "send", bs)
  BY <1>2 DEF ExecuteSender
<1>4. PICK bs \in {<<Holds(p)>>, batches[p]} : Calls(p, "send", bs) BY <1>3
<1>5. Alone(p) /\ pc'[p] = "exec" BY <1>1, <1>3, MovesAlone DEF TInv
<1>6. Holds(p) \in SUBSET Leaf BY <1>0, HoldsType DEF TInv
<1>7. bs \in Seq(SUBSET Leaf)
  <2>1. batches[p] \in Seq(SUBSET Leaf) BY <1>0 DEF TInv, TypeOK
  <2>2. <<Holds(p)>> \in Seq(SUBSET Leaf) BY <1>6
  <2> QED BY <2>1, <2>2
<1>8. Flat(bs) = Holds(p) BY FlatBatches DEF Holds
<1>9. \A i, j \in DOMAIN batches[p] : i # j => batches[p][i] \cap batches[p][j] = {}
  BY <1>0 DEF OInv, LeafInv, BatchesApart
<1>10. \A i, j \in DOMAIN bs : i # j => bs[i] \cap bs[j] = {}
  <2>1. CASE bs = <<Holds(p)>> BY <2>1, OneBatch
  <2>2. CASE bs = batches[p] BY <1>9, <2>2
  <2> QED BY <2>1, <2>2
<1>11. Untouched(p) = Holds(p) /\ Untouched(p)' = {} /\ Holds(p)' = Holds(p)
  BY <1>0, <1>1, <1>5 DEF Untouched, Holds
<1>12. \A l \in Holds(p) : cache[l].status = "LOCAL_LOCKED" /\ cache[l].source.kind # "swap"
  BY <1>0, <1>11 DEF OInv, LeafInv, UntouchedFree, Free
<1>13. {} \in SUBSET Leaf OBVIOUS
<1>14. CallsAbout(p, "send", bs, {})
  BY <1>0, <1>1, <1>4, <1>5, <1>8, <1>9, <1>10, <1>11, <1>12 DEF CallsAbout
<1> QED BY <1>0, <1>7, <1>13, <1>14, CallsKeep

\* That of a Sweeper frees what the renewal dropped.
LEMMA ExecuteSweeperOrder ==
  ASSUME TInv, Undisturbed, OInv, NEW p \in Op, ExecuteSweeper(p)
  PROVE  OInv'
<1>0. p \in Callers /\ p \notin Optimizer /\ pc[p] = "renew"
  BY SendersDoNotOptimize DEF ExecuteSweeper, Callers, At
<1>1. PICK kept \in Kept(Holds(p)) : /\ cache' = Restored(cache, Holds(p) \ kept)
                                     /\ batches' = [batches EXCEPT ![p] = <<kept>>]
                                     /\ Calls(p, "send", <<kept>>)
  BY DEF ExecuteSweeper
<1>2. Goto(p, "exec") /\ UNCHANGED <<step, so>> BY DEF ExecuteSweeper
<1>3. Alone(p) /\ pc'[p] = "exec" BY <1>0, <1>1, <1>2, MovesAlone DEF TInv
<1>4. batches'[p] = <<kept>> BY <1>0, <1>1 DEF TInv, TypeOK
<1>5. kept \subseteq Holds(p) /\ Holds(p) \subseteq Leaf
  BY <1>0, HoldsType DEF TInv, Kept
<1>6. Flat(<<kept>>) = kept /\ Holds(p)' = kept BY <1>4, FlatBatches DEF Holds
<1>7. Untouched(p) = Holds(p) /\ Untouched(p)' = {} BY <1>0, <1>3 DEF Untouched
<1>8. \A l \in Holds(p) : cache[l].status = "LOCAL_LOCKED" /\ cache[l].source.kind # "swap"
  BY <1>0, <1>7 DEF OInv, LeafInv, UntouchedFree, Free
<1>9. \A l \in Leaf :
        IF l \in Holds(p) \ kept THEN cache'[l] = [status |-> "AVAILABLE", source |-> NoSource]
        ELSE cache'[l] = cache[l]
  BY <1>1, <1>8 DEF Restored, TInv, TypeOK
<1>10. \A l \in Leaf :
         IF l \in Holds(p) \ kept THEN cache'[l] = [status |-> "AVAILABLE", source |-> NoSource]
         ELSE IF l \in kept THEN cache'[l].status = "LOCAL_LOCKED" /\ cache'[l].source.kind # "swap"
         ELSE cache'[l] = cache[l]
  BY <1>5, <1>8, <1>9
<1>11. <<kept>> \in Seq(SUBSET Leaf) BY <1>5
<1>12. Holds(p) \ kept \in SUBSET Leaf BY <1>5
<1>13. \A i, j \in DOMAIN batches'[p] : i # j => batches'[p][i] \cap batches'[p][j] = {}
  BY <1>4, OneBatch
<1>14. CallsAbout(p, "send", <<kept>>, Holds(p) \ kept)
  BY <1>0, <1>1, <1>2, <1>3, <1>5, <1>6, <1>7, <1>10, <1>13, OneBatch DEF CallsAbout
<1> QED BY <1>0, <1>11, <1>12, <1>14, CallsKeep
-----------------------------------------------------------------------------
\* Leaves that the operators took leave the cache, or are marked in it.
LEMMA LeavingKeeps ==
  ASSUME TInv, Undisturbed, OInv, NEW p \in Callers, Alone(p), UNCHANGED <<so, batches, step>>, CallInv',
         \A x \in Xfer : /\ xfer'[x].kind = xfer[x].kind /\ xfer'[x].leaves = xfer[x].leaves
                         /\ xfer'[x].st = xfer[x].st /\ xfer'[x].new = xfer[x].new
                         /\ xfer'[x].call = "sent" <=> xfer[x].call = "sent"
                         /\ x \in Call /\ x[1] # p => xfer'[x].call = xfer[x].call,
         \A l \in Leaf : cache'[l] = cache[l]
                         \/ (Taken(l) /\ cache'[l].status \in {"NONE", "OUTGOING", "SWAP_PENDING"}),
         \A l \in Holds(p) : cache'[l].status = "LOCAL_LOCKED" => l \in Untouched(p)' \/ Leaving(p, l)',
         Untouched(p)' \subseteq Untouched(p),
         pc'[p] = pc[p] \/ Coming(p)' = {}
  PROVE  OInv'
<1>0. p \in Op BY DEF Op
<1>1. Call \subseteq Xfer /\ Deposits \subseteq Xfer BY CallsAreTransfers
<1>2. \A q \in Callers : LastCall(q)' = LastCall(q) BY <1>1, NumbersKept
<1>3. \A q \in Op : q \in Callers /\ pc[q] \in {"ssp", "landed"}
                      => LastCall(q) \in Xfer /\ xfer'[LastCall(q)].new = xfer[LastCall(q)].new
  BY <1>1, LastCallIs DEF OInv, CallInv, SwapsCalled
<1>4. \A q \in Op \ {p} : Coming(q)' = Coming(q) BY <1>2, <1>3, OthersAwait
<1>5. pc'[p] = pc[p] => Coming(p)' = Coming(p) BY <1>0, <1>2, <1>3 DEF Coming
<1>6. \A l \in Leaf : /\ Called(l)' => Called(l)
                      /\ Taken(l)' <=> Taken(l)
                      /\ Lawful(p, {}, {}, {}, l)
  <2> TAKE l \in Leaf
  <2>1. Called(l)' => Called(l) BY <1>1 DEF Called
  <2>2. Taken(l)' <=> Taken(l) BY <1>1 DEF Taken
  <2> QED BY <2>1, <2>2 DEF Lawful
<1>7. pc'[p] \in {"landed", "register", "verified"} => \A l \in Coming(p)' : so[l] = "avail"
  BY <1>0, <1>5 DEF OInv, ArriveInv, Arrivals
<1>8. Holds(p)' = Holds(p) BY DEF Holds
<1>9. \A i, j \in DOMAIN batches'[p] : i # j => batches'[p][i] \cap batches'[p][j] = {}
  BY DEF OInv, LeafInv, BatchesApart
<1>10. \A x \in Call : x[1] # p => xfer'[x].call = xfer[x].call /\ xfer'[x].leaves = xfer[x].leaves
  BY <1>1
<1>11. Updates(p, {}, {}, {}) BY <1>4, <1>5, <1>6, <1>7, <1>8, <1>9, <1>10 DEF Updates
<1>12. {} \in SUBSET Leaf OBVIOUS
<1>13. LeafInv' /\ Arrivals' /\ ArriveApart' BY <1>0, <1>11, <1>12, UpdateKeeps DEF OInv, ArriveInv
<1>14. Confirmed' BY <1>1 DEF OInv, ArriveInv, Confirmed
<1> QED BY <1>13, <1>14 DEF OInv, ArriveInv

\* A call is answered, and p is done with it.
LEMMA CallEnds ==
  ASSUME TInv, Undisturbed, CallInv, NEW x \in Call, xfer[x].call = "accepted", CallOver(x),
         Alone(x[1]), UNCHANGED <<batches, step>>,
         IF xfer[x].kind = "swap" THEN pc'[x[1]] = "ssp" ELSE UNCHANGED pc
  PROVE  /\ CallInv'
         /\ \A y \in Xfer : /\ xfer'[y].kind = xfer[y].kind /\ xfer'[y].leaves = xfer[y].leaves
                            /\ xfer'[y].st = xfer[y].st /\ xfer'[y].new = xfer[y].new
                            /\ xfer'[y].call = "sent" <=> xfer[y].call = "sent"
                            /\ y # x => xfer'[y] = xfer[y]
         /\ xfer[x].kind \in {"send", "swap"} /\ xfer[x].st # "none" /\ ~Open(x)'
<1>0. x[1] \in Callers /\ x \in Xfer /\ \A q \in Callers : q \in Op BY CallsAreTransfers DEF Op
<1>1. xfer' = [xfer EXCEPT ![x].call = "over"] /\ xfer \in [Xfer -> Transfer]
  BY DEF CallOver, TInv, TypeOK
<1>2. \A y \in Xfer : y # x => xfer'[y] = xfer[y] BY <1>0, <1>1
<1>3. PICK t \in Transfer : t = xfer[x] BY <1>0, <1>1
<1>4. /\ xfer'[x].kind = xfer[x].kind /\ xfer'[x].leaves = xfer[x].leaves
      /\ xfer'[x].st = xfer[x].st /\ xfer'[x].new = xfer[x].new /\ xfer'[x].call = "over"
  BY <1>0, <1>1, <1>3 DEF Transfer
<1>5. xfer[x].kind \in {"send", "swap"} /\ xfer[x].st # "none"
  BY DEF CallInv, CallsSound, NoTransfer, NewTransfer
<1>6. ~Open(x)' BY <1>4 DEF Open
<1>7. Call \subseteq Xfer /\ Incoming \subseteq Xfer /\ Deposits \subseteq Xfer /\ x \notin Incoming \cup Deposits
  BY CallsAreTransfers
<1>8. \A y \in Call : /\ xfer'[y].kind = xfer[y].kind /\ xfer'[y].leaves = xfer[y].leaves
                      /\ xfer'[y].st = xfer[y].st /\ xfer'[y].new = xfer[y].new
                      /\ Open(y)' => y # x /\ Open(y)
                      /\ xfer'[y].call = "sent" => y # x /\ xfer[y].call = "sent"
  BY <1>2, <1>4, <1>7 DEF Open
<1>9. Quiet' BY <1>0, <1>5 DEF CallInv, Quiet, Alone, Callers
<1>10. /\ \A q \in Callers : Made(q)' = Made(q) /\ LastCall(q)' = LastCall(q)
       /\ Numbered'
  BY <1>8, NumbersKept DEF CallInv
<1>11. CallsSound'
  <2> SUFFICES ASSUME NEW y \in Call
               PROVE  /\ xfer'[y].kind \in {"none", "send", "swap"}
                      /\ xfer'[y].kind = "none" => xfer'[y] = NoTransfer
                      /\ xfer'[y].kind # "none" => (xfer'[y].call = "sent" <=> xfer'[y].st = "none")
                      /\ xfer'[y].call # "refused" /\ xfer'[y].st # "returned"
                      /\ xfer'[y].st \in {"none", "initiated"} => xfer'[y].new = {}
                      /\ Open(y)' => /\ pc'[y[1]] = IF xfer'[y].kind = "swap" THEN "swapping" ELSE "exec"
                                     /\ xfer'[y].leaves \subseteq Holds(y[1])'
    BY DEF CallsSound
  <2>1. /\ xfer[y].kind \in {"none", "send", "swap"}
        /\ xfer[y].kind = "none" => xfer[y] = NoTransfer
        /\ xfer[y].kind # "none" => (xfer[y].call = "sent" <=> xfer[y].st = "none")
        /\ xfer[y].call # "refused" /\ xfer[y].st # "returned"
        /\ xfer[y].st \in {"none", "initiated"} => xfer[y].new = {}
    BY DEF CallInv, CallsSound
  <2>2. CASE y = x
    BY <1>4, <1>5, <1>6, <2>1, <2>2
  <2>3. CASE y # x
    <3>1. xfer'[y] = xfer[y] /\ y[1] \in Callers BY <1>2, <1>7, <2>3, CallsAreTransfers
    <3>2. Holds(y[1])' = Holds(y[1]) BY DEF Holds
    <3>3. ASSUME Open(y) PROVE pc'[y[1]] = pc[y[1]]
      <4>1. CASE y[1] # x[1] BY <1>0, <3>1, <3>3, <4>1 DEF CallInv, CallsSound, Alone
      <4>2. CASE y[1] = x[1] /\ xfer[x].kind = "swap"
        <5>1. Open(x) BY DEF Open
        <5>2. pc[x[1]] = "swapping" BY <4>2, <5>1 DEF CallInv, CallsSound
        <5> QED BY <1>0, <2>3, <3>3, <4>2, <5>1, <5>2 DEF CallInv, SwapsCalled
      <4>3. CASE xfer[x].kind # "swap" BY <4>3
      <4> QED BY <4>1, <4>2, <4>3
    <3>4. Open(y)' => Open(y) BY <3>1 DEF Open
    <3> QED BY <2>1, <3>1, <3>2, <3>3, <3>4 DEF CallInv, CallsSound
  <2> QED BY <2>2, <2>3
<1>12. CallsApart' BY <1>8 DEF CallInv, CallsApart
<1>13. SwapsCalled'
  <2> SUFFICES ASSUME NEW q \in Callers
               PROVE  /\ pc'[q] \in {"swapping", "ssp", "landed"} => Made(q)' # {}
                      /\ pc'[q] = "swapping" => /\ xfer'[LastCall(q)'].leaves = SwapLeaves(q)'
                                               /\ xfer'[LastCall(q)'].new = {}
                                               /\ \A y \in Call : y[1] = q /\ Open(y)' => y = LastCall(q)'
                      /\ q \in Optimizer /\ pc'[q] \in {"swapping", "ssp", "landed"}
                           => step'[q] \in DOMAIN batches'[q]
    BY DEF SwapsCalled
  <2>1. SwapLeaves(q)' = SwapLeaves(q) BY DEF SwapLeaves, Holds
  <2>2. pc'[q] \in {"swapping", "landed"} => pc'[q] = pc[q]
    BY <1>0 DEF Alone
  <2>3. pc'[q] = "ssp" => pc[q] \in {"swapping", "ssp"}
    <3>1. CASE q = x[1] /\ xfer[x].kind = "swap"
      <4>1. Open(x) BY DEF Open
      <4> QED BY <3>1, <4>1 DEF CallInv, CallsSound
    <3>2. CASE q # x[1] \/ xfer[x].kind # "swap" BY <1>0, <3>2 DEF Alone
    <3> QED BY <3>1, <3>2
  <2>4. pc'[q] \in {"swapping", "ssp", "landed"} => pc[q] \in {"swapping", "ssp", "landed"}
    BY <2>2, <2>3
  <2>5. pc[q] = "swapping" => LastCall(q) \in Call BY LastCallIs DEF CallInv, SwapsCalled
  <2> QED BY <1>8, <1>10, <2>1, <2>2, <2>4, <2>5 DEF CallInv, SwapsCalled
<1>14. Carried' BY <1>2, <1>7 DEF CallInv, Carried
<1>15. CallInv' BY <1>9, <1>10, <1>11, <1>12, <1>13, <1>14 DEF CallInv
<1>16. \A y \in Xfer : /\ xfer'[y].kind = xfer[y].kind /\ xfer'[y].leaves = xfer[y].leaves
                       /\ xfer'[y].st = xfer[y].st /\ xfer'[y].new = xfer[y].new
                       /\ xfer'[y].call = "sent" <=> xfer[y].call = "sent"
  BY <1>2, <1>4
<1> QED BY <1>2, <1>5, <1>6, <1>15, <1>16

\* What an event of a transfer that goes on does to the cache.
LEMMA EventIs ==
  ASSUME TInv, NEW S, NEW x, NEW isSwap \in BOOLEAN, NEW status \in {"initiated", "tweaked", "completed"},
         cache' = TransferEvent(cache, S, x, isSwap, status)
  PROVE  \A l \in Leaf :
           /\ cache'[l] = cache[l] \/ (l \in S /\ cache'[l].status \in {"NONE", "OUTGOING", "SWAP_PENDING"})
           /\ l \in S /\ cache[l].status = "LOCAL_LOCKED" /\ cache[l].source.kind # "swap"
                => cache'[l].status # "LOCAL_LOCKED"
<1> DEFINE active == {l \in S : ~ReclaimedFrom(cache, l, x)}
<1>1. CASE status = "initiated"
  <2>1. PICK to \in {"OUTGOING", "SWAP_PENDING"} : cache' = transitionFrom(cache, active, to, TransferSource(x))
    BY <1>1 DEF TransferEvent, SENDER_PENDING
  <2> QED BY <2>1 DEF transitionFrom, Moved, VALID_TRANSITIONS, ReclaimedFrom, TInv, TypeOK
<1>2. CASE status # "initiated"
  <2>1. cache' = transition(cache, {l \in active : cache[l].source.kind # "swap"}, "SPENT")
    BY <1>2 DEF TransferEvent, SENDER_PENDING
  <2> QED BY <2>1 DEF transition, Moved, VALID_TRANSITIONS, ReclaimedFrom, NoRecord, TInv, TypeOK
<1> QED BY <1>1, <1>2

\* The operators accepted a swap.
LEMMA SwapInitiatedOrder ==
  ASSUME TInv, Undisturbed, OInv, NEW p \in Op, SwapInitiated(p)
  PROVE  OInv'
<1>0. p \in Callers /\ pc[p] = "swapping"
  BY DEF SwapInitiated, At, TInv, Control, Placed, Callers
<1>1. PICK x \in Call : x = LastCall(p) /\ x[1] = p
  BY <1>0, LastCallIs DEF OInv, CallInv, SwapsCalled, LastCall
<1>2. /\ Goto(p, "ssp") /\ CallOver(x) /\ xfer[x].call = "accepted"
      /\ cache' = transition(cache, SwapLeaves(p), "SWAP_PENDING") /\ UNCHANGED <<batches, step, so>>
  BY <1>1 DEF SwapInitiated
<1>3. Alone(p) /\ pc'[p] = "ssp" BY <1>2, MovesAlone DEF TInv
<1>4. /\ xfer[x].leaves = SwapLeaves(p) /\ xfer[x].new = {}
      /\ \A y \in Call : y[1] = p /\ Open(y) => y = x
  BY <1>0, <1>1 DEF OInv, CallInv, SwapsCalled
<1>5. xfer[x].kind = "swap"
  <2>1. Open(x) BY <1>2 DEF Open
  <2> QED BY <1>0, <1>1, <2>1 DEF OInv, CallInv, CallsSound
<1>6. /\ CallInv'
      /\ \A y \in Xfer : /\ xfer'[y].kind = xfer[y].kind /\ xfer'[y].leaves = xfer[y].leaves
                         /\ xfer'[y].st = xfer[y].st /\ xfer'[y].new = xfer[y].new
                         /\ xfer'[y].call = "sent" <=> xfer[y].call = "sent"
                         /\ y # x => xfer'[y] = xfer[y]
      /\ xfer[x].kind \in {"send", "swap"} /\ xfer[x].st # "none" /\ ~Open(x)'
  <2>1. CallInv /\ Alone(x[1]) /\ pc'[x[1]] = "ssp" BY <1>1, <1>3 DEF OInv
  <2> QED BY <1>2, <1>5, <2>1, CallEnds
<1>7. \A l \in Leaf : l \in SwapLeaves(p) => Taken(l) BY <1>4, <1>6 DEF Taken
<1>8. \A l \in Leaf : cache'[l] = cache[l]
                      \/ (Taken(l) /\ cache'[l].status \in {"NONE", "OUTGOING", "SWAP_PENDING"})
  BY <1>2, <1>7 DEF transition, Moved, TInv, TypeOK
<1>9. Holds(p) \subseteq Leaf BY <1>0, HoldsType DEF TInv
<1>10. Untouched(p)' = Untouched(p)
  <2>1. At(p, "swap") <=> At(p, "swap")' BY <1>0, <1>3 DEF At
  <2> QED BY <1>0, <1>2, <1>3, <2>1 DEF Untouched
<1>11. ASSUME NEW l \in Holds(p), cache'[l].status = "LOCAL_LOCKED" PROVE l \in Untouched(p)'
  <2>1. l \in Leaf /\ cache'[l] = cache[l] BY <1>8, <1>9, <1>11
  <2>2. l \notin SwapLeaves(p) BY <1>2, <1>11, <2>1 DEF transition, Moved, VALID_TRANSITIONS
  <2>3. ~Leaving(p, l) BY <1>0, <2>2 DEF Leaving, At
  <2> QED BY <1>0, <1>10, <1>11, <2>1, <2>3 DEF OInv, LeafInv, LockedMeans
<1>12. Coming(p)' = {}
  <2>1. LastCall(p)' = LastCall(p)
    <3>1. \A y \in Call : xfer'[y].kind = xfer[y].kind BY <1>6, CallsAreTransfers
    <3> QED BY <1>0, <3>1, NumbersKept
  <2>2. Coming(p)' = xfer'[LastCall(p)'].new BY <1>0, <1>3 DEF Coming
  <2>3. xfer'[x].new = {} BY <1>4, <1>6, CallsAreTransfers
  <2> QED BY <1>1, <2>1, <2>2, <2>3
<1>13. \A y \in Call : y[1] # p => xfer'[y].call = xfer[y].call BY <1>1, <1>6, CallsAreTransfers
<1> QED BY <1>0, <1>2, <1>3, <1>6, <1>8, <1>10, <1>11, <1>12, <1>13, LeavingKeeps

\* The executor hears that a call was accepted.
LEMMA ExecutorSentOrder ==
  ASSUME TInv, Undisturbed, OInv, NEW p \in Op, ExecutorSent(p)
  PROVE  OInv'
<1>0. p \in Callers /\ p \notin Optimizer /\ pc[p] = "exec"
  BY SendersDoNotOptimize DEF ExecutorSent, At, TInv, Control, Placed, Callers
<1>1. PICK x \in CallsOf(p) :
        /\ xfer[x].call = "accepted" /\ xfer[x].kind = "send" /\ CallOver(x)
        /\ \E status \in {"initiated", "tweaked"} :
             cache' = TransferEvent(cache, xfer[x].leaves, x, FALSE, status)
  BY DEF ExecutorSent
<1>2. UNCHANGED <<pc, batches, step, so>> BY DEF ExecutorSent
<1>3. x \in Call /\ x[1] = p BY <1>0 DEF CallsOf, Call
<1>4. Alone(p) BY <1>2 DEF Alone
<1>5. /\ CallInv'
      /\ \A y \in Xfer : /\ xfer'[y].kind = xfer[y].kind /\ xfer'[y].leaves = xfer[y].leaves
                         /\ xfer'[y].st = xfer[y].st /\ xfer'[y].new = xfer[y].new
                         /\ xfer'[y].call = "sent" <=> xfer[y].call = "sent"
                         /\ y # x => xfer'[y] = xfer[y]
      /\ xfer[x].kind \in {"send", "swap"} /\ xfer[x].st # "none" /\ ~Open(x)'
  BY <1>1, <1>2, <1>3, <1>4, CallEnds DEF OInv
<1>6. \A l \in Leaf :
        /\ cache'[l] = cache[l]
           \/ (l \in xfer[x].leaves /\ cache'[l].status \in {"NONE", "OUTGOING", "SWAP_PENDING"})
        /\ l \in xfer[x].leaves /\ cache[l].status = "LOCAL_LOCKED" /\ cache[l].source.kind # "swap"
             => cache'[l].status # "LOCAL_LOCKED"
  <2>1. FALSE \in BOOLEAN OBVIOUS
  <2>2. PICK status \in {"initiated", "tweaked"} :
               cache' = TransferEvent(cache, xfer[x].leaves, x, FALSE, status)
    BY <1>1
  <2>3. status \in {"initiated", "tweaked", "completed"} OBVIOUS
  <2> QED BY <2>1, <2>2, <2>3, EventIs
<1>7. \A l \in Leaf : cache'[l] = cache[l]
                      \/ (Taken(l) /\ cache'[l].status \in {"NONE", "OUTGOING", "SWAP_PENDING"})
  BY <1>3, <1>5, <1>6 DEF Taken
<1>8. Holds(p) \subseteq Leaf BY <1>0, HoldsType DEF TInv
<1>9. Untouched(p) = {} /\ Untouched(p)' = {} BY <1>0, <1>2 DEF Untouched
<1>10. ASSUME NEW l \in Holds(p), cache'[l].status = "LOCAL_LOCKED" PROVE Leaving(p, l)'
  <2>1. l \in Leaf /\ cache'[l] = cache[l] BY <1>6, <1>8, <1>10
  <2>2. Leaving(p, l) BY <1>0, <1>9, <1>10, <2>1 DEF OInv, LeafInv, LockedMeans
  <2>3. cache[l].source.kind # "swap" BY <1>0, <2>2 DEF Leaving, At
  <2>4. PICK y \in Call : y[1] = p /\ Open(y) /\ l \in xfer[y].leaves BY <1>0, <2>2 DEF Leaving, At
  <2>5. y # x BY <1>6, <1>10, <2>1, <2>3, <2>4
  <2>6. xfer'[y] = xfer[y] BY <1>5, <2>5, CallsAreTransfers
  <2> QED BY <1>0, <1>2, <2>1, <2>3, <2>4, <2>6 DEF Leaving, At, Open
<1>11. \A y \in Call : y[1] # p => xfer'[y].call = xfer[y].call BY <1>3, <1>5, CallsAreTransfers
<1>12. pc'[p] = pc[p] BY <1>2
<1> QED BY <1>0, <1>2, <1>4, <1>5, <1>7, <1>9, <1>10, <1>11, <1>12, LeavingKeeps

\* The wallet hears of a transfer of its own, or misses the event.
LEMMA StreamOrder ==
  ASSUME TInv, Undisturbed, OInv, NEW x \in Xfer, Stream(x)
  PROVE  OInv'
<1>0. HasNews(x) /\ xfer' = [xfer EXCEPT ![x].heard = @ + 1] /\ UNCHANGED <<pc, batches, step, so>>
  BY DEF Stream, Hear, Miss
<1>1. x \in Call /\ x[1] \in Callers
  <2>1. xfer[x].kind \notin {"incoming", "deposit"} BY <1>0 DEF HasNews
  <2> QED BY <2>1, CallsAreTransfers DEF OInv, CallInv, Carried
<1>2. xfer[x].kind # "none" /\ xfer[x].st # "none" BY <1>0 DEF HasNews
<1>3. xfer \in [Xfer -> Transfer] BY DEF TInv, TypeOK
<1>4. \A y \in Xfer : y # x => xfer'[y] = xfer[y] BY <1>0, <1>3
<1>5. PICK t \in Transfer : t = xfer[x] BY <1>3
<1>6. /\ xfer'[x].kind = xfer[x].kind /\ xfer'[x].leaves = xfer[x].leaves
      /\ xfer'[x].st = xfer[x].st /\ xfer'[x].new = xfer[x].new /\ xfer'[x].call = xfer[x].call
  BY <1>0, <1>3, <1>5 DEF Transfer
<1>7. \A y \in Xfer : /\ xfer'[y].kind = xfer[y].kind /\ xfer'[y].leaves = xfer[y].leaves
                      /\ xfer'[y].st = xfer[y].st /\ xfer'[y].new = xfer[y].new
                      /\ xfer'[y].call = xfer[y].call
  BY <1>4, <1>6
<1>8. Call \subseteq Xfer /\ Incoming \subseteq Xfer /\ Deposits \subseteq Xfer BY CallsAreTransfers
<1>9. Alone(x[1]) BY <1>0 DEF Alone
<1>10. \A y \in Call : Open(y)' <=> Open(y) BY <1>7, <1>8 DEF Open
<1>11. CallInv'
  <2>1. Quiet' BY <1>0 DEF OInv, CallInv, Quiet
  <2>2. /\ \A q \in Callers : Made(q)' = Made(q) /\ LastCall(q)' = LastCall(q)
        /\ Numbered'
    BY <1>7, <1>8, NumbersKept DEF OInv, CallInv
  <2>3. \A q \in Callers : Holds(q)' = Holds(q) /\ SwapLeaves(q)' = SwapLeaves(q)
    BY <1>0 DEF Holds, SwapLeaves
  <2>4. CallsSound'
    <3>1. \A y \in Call : xfer'[y].kind = "none" => xfer'[y] = NoTransfer
      BY <1>2, <1>4, <1>7, <1>8 DEF OInv, CallInv, CallsSound
    <3>2. \A y \in Call : y[1] \in Callers BY CallsAreTransfers
    <3> QED BY <1>0, <1>7, <1>8, <1>10, <2>3, <3>1, <3>2 DEF OInv, CallInv, CallsSound
  <2>5. CallsApart' BY <1>7, <1>8 DEF OInv, CallInv, CallsApart
  <2>6. SwapsCalled'
    <3>1. \A q \in Callers : pc[q] = "swapping" => LastCall(q) \in Xfer
      BY <1>8, LastCallIs DEF OInv, CallInv, SwapsCalled
    <3> QED BY <1>0, <1>7, <1>10, <2>2, <2>3, <3>1 DEF OInv, CallInv, SwapsCalled
  <2>7. Carried' BY <1>7, <1>8 DEF OInv, CallInv, Carried
  <2> QED BY <2>1, <2>2, <2>4, <2>5, <2>6, <2>7 DEF CallInv
<1>12. \A l \in Leaf : cache'[l] = cache[l]
                       \/ (l \in xfer[x].leaves /\ cache'[l].status \in {"NONE", "OUTGOING", "SWAP_PENDING"})
  <2>1. CASE Hear(x)
    <3>1. xfer[x].st \in {"initiated", "tweaked", "completed"}
      BY <1>1, <1>2, <1>5 DEF Transfer, OInv, CallInv, CallsSound
    <3>2. \E status \in {"initiated", "tweaked", "completed"} :
            cache' = TransferEvent(cache, xfer[x].leaves, x, xfer[x].kind = "swap", status)
      BY <2>1, <3>1 DEF Hear
    <3>3. (xfer[x].kind = "swap") \in BOOLEAN OBVIOUS
    <3> QED BY <3>2, <3>3, EventIs
  <2>2. CASE Miss(x) BY <2>2 DEF Miss
  <2> QED BY <2>1, <2>2 DEF Stream
<1>13. \A l \in Leaf : cache'[l] = cache[l]
                       \/ (Taken(l) /\ cache'[l].status \in {"NONE", "OUTGOING", "SWAP_PENDING"})
  BY <1>1, <1>2, <1>12 DEF Taken
<1>14. PICK p \in Callers : p = x[1] BY <1>1
<1>15. Untouched(p)' = Untouched(p) BY <1>0 DEF Untouched, Holds, At
<1>16. ASSUME NEW l \in Holds(p), cache'[l].status = "LOCAL_LOCKED"
       PROVE  l \in Untouched(p)' \/ Leaving(p, l)'
  <2>1. l \in Leaf BY HoldsType DEF TInv
  <2>2. cache'[l] = cache[l] BY <1>13, <1>16, <2>1
  <2>3. l \in Untouched(p) \/ Leaving(p, l) BY <1>16, <2>1, <2>2 DEF OInv, LeafInv, LockedMeans
  <2>4. Leaving(p, l) => Leaving(p, l)'
    <3>1. SwapLeaves(p)' = SwapLeaves(p) BY <1>0 DEF SwapLeaves, Holds
    <3>2. \A y \in Call : xfer'[y].leaves = xfer[y].leaves BY <1>7, <1>8
    <3> QED BY <1>0, <1>10, <2>2, <3>1, <3>2 DEF Leaving, At
  <2> QED BY <1>15, <2>3, <2>4
<1>17. pc'[p] = pc[p] BY <1>0
<1>18. \A y \in Xfer : xfer'[y].call = "sent" <=> xfer[y].call = "sent" BY <1>7
<1> QED BY <1>0, <1>7, <1>9, <1>11, <1>13, <1>14, <1>15, <1>16, <1>17, <1>18, LeavingKeeps
-----------------------------------------------------------------------------
(***************************************************************************)
(* The operators change the state of some leaves and of one transfer: they *)
(* take leaves that are called about, make available what comes in, and    *)
(* let new leaves come.                                                    *)
(***************************************************************************)
Moves(l) ==
  \/ so'[l] = so[l] /\ (Taken(l)' => Taken(l))
  \/ so'[l] \in {"held", "gone"} /\ (Called(l) \/ Taken(l)) /\ ~Called(l)'
  \/ so'[l] = "avail" /\ so[l] \in {"creating", "incoming"} /\ ~Taken(l)'
  \/ so'[l] = "incoming" /\ so[l] = "absent" /\ ~Taken(l)'

OperatorsMove(p) ==
  /\ UNCHANGED <<cache, batches, step>>
  /\ \A q \in Op : \/ pc'[q] = pc[q]
                   \/ q = p /\ pc[p] \in {"ssp", "claiming"} /\ pc'[p] \in {"landed", "register"}
  /\ \A x \in Call : xfer'[x].leaves = xfer[x].leaves /\ (Open(x)' <=> Open(x))
  /\ \A l \in Leaf : /\ Called(l)' => Called(l)
                     /\ Taken(l) => Taken(l)'
                     /\ Moves(l)
  /\ \A q \in Op : \A l \in Coming(q)' :
       l \in Coming(q) \/ (q = p /\ q \notin Depositor /\ so[l] = "absent" /\ so'[l] = "incoming")
  /\ p \in Op /\ pc'[p] \in {"landed", "register", "verified"} =>
       \/ pc'[p] = pc[p] /\ Coming(p)' \subseteq Coming(p)
       \/ \A l \in Coming(p)' : so'[l] = "avail"

\* The leaves stay in order.
LEMMA OperatorsKeep ==
  ASSUME TInv, Undisturbed, OInv, NEW p, OperatorsMove(p), CallInv', Confirmed',
         \A q \in Op : Coming(q)' \subseteq Leaf
  PROVE  OInv'
<1>0. \A q \in Callers : q \in Op BY DEF Op
<1>1. \A q \in Callers : /\ Holds(q)' = Holds(q) /\ SwapLeaves(q)' = SwapLeaves(q)
                         /\ Untouched(q)' = Untouched(q)
                         /\ \A l \in Leaf : Leaving(q, l) => Leaving(q, l)'
  <2> TAKE q \in Callers
  <2>1. Holds(q)' = Holds(q) /\ SwapLeaves(q)' = SwapLeaves(q) BY DEF OperatorsMove, Holds, SwapLeaves
  <2>2. \A here \in {"swap", "swapping", "exec", "renew", "stranded"} : pc'[q] = here <=> pc[q] = here
    BY <1>0 DEF OperatorsMove
  <2>3. Untouched(q)' = Untouched(q)
    <3>1. /\ pc'[q] = "swap" <=> pc[q] = "swap"
          /\ pc'[q] \in {"renew", "swap", "stranded"} <=> pc[q] \in {"renew", "swap", "stranded"}
      BY <2>2
    <3>2. UNCHANGED <<batches, step>> BY DEF OperatorsMove
    <3> QED BY <2>1, <3>1, <3>2 DEF Untouched, At
  <2>4. ASSUME NEW l \in Leaf PROVE Leaving(q, l) => Leaving(q, l)'
    <3>1. CASE At(q, "swapping") /\ l \in SwapLeaves(q)
      BY <2>1, <2>2, <3>1 DEF Leaving, At
    <3>2. CASE /\ At(q, "exec") /\ cache[l].source.kind # "swap"
               /\ \E x \in Call : x[1] = q /\ Open(x) /\ l \in xfer[x].leaves
      <4>1. PICK x \in Call : x[1] = q /\ Open(x) /\ l \in xfer[x].leaves BY <3>2
      <4>2. Open(x)' /\ l \in xfer'[x].leaves BY <4>1 DEF OperatorsMove
      <4> QED BY <2>2, <3>2, <4>1, <4>2 DEF Leaving, At, OperatorsMove
    <3> QED BY <3>1, <3>2 DEF Leaving
  <2> QED BY <2>1, <2>3, <2>4
<1>2. \A l \in Leaf : /\ cache'[l] = cache[l] /\ Moves(l)
                      /\ Called(l)' => Called(l)
                      /\ Taken(l) => Taken(l)'
  BY DEF OperatorsMove
<1>3. \A l \in Leaf : Free(l) => Free(l)'
  <2> SUFFICES ASSUME NEW l \in Leaf, Free(l) PROVE Free(l)' OBVIOUS
  <2>1. ~Taken(l) /\ ~Called(l) /\ so[l] = "avail" BY DEF Free, OInv, LeafInv, Answered
  <2>2. so'[l] = "avail" BY <1>2, <2>1 DEF Moves
  <2> QED BY <1>2, <2>1, <2>2 DEF Free
<1>4. Pool' BY <1>1, <1>2, <1>3 DEF OInv, LeafInv, Pool
<1>5. NoDoubleSelection' BY <1>1 DEF OInv, LeafInv, NoDoubleSelection
<1>6. BatchesApart' BY DEF OperatorsMove, OInv, LeafInv, BatchesApart
<1>7. \A q \in Callers : Holds(q) \subseteq Leaf /\ Untouched(q) \subseteq Holds(q)
  BY HoldsType DEF TInv, Untouched, Holds, Flat
<1>8. UntouchedFree'
  <2> SUFFICES ASSUME NEW q \in Callers, NEW l \in Untouched(q)
               PROVE  cache'[l].status = "LOCAL_LOCKED" /\ Free(l)'
    BY <1>1 DEF UntouchedFree
  <2> QED BY <1>2, <1>3, <1>7 DEF OInv, LeafInv, UntouchedFree
<1>9. LockedMeans'
  <2> SUFFICES ASSUME NEW q \in Callers, NEW l \in Holds(q), cache'[l].status = "LOCAL_LOCKED"
               PROVE  l \in Untouched(q) \/ Leaving(q, l)'
    BY <1>1 DEF LockedMeans
  <2> QED BY <1>1, <1>2, <1>7 DEF OInv, LeafInv, LockedMeans
<1>10. Answered'
  <2> SUFFICES ASSUME NEW l \in Leaf
               PROVE  (Called(l)' => so'[l] = "avail") /\ (Taken(l)' => so'[l] \in {"held", "gone"})
    BY DEF Answered
  <2> QED BY <1>2 DEF Moves, OInv, LeafInv, Answered
<1>11. Unborn'
  <2> SUFFICES ASSUME NEW l \in Leaf
               PROVE  /\ so'[l] \in {"absent", "creating", "incoming"} => \A q \in Callers : l \notin Holds(q)
                      /\ so'[l] = "absent" => Unlisted(l)'
    BY <1>1 DEF Unborn
  <2> QED BY <1>2 DEF Moves, OInv, LeafInv, Unborn, Unlisted
<1>12. InFlight' BY <1>2 DEF OInv, LeafInv, InFlight
<1>13. \A q \in Op : \A l \in Coming(q) : so[l] # "absent" BY DEF OInv, ArriveInv, Arrivals
<1>14. Arrivals'
  <2> SUFFICES ASSUME NEW q \in Op, NEW l \in Coming(q)', l \in Leaf
               PROVE  /\ Unlisted(l)'
                      /\ \A r \in Callers : l \notin Holds(r)
                      /\ ~Taken(l)'
                      /\ so'[l] \in (IF q \in Depositor THEN {"creating", "avail"} ELSE {"incoming", "avail"})
                      /\ pc'[q] \in {"landed", "register", "verified"} => so'[l] = "avail"
    BY <1>1 DEF Arrivals
  <2>1. CASE l \in Coming(q)
    <3>1. /\ Unlisted(l) /\ ~Taken(l)
          /\ \A r \in Callers : l \notin Holds(r)
          /\ so[l] \in (IF q \in Depositor THEN {"creating", "avail"} ELSE {"incoming", "avail"})
          /\ pc[q] \in {"landed", "register", "verified"} => so[l] = "avail"
      BY <2>1 DEF OInv, ArriveInv, Arrivals
    <3>2. ~Called(l) BY <2>1, ComingUncalled
    <3>3. /\ so'[l] = so[l] \/ so'[l] = "avail"
          /\ ~Taken(l)'
      BY <1>2, <3>1, <3>2 DEF Moves
    <3>4. pc'[q] \in {"landed", "register", "verified"} => pc'[q] = pc[q] \/ so'[l] = "avail"
      BY DEF OperatorsMove
    <3> QED BY <1>2, <3>1, <3>3, <3>4 DEF Unlisted
  <2>2. CASE l \notin Coming(q)
    <3>1. q = p /\ q \notin Depositor /\ so[l] = "absent" /\ so'[l] = "incoming" BY <2>2 DEF OperatorsMove
    <3>2. Unlisted(l) /\ \A r \in Callers : l \notin Holds(r) BY <3>1 DEF OInv, LeafInv, Unborn
    <3>3. ~Taken(l)' BY <1>2, <3>1 DEF Moves
    <3>4. pc'[q] \notin {"landed", "register", "verified"} BY <2>2, <3>1 DEF OperatorsMove
    <3> QED BY <1>2, <3>1, <3>2, <3>3, <3>4 DEF Unlisted
  <2> QED BY <2>1, <2>2
<1>15. ArriveApart'
  <2> SUFFICES ASSUME NEW q \in Op, NEW r \in Op, q # r, NEW l \in Coming(q)', l \in Coming(r)' PROVE FALSE
    BY DEF ArriveApart
  <2>1. l \in Coming(q) \/ (q = p /\ so[l] = "absent") BY DEF OperatorsMove
  <2>2. l \in Coming(r) \/ (r = p /\ so[l] = "absent") BY DEF OperatorsMove
  <2> QED BY <1>13, <2>1, <2>2 DEF OInv, ArriveInv, ArriveApart
<1> QED BY <1>4, <1>5, <1>6, <1>8, <1>9, <1>10, <1>11, <1>12, <1>14, <1>15 DEF OInv, LeafInv, ArriveInv

\* The transfer that changes stays sound.
LEMMA OperatorCalls ==
  ASSUME TInv, Undisturbed, CallInv, NEW x \in Xfer, \A y \in Xfer : y # x => xfer'[y] = xfer[y],
         xfer[x].kind # "none",
         xfer'[x].kind = xfer[x].kind /\ xfer'[x].leaves = xfer[x].leaves,
         xfer'[x].call = xfer[x].call \/ (xfer[x].call = "sent" /\ xfer'[x].call = "accepted"),
         xfer'[x].call # "sent",
         xfer'[x].st \in {"initiated", "tweaked", "completed"},
         xfer'[x].st = "initiated" => xfer[x].st = "none" /\ xfer'[x].new = xfer[x].new,
         xfer'[x].new = xfer[x].new \/ pc[x[1]] # "swapping",
         x \in Incoming \cup Deposits => xfer'[x].st \in {"tweaked", "completed"},
         x \in Deposits => xfer'[x].st # "completed",
         UNCHANGED <<batches, step>>,
         \A q \in Callers : pc'[q] = pc[q] \/ (pc[q] = "ssp" /\ pc'[q] = "landed")
  PROVE  /\ CallInv'
         /\ \A q \in Callers : LastCall(q)' = LastCall(q)
         /\ \A y \in Call : xfer'[y].leaves = xfer[y].leaves /\ (Open(y)' <=> Open(y))
<1>1. Call \subseteq Xfer /\ Incoming \subseteq Xfer /\ Deposits \subseteq Xfer BY CallsAreTransfers
<1>2. \A y \in Xfer : xfer'[y].kind = xfer[y].kind /\ xfer'[y].leaves = xfer[y].leaves OBVIOUS
<1>3. \A y \in Xfer : /\ Open(y)' <=> Open(y)
                      /\ xfer'[y].call = "sent" => xfer[y].call = "sent"
  BY DEF Open
<1>4. Quiet' BY DEF CallInv, Quiet, Callers
<1>5. /\ \A q \in Callers : Made(q)' = Made(q) /\ LastCall(q)' = LastCall(q)
      /\ Numbered'
  BY <1>1, <1>2, NumbersKept DEF CallInv
<1>6. \A q \in Callers : Holds(q)' = Holds(q) /\ SwapLeaves(q)' = SwapLeaves(q) BY DEF Holds, SwapLeaves
<1>7. CallsSound'
  <2> SUFFICES ASSUME NEW y \in Call
               PROVE  /\ xfer'[y].kind \in {"none", "send", "swap"}
                      /\ xfer'[y].kind = "none" => xfer'[y] = NoTransfer
                      /\ xfer'[y].kind # "none" => (xfer'[y].call = "sent" <=> xfer'[y].st = "none")
                      /\ xfer'[y].call # "refused" /\ xfer'[y].st # "returned"
                      /\ xfer'[y].st \in {"none", "initiated"} => xfer'[y].new = {}
                      /\ Open(y)' => /\ pc'[y[1]] = IF xfer'[y].kind = "swap" THEN "swapping" ELSE "exec"
                                     /\ xfer'[y].leaves \subseteq Holds(y[1])'
    BY DEF CallsSound
  <2>1. /\ xfer[y].kind \in {"none", "send", "swap"}
        /\ xfer[y].kind = "none" => xfer[y] = NoTransfer
        /\ xfer[y].kind # "none" => (xfer[y].call = "sent" <=> xfer[y].st = "none")
        /\ xfer[y].call # "refused" /\ xfer[y].st # "returned"
        /\ xfer[y].st \in {"none", "initiated"} => xfer[y].new = {}
        /\ Open(y) => /\ pc[y[1]] = IF xfer[y].kind = "swap" THEN "swapping" ELSE "exec"
                      /\ xfer[y].leaves \subseteq Holds(y[1])
    BY DEF CallInv, CallsSound
  <2>2. y \in Xfer /\ y[1] \in Callers BY <1>1, CallsAreTransfers
  <2>3. Open(y)' => /\ pc'[y[1]] = IF xfer'[y].kind = "swap" THEN "swapping" ELSE "exec"
                    /\ xfer'[y].leaves \subseteq Holds(y[1])'
    BY <1>2, <1>3, <1>6, <2>1, <2>2
  <2>4. CASE y = x BY <1>2, <2>1, <2>2, <2>3, <2>4
  <2>5. CASE y # x BY <2>1, <2>2, <2>3, <2>5
  <2> QED BY <2>4, <2>5
<1>8. CallsApart' BY <1>1, <1>2, <1>3 DEF CallInv, CallsApart
<1>9. SwapsCalled'
  <2> SUFFICES ASSUME NEW q \in Callers
               PROVE  /\ pc'[q] \in {"swapping", "ssp", "landed"} => Made(q)' # {}
                      /\ pc'[q] = "swapping" => /\ xfer'[LastCall(q)'].leaves = SwapLeaves(q)'
                                               /\ xfer'[LastCall(q)'].new = {}
                                               /\ \A y \in Call : y[1] = q /\ Open(y)' => y = LastCall(q)'
                      /\ q \in Optimizer /\ pc'[q] \in {"swapping", "ssp", "landed"}
                           => step'[q] \in DOMAIN batches'[q]
    BY DEF SwapsCalled
  <2>1. pc'[q] \in {"swapping", "ssp", "landed"} => pc[q] \in {"swapping", "ssp", "landed"} OBVIOUS
  <2>2. pc'[q] = "swapping" => pc[q] = "swapping" OBVIOUS
  <2>3. pc[q] = "swapping" => LastCall(q) \in Xfer /\ xfer'[LastCall(q)].new = xfer[LastCall(q)].new
    <3>1. LastCall(q)[1] = q BY DEF LastCall
    <3>2. pc[q] = "swapping" => LastCall(q) \in Xfer BY <1>1, LastCallIs DEF CallInv, SwapsCalled
    <3> QED BY <3>1, <3>2
  <2> QED BY <1>1, <1>2, <1>3, <1>5, <1>6, <2>1, <2>2, <2>3 DEF CallInv, SwapsCalled
<1>10. Carried'
  <2>1. \A y \in Incoming \cup Deposits : xfer'[y].call = xfer[y].call
    BY <1>1 DEF CallInv, Carried
  <2> QED BY <1>1, <1>2, <2>1 DEF CallInv, Carried
<1> QED BY <1>1, <1>2, <1>3, <1>4, <1>5, <1>7, <1>8, <1>9, <1>10 DEF CallInv
-----------------------------------------------------------------------------
\* A transfer goes on, and nothing else about it changes.
LEMMA StatusSet ==
  ASSUME TypeOK, NEW x \in Xfer, NEW st, xfer' = [xfer EXCEPT ![x].st = st]
  PROVE  /\ \A y \in Xfer : y # x => xfer'[y] = xfer[y]
         /\ xfer'[x].kind = xfer[x].kind /\ xfer'[x].leaves = xfer[x].leaves
         /\ xfer'[x].new = xfer[x].new /\ xfer'[x].call = xfer[x].call /\ xfer'[x].st = st
<1>1. xfer \in [Xfer -> Transfer] BY DEF TypeOK
<1>2. PICK t \in Transfer : t = xfer[x] BY <1>1
<1> QED BY <1>1, <1>2 DEF Transfer

\* The leaves that are called about, and those that are taken, are the same.
LEMMA TakenKept ==
  ASSUME \A y \in Call : /\ xfer'[y].leaves = xfer[y].leaves
                         /\ xfer'[y].call = "sent" <=> xfer[y].call = "sent"
                         /\ xfer'[y].st = "none" <=> xfer[y].st = "none"
  PROVE  \A l : (Called(l)' <=> Called(l)) /\ (Taken(l)' <=> Taken(l))
BY DEF Called, Taken

\* What comes in for an operation stays the same while nobody moves.
LEMMA ComingKept ==
  ASSUME TInv, CallInv, NEW q \in Op, pc'[q] = pc[q],
         \A r \in Callers : LastCall(r)' = LastCall(r),
         q \in Callers /\ pc[q] \in {"ssp", "landed"} => xfer'[LastCall(q)].new = xfer[LastCall(q)].new
  PROVE  Coming(q)' = Coming(q)
<1>1. CASE q \in Callers /\ pc[q] \in {"ssp", "landed"}
  <2>1. Coming(q)' = xfer'[LastCall(q)'].new BY <1>1 DEF Coming
  <2> QED BY <1>1, <2>1 DEF Coming
<1>2. CASE ~(q \in Callers /\ pc[q] \in {"ssp", "landed"})
  BY <1>2 DEF Coming
<1> QED BY <1>1, <1>2

\* Where the last call of an operation is a transfer.
LEMMA LastCallIn ==
  ASSUME CallInv, NEW q \in Callers, pc[q] \in {"swapping", "ssp", "landed"}
  PROVE  LastCall(q) \in Call /\ LastCall(q) \in Xfer /\ LastCall(q)[1] = q
BY LastCallIs, CallsAreTransfers DEF CallInv, SwapsCalled, LastCall

\* The operators take the leaves of a call: they are free.
LEMMA SoAnswersOrder ==
  ASSUME TInv, Undisturbed, OInv, NEW x \in Xfer, SoAnswers(x)
  PROVE  OInv'
<1>1. x \in Call /\ x[1] \in Callers /\ x[1] \in Op
  <2>1. x \notin Incoming \cup Deposits BY DEF SoAnswers, OInv, CallInv, Carried
  <2> QED BY <2>1, CallsAreTransfers DEF Op
<1>2. xfer[x].call = "sent" /\ xfer[x].kind # "none" /\ xfer[x].st = "none"
  BY <1>1 DEF SoAnswers, OInv, CallInv, CallsSound, NoTransfer, NewTransfer
<1>3. PICK t \in Transfer : t = xfer[x] BY DEF TInv, TypeOK
<1>4. xfer[x].leaves \subseteq Leaf BY <1>3 DEF Transfer
<1>5. \A l \in xfer[x].leaves : Called(l) /\ so[l] = "avail"
  BY <1>1, <1>2, <1>4 DEF Called, OInv, LeafInv, Answered
<1>6. /\ xfer' = [xfer EXCEPT ![x].call = "accepted", ![x].st = "initiated"]
      /\ so' = [l \in Leaf |-> IF l \in xfer[x].leaves THEN "held" ELSE so[l]]
      /\ UNCHANGED <<cache, pc, batches, step>>
  BY <1>5 DEF SoAnswers
<1>7. /\ \A y \in Xfer : y # x => xfer'[y] = xfer[y]
      /\ xfer'[x].kind = xfer[x].kind /\ xfer'[x].leaves = xfer[x].leaves
      /\ xfer'[x].new = xfer[x].new /\ xfer'[x].call = "accepted" /\ xfer'[x].st = "initiated"
  BY <1>3, <1>6 DEF Transfer, TInv, TypeOK
<1>8. x \notin Incoming \cup Deposits /\ Call \subseteq Xfer /\ Deposits \subseteq Xfer
  BY <1>1, CallsAreTransfers
<1>9. /\ CallInv'
      /\ \A q \in Callers : LastCall(q)' = LastCall(q)
      /\ \A y \in Call : xfer'[y].leaves = xfer[y].leaves /\ (Open(y)' <=> Open(y))
  BY <1>2, <1>6, <1>7, <1>8, OperatorCalls DEF OInv
<1>10. \A q \in Op : Coming(q)' = Coming(q)
  <2>1. \A y \in Xfer : xfer'[y].new = xfer[y].new BY <1>7
  <2> QED BY <1>6, <1>9, <2>1, LastCallIn, ComingKept DEF OInv
<1>11. ASSUME NEW l \in Leaf
       PROVE  /\ Called(l)' => Called(l)
              /\ Taken(l) => Taken(l)'
              /\ Moves(l)
  <2>1. \A y \in Call : xfer'[y].leaves = xfer[y].leaves BY <1>9
  <2>2. Called(l)' => Called(l) /\ l \notin xfer[x].leaves
    <3> SUFFICES ASSUME Called(l)' PROVE Called(l) /\ l \notin xfer[x].leaves OBVIOUS
    <3>1. PICK y \in Call : xfer'[y].call = "sent" /\ l \in xfer'[y].leaves BY DEF Called
    <3>2. y # x /\ xfer[y].call = "sent" /\ l \in xfer[y].leaves BY <1>7, <1>8, <2>1, <3>1
    <3> QED BY <1>1, <1>2, <3>2 DEF Called, OInv, CallInv, CallsApart
  <2>3. Taken(l) => Taken(l)' BY <1>2, <1>7, <1>8, <2>1 DEF Taken
  <2>4. Taken(l)' => Taken(l) \/ l \in xfer[x].leaves BY <1>7, <1>8, <2>1 DEF Taken
  <2>5. so'[l] = IF l \in xfer[x].leaves THEN "held" ELSE so[l] BY <1>6
  <2> QED BY <1>5, <2>2, <2>3, <2>4, <2>5 DEF Moves
<1>12. OperatorsMove(x[1]) BY <1>1, <1>6, <1>9, <1>10, <1>11 DEF OperatorsMove
<1>13. Confirmed'
  <2>1. \A y \in Deposits : xfer'[y] = xfer[y] BY <1>7, <1>8
  <2>2. \A l \in Leaf : so'[l] = "creating" <=> so[l] = "creating" BY <1>5, <1>6
  <2> QED BY <2>1, <2>2 DEF OInv, ArriveInv, Confirmed
<1>14. \A q \in Op : Coming(q)' \subseteq Leaf BY <1>10, ComingType DEF OInv
<1> QED BY <1>9, <1>12, <1>13, <1>14, OperatorsKeep

\* The leaves of a transfer go to its receiver.
LEMMA SoTweaksOrder ==
  ASSUME TInv, Undisturbed, OInv, NEW x \in Xfer, SoTweaks(x)
  PROVE  OInv'
<1>1. /\ xfer[x].st = "initiated" /\ xfer[x].kind \notin {"swap", "deposit"}
      /\ xfer' = [xfer EXCEPT ![x].st = "tweaked"] /\ UNCHANGED <<cache, pc, batches, step>>
  BY DEF SoTweaks
<1>2. x \in Call /\ x[1] \in Callers /\ x[1] \in Op
  <2>1. x \notin Incoming \cup Deposits BY <1>1 DEF OInv, CallInv, Carried
  <2> QED BY <2>1, CallsAreTransfers DEF Op
<1>3. xfer[x].kind = "send"
  BY <1>1, <1>2 DEF OInv, CallInv, CallsSound, NoTransfer, NewTransfer
<1>4. xfer[x].call # "sent" BY <1>1, <1>2, <1>3 DEF OInv, CallInv, CallsSound
<1>5. xfer[x].leaves \subseteq Leaf BY DEF TInv, TypeOK, Transfer
<1>6. so' = [l \in Leaf |-> IF l \in xfer[x].leaves THEN "gone" ELSE so[l]]
  BY <1>3 DEF SoTweaks
<1>7. /\ \A y \in Xfer : y # x => xfer'[y] = xfer[y]
      /\ xfer'[x].kind = xfer[x].kind /\ xfer'[x].leaves = xfer[x].leaves
      /\ xfer'[x].new = xfer[x].new /\ xfer'[x].call = xfer[x].call /\ xfer'[x].st = "tweaked"
  BY <1>1, StatusSet DEF TInv
<1>8. x \notin Incoming \cup Deposits /\ Call \subseteq Xfer /\ Deposits \subseteq Xfer
  BY <1>2, CallsAreTransfers
<1>9. /\ CallInv'
      /\ \A q \in Callers : LastCall(q)' = LastCall(q)
      /\ \A y \in Call : xfer'[y].leaves = xfer[y].leaves /\ (Open(y)' <=> Open(y))
  BY <1>1, <1>3, <1>4, <1>7, <1>8, OperatorCalls DEF OInv
<1>10. \A q \in Op : Coming(q)' = Coming(q)
  <2>1. \A y \in Xfer : xfer'[y].new = xfer[y].new BY <1>7
  <2> QED BY <1>1, <1>9, <2>1, LastCallIn, ComingKept DEF OInv
<1>11. \A l : (Called(l)' <=> Called(l)) /\ (Taken(l)' <=> Taken(l))
  <2>1. \A y \in Xfer : /\ xfer'[y].leaves = xfer[y].leaves
                        /\ xfer'[y].call = "sent" <=> xfer[y].call = "sent"
                        /\ xfer'[y].st = "none" <=> xfer[y].st = "none"
    BY <1>1, <1>7
  <2> QED BY <1>8, <2>1, TakenKept
<1>12. \A l \in Leaf : l \in xfer[x].leaves => Taken(l) /\ so[l] \in {"held", "gone"}
  BY <1>1, <1>2 DEF Taken, OInv, LeafInv, Answered
<1>13. \A l \in Leaf : Moves(l)
  <2> TAKE l \in Leaf
  <2>1. Taken(l) => so[l] # "avail" BY DEF OInv, LeafInv, Answered
  <2>2. Taken(l) => ~Called(l) BY <2>1 DEF OInv, LeafInv, Answered
  <2> QED BY <1>6, <1>11, <1>12, <2>2 DEF Moves
<1>14. OperatorsMove(x[1]) BY <1>1, <1>2, <1>9, <1>10, <1>11, <1>13 DEF OperatorsMove
<1>15. Confirmed'
  <2>1. \A y \in Deposits : xfer'[y] = xfer[y] BY <1>7, <1>8
  <2>2. \A l \in Leaf : so'[l] = "creating" <=> so[l] = "creating" BY <1>6, <1>12
  <2> QED BY <2>1, <2>2 DEF OInv, ArriveInv, Confirmed
<1>16. \A q \in Op : Coming(q)' \subseteq Leaf BY <1>10, ComingType DEF OInv
<1> QED BY <1>9, <1>14, <1>15, <1>16, OperatorsKeep

\* A deposit is confirmed.
LEMMA DepositConfirmedOrder ==
  ASSUME TInv, Undisturbed, OInv, NEW x \in Xfer, DepositConfirmed(x)
  PROVE  OInv'
<1>1. /\ xfer[x].st = "initiated" /\ xfer[x].kind = "deposit"
      /\ xfer' = [xfer EXCEPT ![x].st = "tweaked"] /\ UNCHANGED <<cache, pc, batches, step>>
      /\ so' = [l \in Leaf |-> IF l \in xfer[x].leaves THEN "avail" ELSE so[l]]
  BY DEF DepositConfirmed
<1>2. x \in Deposits /\ xfer[x].leaves = InLeaves[x] /\ xfer[x].call = "none"
  <2>1. x \notin Incoming BY <1>1 DEF OInv, CallInv, Carried
  <2>2. x \notin Call BY <1>1 DEF OInv, CallInv, CallsSound
  <2>3. x \in Deposits BY <2>1, <2>2, CallsAreTransfers
  <2> QED BY <2>3 DEF OInv, CallInv, Carried
<1>3. InLeaves[x] \subseteq Leaf BY <1>2, LeafManagerAssumption
<1>4. \A l \in InLeaves[x] : l \in Leaf /\ so[l] = "creating"
  BY <1>1, <1>2, <1>3 DEF OInv, ArriveInv, Confirmed
<1>5. /\ \A y \in Xfer : y # x => xfer'[y] = xfer[y]
      /\ xfer'[x].kind = xfer[x].kind /\ xfer'[x].leaves = xfer[x].leaves
      /\ xfer'[x].new = xfer[x].new /\ xfer'[x].call = xfer[x].call /\ xfer'[x].st = "tweaked"
  BY <1>1, StatusSet DEF TInv
<1>6. Call \subseteq Xfer /\ Deposits \subseteq Xfer /\ x \notin Call BY <1>2, CallsAreTransfers
<1>7. /\ CallInv'
      /\ \A q \in Callers : LastCall(q)' = LastCall(q)
      /\ \A y \in Call : xfer'[y].leaves = xfer[y].leaves /\ (Open(y)' <=> Open(y))
  BY <1>1, <1>2, <1>5, OperatorCalls DEF OInv
<1>8. \A q \in Op : Coming(q)' = Coming(q)
  <2>1. \A y \in Xfer : xfer'[y].new = xfer[y].new BY <1>5
  <2> QED BY <1>1, <1>7, <2>1, LastCallIn, ComingKept DEF OInv
<1>9. \A l : (Called(l)' <=> Called(l)) /\ (Taken(l)' <=> Taken(l))
  <2>1. \A y \in Call : xfer'[y] = xfer[y] BY <1>5, <1>6
  <2> QED BY <2>1, TakenKept
<1>10. \A l \in Leaf : Moves(l)
  <2>1. \A l \in InLeaves[x] : ~Taken(l) BY <1>4 DEF OInv, LeafInv, Answered
  <2> QED BY <1>1, <1>2, <1>4, <1>9, <2>1 DEF Moves
<1>11. OperatorsMove(x[1]) BY <1>1, <1>7, <1>8, <1>9, <1>10 DEF OperatorsMove
<1>12. Confirmed'
  <2> SUFFICES ASSUME NEW y \in Deposits, NEW l \in Leaf, l \in InLeaves[y]
               PROVE  xfer'[y].st = "initiated" <=> so'[l] = "creating"
    BY DEF Confirmed
  <2>1. CASE y = x BY <1>1, <1>2, <1>5, <2>1
  <2>2. CASE y # x
    <3>1. l \notin InLeaves[x] BY <1>2, <2>2, LeafManagerAssumption
    <3>2. xfer'[y] = xfer[y] /\ so'[l] = so[l] BY <1>1, <1>2, <1>5, <1>6, <2>2, <3>1
    <3> QED BY <3>2 DEF OInv, ArriveInv, Confirmed
  <2> QED BY <2>1, <2>2
<1>13. \A q \in Op : Coming(q)' \subseteq Leaf BY <1>8, ComingType DEF OInv
<1> QED BY <1>7, <1>11, <1>12, <1>13, OperatorsKeep

\* The SSP takes the leaves of a swap, and new ones are on their way.
LEMMA SspSwapsOrder ==
  ASSUME TInv, Undisturbed, OInv, NEW x \in Xfer, SspSwaps(x)
  PROVE  OInv'
<1>1. PICK new \in SUBSET {l \in Leaf : so[l] = "absent"} :
        /\ xfer' = [xfer EXCEPT ![x].st = "tweaked", ![x].new = new]
        /\ so' = [l \in Leaf |-> IF l \in new THEN "incoming"
                                 ELSE IF l \in xfer[x].leaves THEN "gone" ELSE so[l]]
  BY DEF SspSwaps
<1>2. /\ xfer[x].kind = "swap" /\ xfer[x].st = "initiated" /\ pc[x[1]] = "ssp" /\ LastCall(x[1]) = x
      /\ UNCHANGED <<cache, pc, batches, step>>
  BY DEF SspSwaps, At
<1>3. /\ x \in Call /\ x[1] \in Callers /\ x[1] \in Op /\ x[1] \notin Depositor
      /\ x \notin Incoming \cup Deposits /\ Call \subseteq Xfer /\ Deposits \subseteq Xfer
  <2>1. x \notin Incoming \cup Deposits BY <1>2 DEF OInv, CallInv, Carried
  <2> QED BY <2>1, CallsAreTransfers, ArrivalKinds DEF Op
<1>4. xfer[x].call # "sent" /\ xfer[x].new = {} BY <1>2, <1>3 DEF OInv, CallInv, CallsSound
<1>5. PICK t \in Transfer : t = xfer[x] BY DEF TInv, TypeOK
<1>6. /\ \A y \in Xfer : y # x => xfer'[y] = xfer[y]
      /\ xfer'[x].kind = xfer[x].kind /\ xfer'[x].leaves = xfer[x].leaves
      /\ xfer'[x].new = new /\ xfer'[x].call = xfer[x].call /\ xfer'[x].st = "tweaked"
  BY <1>1, <1>5 DEF Transfer, TInv, TypeOK
<1>7. /\ CallInv'
      /\ \A q \in Callers : LastCall(q)' = LastCall(q)
      /\ \A y \in Call : xfer'[y].leaves = xfer[y].leaves /\ (Open(y)' <=> Open(y))
  BY <1>2, <1>3, <1>4, <1>6, OperatorCalls DEF OInv
<1>8. PICK p \in Op : p = x[1] BY <1>3
<1>9. Coming(p)' = new
  <2>1. LastCall(p)' = x /\ p \in Callers /\ pc'[p] = "ssp" BY <1>2, <1>3, <1>7, <1>8
  <2>2. Coming(p)' = xfer'[LastCall(p)'].new BY <2>1 DEF Coming
  <2> QED BY <1>6, <2>1, <2>2
<1>10. \A q \in Op \ {p} : Coming(q)' = Coming(q)
  <2> TAKE q \in Op \ {p}
  <2>1. q \in Callers /\ pc[q] \in {"ssp", "landed"} => xfer'[LastCall(q)].new = xfer[LastCall(q)].new
    BY <1>6, <1>8, LastCallIn DEF OInv
  <2> QED BY <1>2, <1>7, <2>1, ComingKept DEF OInv
<1>11. \A l : (Called(l)' <=> Called(l)) /\ (Taken(l)' <=> Taken(l))
  <2>1. \A y \in Xfer : /\ xfer'[y].leaves = xfer[y].leaves
                        /\ xfer'[y].call = "sent" <=> xfer[y].call = "sent"
                        /\ xfer'[y].st = "none" <=> xfer[y].st = "none"
    BY <1>2, <1>6
  <2> QED BY <1>3, <2>1, TakenKept
<1>12. \A l \in Leaf : l \in xfer[x].leaves => Taken(l) BY <1>2, <1>3 DEF Taken
<1>13. \A l \in Leaf : Taken(l) => so[l] \in {"held", "gone"} /\ ~Called(l) BY DEF OInv, LeafInv, Answered
<1>14. \A l \in Leaf : Moves(l)
  <2> TAKE l \in Leaf
  <2>1. CASE l \in new BY <1>1, <1>11, <1>13, <2>1 DEF Moves
  <2>2. CASE l \notin new BY <1>1, <1>11, <1>12, <1>13, <2>2 DEF Moves
  <2> QED BY <2>1, <2>2
<1>15. \A l \in new : l \in Leaf /\ so[l] = "absent" /\ so'[l] = "incoming" BY <1>1
<1>16. OperatorsMove(p)
  BY <1>2, <1>3, <1>7, <1>8, <1>9, <1>10, <1>11, <1>14, <1>15 DEF OperatorsMove
<1>17. Confirmed'
  <2>1. \A y \in Deposits : xfer'[y] = xfer[y] BY <1>3, <1>6
  <2>2. \A l \in Leaf : so'[l] = "creating" <=> so[l] = "creating" BY <1>1, <1>12, <1>13
  <2> QED BY <2>1, <2>2 DEF OInv, ArriveInv, Confirmed
<1>18. \A q \in Op : Coming(q)' \subseteq Leaf BY <1>9, <1>10, <1>15, ComingType DEF OInv
<1> QED BY <1>7, <1>16, <1>17, <1>18, OperatorsKeep

(***************************************************************************)
(* What comes in for p is claimed: a step of p that completes transfer x,  *)
(* whose leaves are those that come in for p.                              *)
(***************************************************************************)
LEMMA ClaimingKeeps ==
  ASSUME TInv, Undisturbed, OInv, NEW p \in Op, NEW x \in Xfer,
         pc[p] \in {"ssp", "claiming"}, NEW there \in {"landed", "register"}, Goto(p, there),
         p \in Callers => pc[p] = "ssp" /\ there = "landed",
         p \notin Depositor, Coming(p)' = Coming(p),
         x \notin Deposits, xfer[x].kind # "none", xfer[x].call # "sent", xfer[x].st # "none",
         xfer' = [xfer EXCEPT ![x].st = "completed"],
         so' = [l \in Leaf |-> IF l \in Coming(p) THEN "avail" ELSE so[l]],
         UNCHANGED <<cache, batches, step>>
  PROVE  OInv'
<1>1. /\ \A y \in Xfer : y # x => xfer'[y] = xfer[y]
      /\ xfer'[x].kind = xfer[x].kind /\ xfer'[x].leaves = xfer[x].leaves
      /\ xfer'[x].new = xfer[x].new /\ xfer'[x].call = xfer[x].call /\ xfer'[x].st = "completed"
  BY StatusSet DEF TInv
<1>2. Call \subseteq Xfer /\ Deposits \subseteq Xfer BY CallsAreTransfers
<1>3. pc'[p] = there /\ \A q \in Op : q # p => pc'[q] = pc[q] BY DEF TInv, TypeOK, Goto
<1>4. \A q \in Callers : pc'[q] = pc[q] \/ (pc[q] = "ssp" /\ pc'[q] = "landed")
  BY <1>3 DEF Op
<1>5. /\ CallInv'
      /\ \A q \in Callers : LastCall(q)' = LastCall(q)
      /\ \A y \in Call : xfer'[y].leaves = xfer[y].leaves /\ (Open(y)' <=> Open(y))
  BY <1>1, <1>4, OperatorCalls DEF OInv
<1>6. \A q \in Op \ {p} : Coming(q)' = Coming(q)
  <2>1. \A y \in Xfer : xfer'[y].new = xfer[y].new BY <1>1
  <2> QED BY <1>3, <1>5, <2>1, LastCallIn, ComingKept DEF OInv
<1>7. \A l : (Called(l)' <=> Called(l)) /\ (Taken(l)' <=> Taken(l))
  <2>1. \A y \in Xfer : /\ xfer'[y].leaves = xfer[y].leaves
                        /\ xfer'[y].call = "sent" <=> xfer[y].call = "sent"
                        /\ xfer'[y].st = "none" <=> xfer[y].st = "none"
    BY <1>1
  <2> QED BY <1>2, <2>1, TakenKept
<1>8. \A l \in Coming(p) : so[l] \in {"incoming", "avail"} /\ ~Taken(l)
  BY DEF OInv, ArriveInv, Arrivals
<1>9. Coming(p) \subseteq Leaf BY ComingType DEF OInv
<1>10. \A l \in Leaf : Moves(l) BY <1>7, <1>8 DEF Moves
<1>11. \A l \in Coming(p) : so'[l] = "avail" BY <1>8, <1>9
<1>12. \A q \in Op : Coming(q)' = Coming(q) BY <1>6
<1>13. OperatorsMove(p) BY <1>3, <1>5, <1>7, <1>10, <1>11, <1>12 DEF OperatorsMove
<1>14. Confirmed'
  <2>1. \A y \in Deposits : xfer'[y] = xfer[y] BY <1>1, <1>2
  <2>2. \A l \in Leaf : so'[l] = "creating" <=> so[l] = "creating" BY <1>8
  <2> QED BY <2>1, <2>2 DEF OInv, ArriveInv, Confirmed
<1>15. \A q \in Op : Coming(q)' \subseteq Leaf BY <1>12, ComingType DEF OInv
<1> QED BY <1>5, <1>13, <1>14, <1>15, OperatorsKeep

\* The counter transfer of a swap is claimed.
LEMMA SwapClaimsOrder ==
  ASSUME TInv, Undisturbed, OInv, Unclaimed, NEW p \in Op, SwapClaims(p)
  PROVE  OInv'
<1>1. p \in Callers /\ pc[p] = "ssp" /\ p \notin Depositor
  <2>1. pc[p] = "ssp" BY DEF SwapClaims, At
  <2>2. p \in Callers BY <2>1 DEF TInv, Control, Placed, Callers
  <2> QED BY <2>1, <2>2, ArrivalKinds
<1>2. PICK x \in Call : x = LastCall(p) BY <1>1, LastCallIn DEF OInv
<1>3. /\ xfer[x].st = "tweaked" /\ xfer' = [xfer EXCEPT ![x].st = "completed"]
      /\ so' = [l \in Leaf |-> IF l \in xfer[x].new THEN "avail" ELSE so[l]]
      /\ Goto(p, "landed") /\ UNCHANGED <<cache, batches, step>>
  <2>1. xfer[x].kind = "swap" /\ xfer[x].st = "tweaked" BY <1>1, <1>2 DEF SwapClaims, Unclaimed
  <2> QED BY <1>2, <2>1 DEF SwapClaims, SoAfterClaim, Claimable, Received
<1>4. x \in Xfer /\ x \notin Deposits BY <1>2, CallsAreTransfers
<1>5. xfer[x].kind # "none" /\ xfer[x].call # "sent"
  <2>1. xfer[x].kind # "none" BY <1>2, <1>3 DEF OInv, CallInv, CallsSound, NoTransfer, NewTransfer
  <2> QED BY <1>2, <1>3, <2>1 DEF OInv, CallInv, CallsSound
<1>6. Coming(p) = xfer[x].new BY <1>1, <1>2 DEF Coming
<1>7. Coming(p)' = Coming(p)
  <2>1. /\ \A y \in Xfer : xfer'[y].new = xfer[y].new /\ xfer'[y].kind = xfer[y].kind
        /\ pc'[p] = "landed"
    BY <1>3, <1>4, StatusSet DEF TInv, TypeOK, Goto
  <2>2. LastCall(p)' = x BY <1>1, <1>2, <2>1, CallsAreTransfers, NumbersKept
  <2>3. Coming(p)' = xfer'[LastCall(p)'].new BY <1>1, <2>1 DEF Coming
  <2> QED BY <1>4, <1>6, <2>1, <2>2, <2>3
<1> QED BY <1>1, <1>3, <1>4, <1>5, <1>6, <1>7, ClaimingKeeps

\* An incoming transfer is claimed.
LEMMA ClaimOrder ==
  ASSUME TInv, Undisturbed, OInv, Unclaimed, NEW p \in Op, Claim(p)
  PROVE  OInv'
<1>1. p \in Claimer /\ pc[p] = "claiming" /\ p \notin Depositor /\ p \notin Callers
  <2>1. pc[p] = "claiming" BY DEF Claim, At
  <2>2. p \in Claimer BY <2>1 DEF TInv, Control, Placed
  <2> QED BY <2>1, <2>2, ArrivalKinds
<1>2. PICK x \in Incoming : x = ClaimOf[p] BY <1>1, ClaimedLeaves
<1>3. Received(x) = Coming(p) BY <1>1, <1>2, ClaimedLeaves
<1>4. /\ xfer[x].st = "tweaked" /\ xfer' = [xfer EXCEPT ![x].st = "completed"]
      /\ so' = [l \in Leaf |-> IF l \in Coming(p) THEN "avail" ELSE so[l]]
      /\ Goto(p, "register") /\ UNCHANGED <<cache, batches, step>>
  <2>1. xfer[x].kind = "incoming" /\ xfer[x].st = "tweaked"
    BY <1>1, <1>2 DEF Claim, Unclaimed, OInv, CallInv, Carried
  <2> QED BY <1>2, <1>3, <2>1 DEF Claim, SoAfterClaim, Claimable
<1>5. x \in Xfer /\ x \notin Deposits BY <1>2, CallsAreTransfers, LeafManagerAssumption
<1>6. xfer[x].kind = "incoming" /\ xfer[x].call = "none" BY <1>2 DEF OInv, CallInv, Carried
<1>7. Coming(p)' = Coming(p) BY <1>1, <1>4, ClaimedLeaves, ClaimerAwaits DEF TInv
<1> QED BY <1>1, <1>4, <1>5, <1>6, <1>7, ClaimingKeeps
-----------------------------------------------------------------------------
(***************************************************************************)
(* Every step of the system keeps the order.                               *)
(***************************************************************************)
LEMMA SwapOrder ==
  ASSUME TInv, Undisturbed, OInv, Unclaimed, NEW p \in Op, Swap(p)
  PROVE  OInv'
<1>1. ~SwapCallFails(p)
  <2> SUFFICES ASSUME pc[p] = "swapping", xfer[LastCall(p)].call = "refused" PROVE FALSE
    BY DEF SwapCallFails, At, Undisturbed
  <2>1. p \in Callers BY DEF TInv, Control, Placed, Callers
  <2>2. PICK x \in Call : x = LastCall(p) BY <2>1, LastCallIn DEF OInv
  <2> QED BY <2>2 DEF OInv, CallInv, CallsSound
<1> QED BY <1>1, SwapSendOrder, SwapInitiatedOrder, SwapClaimsOrder, EndOrder, SwapSelectedOrder,
           SwapOptimizedOrder DEF Swap

\* The steps of a renewal and an executor.
LEMMA ExecuteOrder ==
  ASSUME TInv, Undisturbed, OInv, NEW p \in Op, Execute(p)
  PROVE  OInv'
<1>1. ~QuoteReleases(p)
  BY DEF QuoteReleases, At, OInv, CallInv, Quiet, TInv, Control, Placed, Callers
<1>2. ~ExecutorCallFails(p) /\ ~ExecutorClaims(p)
  <2> SUFFICES ASSUME pc[p] = "exec", NEW x \in CallsOf(p),
                      xfer[x].call = "refused" \/ xfer[x].kind = "self"
               PROVE  FALSE
    BY DEF ExecutorCallFails, ExecutorClaims, At, Undisturbed
  <2>1. p \in Callers BY DEF TInv, Control, Placed, Callers
  <2>2. x \in Call BY <2>1 DEF CallsOf, Call
  <2> QED BY <2>2 DEF OInv, CallInv, CallsSound
<1> QED BY <1>1, <1>2, ExecuteSenderOrder, ExecuteSweeperOrder, EndOrder, ExecutorSentOrder DEF Execute

\* Nothing is fetched.
LEMMA FetchOrder ==
  ASSUME TInv, Undisturbed, OInv, NEW p \in Op, Fetch(p)
  PROVE  OInv'
<1>1. Syncer = {} /\ Refresher = {} BY DEF Undisturbed
<1>2. p \in Callers => pc[p] \notin {"resync", "fetch", "fetched"} BY DEF OInv, CallInv, Quiet
<1>3. ~FetchStart(p) /\ ~SyncApply(p) /\ ~RefreshAdd(p) /\ ~RefreshEvict(p)
  BY <1>1, <1>2 DEF FetchStart, SyncApply, RefreshAdd, RefreshEvict, At, Callers, Syncing
<1>4. /\ pc[p] = "fetch" /\ UNCHANGED <<cache, batches, step, so, xfer>>
      /\ Goto(p, "fetched") \/ Goto(p, "fetch") \/ Goto(p, "failed")
  BY <1>3 DEF Fetch, FetchAnswer, FetchFails, At, operators
<1>5. PICK there \in {"fetched", "fetch", "failed"} : Goto(p, there) BY <1>4
<1>6. p \notin Callers /\ p \in Claimer \cup Depositor BY <1>1, <1>2, <1>4 DEF Op
<1>7. Coming(p)' = {}
  <2>1. pc'[p] = there BY <1>5 DEF TInv, TypeOK, Goto
  <2> QED BY <1>6, <2>1 DEF Coming
<1>8. p \notin Optimizer BY <1>6 DEF Callers
<1> QED BY <1>4, <1>5, <1>6, <1>7, <1>8, MoveKeeps

\* The steps of the operators, the SSP and other instances.
LEMMA OperatorsOrder ==
  ASSUME TInv, Undisturbed, OInv, NEW x \in Xfer, Operators(x)
  PROVE  OInv'
<1>1. ~SoReturns(x) /\ ~OtherInstanceSends(x) BY DEF Undisturbed, SoReturns, OtherInstanceSends
<1> QED BY <1>1, SoAnswersOrder, SoTweaksOrder, SspSwapsOrder, DepositConfirmedOrder DEF Operators

\* A step that changes nothing.
LEMMA StutterOrder ==
  ASSUME TInv, Undisturbed, OInv, UNCHANGED <<cache, pc, batches, step, so, xfer>>
  PROVE  OInv'
<1>1. /\ \A q \in Callers : /\ Made(q)' = Made(q) /\ LastCall(q)' = LastCall(q)
                            /\ Holds(q)' = Holds(q) /\ SwapLeaves(q)' = SwapLeaves(q)
      /\ \A x \in Call : Open(x)' <=> Open(x)
  BY DEF Made, LastCall, Holds, SwapLeaves, Open
<1>2. \A q \in Op : Coming(q)' = Coming(q) BY <1>1 DEF Coming
<1>3. \A l \in Leaf : (Called(l)' <=> Called(l)) /\ (Taken(l)' <=> Taken(l)) BY DEF Called, Taken
<1>4. CallInv'
  <2>1. Quiet' BY DEF OInv, CallInv, Quiet
  <2>2. Numbered' BY <1>1 DEF OInv, CallInv, Numbered
  <2>3. CallsSound' /\ CallsApart'
    <3>1. \A x \in Call : x[1] \in Callers BY CallsAreTransfers
    <3>2. CallsSound' BY <1>1, <3>1 DEF OInv, CallInv, CallsSound
    <3>3. CallsApart' BY DEF OInv, CallInv, CallsApart
    <3> QED BY <3>2, <3>3
  <2>4. SwapsCalled'
    <3> SUFFICES ASSUME NEW q \in Callers
                 PROVE  /\ pc[q] \in {"swapping", "ssp", "landed"} => Made(q) # {}
                        /\ pc[q] = "swapping" =>
                             /\ xfer[LastCall(q)].leaves = SwapLeaves(q) /\ xfer[LastCall(q)].new = {}
                             /\ \A x \in Call : x[1] = q /\ Open(x) => x = LastCall(q)
                        /\ q \in Optimizer /\ pc[q] \in {"swapping", "ssp", "landed"} => step[q] \in DOMAIN batches[q]
      BY <1>1 DEF SwapsCalled
    <3> QED BY DEF OInv, CallInv, SwapsCalled
  <2>5. Carried' BY DEF OInv, CallInv, Carried
  <2> QED BY <2>1, <2>2, <2>3, <2>4, <2>5 DEF CallInv
<1>5. Confirmed' BY DEF OInv, ArriveInv, Confirmed
<1>6. OperatorsMove(Op) BY <1>1, <1>2, <1>3 DEF OperatorsMove, Moves
<1>7. \A q \in Op : Coming(q)' \subseteq Leaf BY <1>2, ComingType DEF OInv
<1> QED BY <1>4, <1>5, <1>6, <1>7, OperatorsKeep

\* Every step keeps the order.
LEMMA StepOrder ==
  ASSUME TInv, LockInv, Undisturbed, OInv, Unclaimed, [Next]_vars
  PROVE  OInv'
<1>1. CASE UNCHANGED vars BY <1>1, StutterOrder DEF vars, operators
<1>2. ASSUME NEW p \in Op, Step(p) PROVE OInv'
  BY <1>2, WaitOrder, SelectOrder, SwapOrder, OptimizeOrder, ExecuteOrder, FetchOrder, ClaimsOrder,
     ClaimOrder, HandleDepositOrder DEF Step
<1>3. ASSUME NEW x \in Xfer, Stream(x) \/ Operators(x) PROVE OInv'
  BY <1>3, StreamOrder, OperatorsOrder
<1> QED BY <1>1, <1>2, <1>3 DEF Next

-----------------------------------------------------------------------------
(***************************************************************************)
(* Every step of the system leaves what is claimed next unclaimed.         *)
(***************************************************************************)
\* Who is at the awaits before a claim stays there: only a new swap and a claim that starts come there.
LEMMA AwaitsClaim ==
  ASSUME TInv, NEW p \in Op, Step(p), ~SwapSend(p), NEW q \in Op
  PROVE  /\ pc'[q] \in {"swapping", "ssp"} => pc[q] \in {"swapping", "ssp"}
         /\ pc'[q] \in {"idle", "claiming"} => pc[q] \in {"idle", "claiming"}
<1> USE DEF TInv, TypeOK, Goto, NotifyAndGoto, At
<1>1. CASE WaitOrProceed(p) \/ WaitTimesOut(p) \/ CheckBalance(p)
  BY <1>1 DEF WaitOrProceed, WaitTimesOut, CheckBalance
<1>2. CASE Select(p)
  BY <1>2 DEF Select, SelectExact, SelectForSwap, NotEnoughLeaves, SweepSelect, Capture
<1>3. CASE Swap(p)
  BY <1>3 DEF Swap, SwapInitiated, SwapCallFails, SwapClaims, SwapFailsAtSsp, SwapSelected, SwapOptimized, Fails
<1>4. CASE Optimize(p)
  BY <1>4 DEF Optimize, OptimizeStart, OptimizePlan, OptimizeSkip, OptimizeNext, OptimizeEnd, Capture
<1>5. CASE Execute(p)
  BY <1>5 DEF Execute, ExecuteSender, ExecuteSweeper, RenewalThrows, ExecutorSent, ExecutorCallFails,
              ExecutorClaims, QuoteReleases, ExecutorThrows, ExecutorReturns, Fails
<1>6. CASE Fetch(p)
  BY <1>6 DEF Fetch, FetchStart, FetchAnswer, FetchFails, SyncApply, RefreshAdd, RefreshEvict
<1>7. CASE Claims(p)
  BY <1>7 DEF Claims, ClaimStart, Claim, RegisterClaimed, RegisterThrows, Fails
<1>8. CASE HandleDeposit(p)
  BY <1>8 DEF HandleDeposit, DepositCreating, DepositAvailable, DepositVerify, DepositAdd
<1> QED BY <1>1, <1>2, <1>3, <1>4, <1>5, <1>6, <1>7, <1>8 DEF Step

\* A step after which nothing more is completed, and no operation has made a call.
CompletesNone == \A x \in Xfer : xfer'[x].kind = xfer[x].kind /\ (xfer'[x].st = "completed" => xfer[x].st = "completed")

LEMMA UnclaimedKept ==
  ASSUME Undisturbed, OInv, Unclaimed, CompletesNone,
         \A q \in Op : /\ pc'[q] \in {"swapping", "ssp"} => pc[q] \in {"swapping", "ssp"}
                       /\ pc'[q] \in {"idle", "claiming"} => pc[q] \in {"idle", "claiming"}
  PROVE  Unclaimed'
<1>1. \A x \in Call \cup Incoming : x \in Xfer BY CallsAreTransfers
<1>2. \A q \in Callers : LastCall(q)' = LastCall(q) BY <1>1, NumbersKept DEF CompletesNone
<1>3. ASSUME NEW q \in Callers, pc'[q] \in {"swapping", "ssp"}
      PROVE  xfer'[LastCall(q)'].kind = "swap" /\ xfer'[LastCall(q)'].st # "completed"
  <2>1. q \in Op /\ pc[q] \in {"swapping", "ssp"} BY <1>3 DEF Op
  <2>2. PICK x \in Xfer : x = LastCall(q) BY <2>1, LastCallIn DEF OInv
  <2> QED BY <1>2, <2>1, <2>2 DEF CompletesNone, Unclaimed
<1>4. ASSUME NEW q \in Claimer, pc'[q] \in {"idle", "claiming"}
      PROVE  xfer'[ClaimOf[q]].st # "completed"
  <2>1. q \in Op /\ ClaimOf[q] \in Xfer BY <1>1 DEF Op, Undisturbed
  <2> QED BY <1>4, <2>1 DEF CompletesNone, Unclaimed
<1> QED BY <1>3, <1>4 DEF Unclaimed

\* Calls are made.
LEMMA CallsUnclaimed ==
  ASSUME TInv, Undisturbed, OInv, Unclaimed, NEW p \in Callers, NEW kind \in {"send", "swap"},
         NEW bs \in Seq(SUBSET Leaf), Calls(p, kind, bs), NEW there, Goto(p, there),
         there = "swapping" => kind = "swap" /\ Len(bs) = 1, there \notin {"ssp", "idle", "claiming"}
  PROVE  Unclaimed'
<1>0. TypeOK /\ CallInv BY DEF TInv, OInv
<1>1. PICK n \in Nat :
        /\ n = Cardinality(Made(p))
        /\ \A i \in DOMAIN bs : /\ <<p, n + i>> \in Call
                                /\ xfer[<<p, n + i>>] = NoTransfer
                                /\ xfer'[<<p, n + i>>] = NewTransfer(kind, bs[i], "none", "sent")
        /\ \A x \in Xfer : (\A i \in DOMAIN bs : x # <<p, n + i>>) => xfer'[x] = xfer[x]
        /\ Made(p)' = 1..(n + Len(bs)) /\ n + Len(bs) \in 0..MaxCalls
        /\ LastCall(p)' = <<p, n + Len(bs)>>
        /\ \A q \in Callers \ {p} : Made(q)' = Made(q) /\ LastCall(q)' = LastCall(q)
  BY <1>0, CallsAre
<1>2. pc'[p] = there /\ \A q \in Op \ {p} : pc'[q] = pc[q] /\ p \in Op BY DEF TInv, TypeOK, Goto, Op
<1>3. ASSUME NEW q \in Callers, pc'[q] \in {"swapping", "ssp"}
      PROVE  xfer'[LastCall(q)'].kind = "swap" /\ xfer'[LastCall(q)'].st # "completed"
  <2>1. CASE q = p
    <3>1. kind = "swap" /\ Len(bs) = 1 BY <1>2, <1>3, <2>1 DEF Op
    <3>2. 1 \in DOMAIN bs BY <3>1
    <3>3. LastCall(p)' = <<p, n + 1>> /\ xfer'[<<p, n + 1>>] = NewTransfer(kind, bs[1], "none", "sent")
      BY <1>1, <3>1, <3>2
    <3> QED BY <2>1, <3>1, <3>3 DEF NewTransfer
  <2>2. CASE q # p
    <3>1. q \in Op /\ pc[q] \in {"swapping", "ssp"} BY <1>2, <1>3, <2>2 DEF Op
    <3>2. PICK x \in Xfer : x = LastCall(q) /\ x[1] = q BY <3>1, LastCallIn DEF OInv
    <3>3. xfer'[x] = xfer[x] BY <1>1, <2>2, <3>2
    <3> QED BY <1>1, <2>2, <3>1, <3>2, <3>3 DEF Unclaimed
  <2> QED BY <2>1, <2>2
<1>4. ASSUME NEW q \in Claimer, pc'[q] \in {"idle", "claiming"}
      PROVE  xfer'[ClaimOf[q]].st # "completed"
  <2>1. q \in Op /\ q # p BY ArrivalKinds DEF Op
  <2>2. ClaimOf[q] \in Incoming BY DEF Undisturbed
  <2>3. ClaimOf[q] \in Xfer /\ ClaimOf[q] \notin Call BY <2>2, CallsAreTransfers
  <2>4. xfer'[ClaimOf[q]] = xfer[ClaimOf[q]] BY <1>1, <2>3
  <2> QED BY <1>2, <1>4, <2>1, <2>4 DEF Unclaimed
<1> QED BY <1>3, <1>4 DEF Unclaimed

\* A transfer is claimed: it is not what somebody else claims next.
LEMMA ClaimUnclaimed ==
  ASSUME TInv, Undisturbed, OInv, Unclaimed, NEW p \in Op, NEW x \in Xfer,
         xfer' = [xfer EXCEPT ![x].st = "completed"], NEW there \in {"landed", "register"}, Goto(p, there),
         \/ p \in Callers /\ x \in Call /\ x[1] = p
         \/ p \in Claimer /\ x = ClaimOf[p]
  PROVE  Unclaimed'
<1>1. /\ \A y \in Xfer : y # x => xfer'[y] = xfer[y]
      /\ \A y \in Xfer : xfer'[y].kind = xfer[y].kind
  BY StatusSet DEF TInv
<1>2. pc'[p] = there /\ \A q \in Op \ {p} : pc'[q] = pc[q] BY DEF TInv, TypeOK, Goto
<1>3. \A q \in Callers : LastCall(q)' = LastCall(q) BY <1>1, NumbersKept, CallsAreTransfers
<1>4. ASSUME NEW q \in Callers, pc'[q] \in {"swapping", "ssp"}
      PROVE  xfer'[LastCall(q)'].kind = "swap" /\ xfer'[LastCall(q)'].st # "completed"
  <2>1. q \in Op /\ q # p /\ pc[q] \in {"swapping", "ssp"} BY <1>2, <1>4 DEF Op
  <2>2. PICK y \in Xfer : y = LastCall(q) /\ y[1] = q /\ y \in Call BY <2>1, LastCallIn DEF OInv
  <2>3. y # x
    <3>1. p \in Claimer => ClaimOf[p] \notin Call BY CallsAreTransfers DEF Undisturbed
    <3> QED BY <2>1, <2>2, <3>1
  <2> QED BY <1>1, <1>3, <2>1, <2>2, <2>3 DEF Unclaimed
<1>5. ASSUME NEW q \in Claimer, pc'[q] \in {"idle", "claiming"}
      PROVE  xfer'[ClaimOf[q]].st # "completed"
  <2>1. q \in Op /\ q # p /\ pc[q] \in {"idle", "claiming"} BY <1>2, <1>5 DEF Op
  <2>2. ClaimOf[q] \in Incoming BY DEF Undisturbed
  <2>3. ClaimOf[q] \in Xfer /\ ClaimOf[q] \notin Call BY <2>2, CallsAreTransfers
  <2>4. ClaimOf[q] # x BY <2>1, <2>3 DEF Undisturbed
  <2> QED BY <1>1, <2>1, <2>3, <2>4 DEF Unclaimed
<1> QED BY <1>4, <1>5 DEF Unclaimed

\* Every step of an operation.
LEMMA StepsUnclaimed ==
  ASSUME TInv, Undisturbed, OInv, Unclaimed, NEW p \in Op, Step(p)
  PROVE  Unclaimed'
<1>1. CASE SwapSend(p)
  <2>1. p \in Callers BY <1>1 DEF SwapSend, At, TInv, Control, Placed, Callers
  <2>2. <<SwapLeaves(p)>> \in Seq(SUBSET Leaf)
    BY <1>1, <2>1, HoldsType DEF SwapSend, SwapLeaves, At, TInv, TypeOK, Control, Placed
  <2>3. Len(<<SwapLeaves(p)>>) = 1 OBVIOUS
  <2> QED BY <1>1, <2>1, <2>2, <2>3, CallsUnclaimed DEF SwapSend
<1>2. CASE ExecuteSender(p) \/ ExecuteSweeper(p)
  <2>1. p \in Callers /\ Goto(p, "exec")
    BY <1>2 DEF ExecuteSender, ExecuteSweeper, Callers, Undisturbed
  <2>2. Holds(p) \in SUBSET Leaf /\ batches[p] \in Seq(SUBSET Leaf) BY <2>1, HoldsType DEF TInv, TypeOK
  <2>3. \A S \in SUBSET Leaf : <<S>> \in Seq(SUBSET Leaf) OBVIOUS
  <2>4. \E bs \in Seq(SUBSET Leaf) : Calls(p, "send", bs)
    BY <1>2, <2>2, <2>3 DEF ExecuteSender, ExecuteSweeper, Undisturbed, Kept
  <2> QED BY <2>1, <2>4, CallsUnclaimed
<1>3. CASE SwapClaims(p)
  <2>1. p \in Callers /\ pc[p] = "ssp" BY <1>3 DEF SwapClaims, At, TInv, Control, Placed, Callers
  <2>2. PICK x \in Xfer : x = LastCall(p) /\ x \in Call /\ x[1] = p BY <2>1, LastCallIn DEF OInv
  <2> QED BY <1>3, <2>1, <2>2, ClaimUnclaimed DEF SwapClaims
<1>4. CASE Claim(p)
  <2>1. p \in Claimer BY <1>4 DEF Claim, At, TInv, Control, Placed
  <2>2. PICK x \in Xfer : x = ClaimOf[p] BY <2>1, LeafManagerAssumption
  <2> QED BY <1>4, <2>1, <2>2, ClaimUnclaimed DEF Claim
<1>5. ~ExecutorClaims(p)
  <2> SUFFICES ASSUME pc[p] = "exec", NEW x \in CallsOf(p), xfer[x].kind = "self" PROVE FALSE
    BY DEF ExecutorClaims, At
  <2>1. p \in Callers BY DEF TInv, Control, Placed, Callers
  <2>2. x \in Call BY <2>1 DEF CallsOf, Call
  <2> QED BY <2>2 DEF OInv, CallInv, CallsSound
<1>6. CASE ~(SwapSend(p) \/ ExecuteSender(p) \/ ExecuteSweeper(p) \/ SwapClaims(p) \/ Claim(p))
  <2>1. \/ UNCHANGED <<so, xfer>>
        \/ \E x : CallOver(x)
        \/ xfer' = [x \in Xfer |-> IF x \in CallsOf(p) THEN [xfer[x] EXCEPT !.call = "over"] ELSE xfer[x]]
    BY <1>5, <1>6, StepTransfers
       DEF SwapInitiated, SwapCallFails, ExecutorSent, ExecutorCallFails, ExecutorThrows
  <2>2. \A x \in Xfer : xfer'[x] = xfer[x] \/ xfer'[x] = [xfer[x] EXCEPT !.call = "over"]
    BY <2>1 DEF operators, CallOver, TInv, TypeOK
  <2>3. CompletesNone
    <3> SUFFICES ASSUME NEW x \in Xfer
                 PROVE  xfer'[x].kind = xfer[x].kind /\ xfer'[x].st = xfer[x].st
      BY DEF CompletesNone
    <3>1. PICK t \in Transfer : t = xfer[x] BY DEF TInv, TypeOK
    <3> QED BY <2>2, <3>1 DEF Transfer
  <2> QED BY <1>6, <2>3, AwaitsClaim, UnclaimedKept
<1> QED BY <1>1, <1>2, <1>3, <1>4, <1>6

\* Every step.
LEMMA StepUnclaimed ==
  ASSUME TInv, Undisturbed, OInv, Unclaimed, [Next]_vars
  PROVE  Unclaimed'
<1>1. CASE UNCHANGED vars
  BY <1>1, UnclaimedKept DEF vars, operators, CompletesNone
<1>2. ASSUME NEW x \in Xfer, Stream(x) \/ Operators(x) PROVE Unclaimed'
  <2>1. UNCHANGED pc
    BY <1>2 DEF Stream, Operators, Hear, Miss, SoAnswers, SoTweaks, SspSwaps, SoReturns,
                DepositConfirmed, OtherInstanceSends
  <2>2. PICK t \in Transfer : t = xfer[x] BY DEF TInv, TypeOK
  <2>3. \A y \in Xfer \ {x} : xfer'[y] = xfer[y]
    BY <1>2 DEF Stream, Operators, Hear, Miss, SoAnswers, SoTweaks, SspSwaps, SoReturns,
                DepositConfirmed, OtherInstanceSends, TInv, TypeOK
  <2>4. xfer'[x].kind = xfer[x].kind /\ (xfer'[x].st = "completed" => xfer[x].st = "completed")
    <3>1. CASE Stream(x)
      <4>1. xfer'[x] = [t EXCEPT !.heard = @ + 1] BY <2>2, <3>1 DEF Stream, Hear, Miss, TInv, TypeOK
      <4> QED BY <2>2, <4>1 DEF Transfer
    <3>2. CASE SoAnswers(x)
      <4>1. \/ xfer'[x] = [t EXCEPT !.call = "accepted", !.st = "initiated"]
            \/ xfer'[x] = [t EXCEPT !.call = "refused"]
        BY <2>2, <3>2 DEF SoAnswers, TInv, TypeOK
      <4> QED BY <2>2, <4>1 DEF Transfer
    <3>3. CASE SoTweaks(x) \/ SoReturns(x) \/ DepositConfirmed(x)
      <4>1. xfer'[x] = [t EXCEPT !.st = "tweaked"] \/ xfer'[x] = [t EXCEPT !.st = "returned"]
        BY <2>2, <3>3 DEF SoTweaks, SoReturns, DepositConfirmed, TInv, TypeOK
      <4> QED BY <2>2, <4>1 DEF Transfer
    <3>4. CASE SspSwaps(x)
      <4>1. PICK new : xfer'[x] = [t EXCEPT !.st = "tweaked", !.new = new]
        BY <2>2, <3>4 DEF SspSwaps, TInv, TypeOK
      <4> QED BY <2>2, <4>1 DEF Transfer
    <3> QED BY <1>2, <3>1, <3>2, <3>3, <3>4 DEF Operators, OtherInstanceSends, Undisturbed
  <2>5. CompletesNone BY <2>3, <2>4 DEF CompletesNone
  <2> QED BY <2>1, <2>5, UnclaimedKept
<1> QED BY <1>1, <1>2, StepsUnclaimed DEF Next

\* Nothing is claimed at the start.
LEMMA InitUnclaimed ==
  ASSUME Undisturbed, Init
  PROVE  Unclaimed
<1>1. \A p \in Callers : pc[p] = "idle" BY DEF Init, Op
<1>2. \A p \in Claimer : xfer[ClaimOf[p]].st = "tweaked"
  <2> TAKE p \in Claimer
  <2>1. ClaimOf[p] \in Incoming /\ ClaimOf[p] \in Xfer BY CallsAreTransfers DEF Undisturbed
  <2>2. xfer[ClaimOf[p]] = NewTransfer("incoming", InLeaves[ClaimOf[p]], "tweaked", "none") BY <2>1 DEF Init
  <2> QED BY <2>2 DEF NewTransfer
<1> QED BY <1>1, <1>2 DEF Unclaimed

\* Nothing is held and no call was made at the start.
LEMMA InitOrder ==
  ASSUME Undisturbed, Init
  PROVE  OInv
<1>1. /\ \A q \in Op : pc[q] = "idle"
      /\ \A q \in Callers : batches[q] = <<>>
      /\ \A q \in Optimizer : step[q] = 0
  BY DEF Init
<1>2. \A q \in Callers : q \in Op BY DEF Op
<1>3. \A x \in Call : xfer[x] = NoTransfer BY CallsAreTransfers DEF Init
<1>4. \A x \in Incoming : /\ xfer[x].kind = "incoming" /\ xfer[x].leaves = InLeaves[x]
                          /\ xfer[x].st = "tweaked" /\ xfer[x].call = "none"
  <2> TAKE x \in Incoming
  <2>1. xfer[x] = NewTransfer("incoming", InLeaves[x], "tweaked", "none") BY CallsAreTransfers DEF Init
  <2> QED BY <2>1 DEF NewTransfer
<1>5. \A x \in Deposits : /\ xfer[x].kind = "deposit" /\ xfer[x].leaves = InLeaves[x]
                          /\ xfer[x].st = "initiated" /\ xfer[x].call = "none"
  <2> TAKE x \in Deposits
  <2>1. xfer[x] = NewTransfer("deposit", InLeaves[x], "initiated", "none")
    BY CallsAreTransfers, LeafManagerAssumption DEF Init
  <2> QED BY <2>1 DEF NewTransfer
<1>6. \A l : ~Called(l) /\ ~Taken(l)
  BY <1>3 DEF Called, Taken, NoTransfer, NewTransfer
<1>7. \A q \in Callers : Holds(q) = {} /\ Untouched(q) = {}
  <2> TAKE q \in Callers
  <2>1. batches[q] = <<>> /\ DOMAIN batches[q] = {} BY <1>1
  <2>2. Holds(q) = {} BY <2>1 DEF Holds, Flat
  <2> QED BY <2>1, <2>2 DEF Untouched
<1>8. \A l \in Leaf :
        /\ cache[l].status \in {"NONE", "AVAILABLE", "INCOMING"} /\ cache[l].source.kind # "swap"
        /\ cache[l].status = "AVAILABLE" => l \in Owned
        /\ l \notin Owned => Unlisted(l)
  <2>1. CASE StartsSynced
    <3>1. cache = Synced(EmptyCache, Owned, {}, {}, UNION {InLeaves[x] \X {x} : x \in Incoming})
      BY <2>1 DEF Init
    <3> QED BY <3>1 DEF Synced, EmptyCache, NoRecord, NoSource, TransferSource, SYNC_PRESERVED_STATUSES, Unlisted
  <2>2. CASE ~StartsSynced
    BY <2>2 DEF Init, EmptyCache, NoRecord, NoSource, Unlisted
  <2> QED BY <2>1, <2>2
<1>9. /\ \A l \in Owned : so[l] = "avail"
      /\ \A x \in Incoming : \A l \in InLeaves[x] : l \in Leaf /\ l \notin Owned /\ so[l] = "incoming"
      /\ \A x \in Deposits : \A l \in InLeaves[x] : l \in Leaf /\ l \notin Owned /\ so[l] = "creating"
  <2>1. \A x \in Incoming \cup Deposits : InLeaves[x] \subseteq Leaf /\ InLeaves[x] \cap Owned = {}
    BY LeafManagerAssumption
  <2>2. \A x \in Incoming, y \in Deposits : InLeaves[x] \cap InLeaves[y] = {}
    BY LeafManagerAssumption
  <2>3. Owned \subseteq Leaf BY LeafManagerAssumption
  <2> QED BY <2>1, <2>2, <2>3 DEF Init
<1>10. \A l \in Leaf : so[l] = "absent" => l \notin Owned BY <1>9
<1>11. CallInv
  <2>1. Quiet BY <1>1, <1>2 DEF Quiet, Callers
  <2>2. Numbered
    <3> SUFFICES ASSUME NEW q \in Callers PROVE \E n \in 0..MaxCalls : Made(q) = 1..n BY DEF Numbered
    <3>1. Made(q) = {} BY <1>3 DEF Made, Call, NoTransfer, NewTransfer
    <3>2. 1..0 = {} /\ 0 \in 0..MaxCalls BY LeafManagerAssumption
    <3> QED BY <3>1, <3>2
  <2>3. CallsSound /\ CallsApart
    BY <1>3 DEF CallsSound, CallsApart, Open, NoTransfer, NewTransfer
  <2>4. SwapsCalled BY <1>1, <1>2 DEF SwapsCalled
  <2>5. Carried BY <1>4, <1>5 DEF Carried
  <2> QED BY <2>1, <2>2, <2>3, <2>4, <2>5 DEF CallInv
<1>12. LeafInv
  <2>1. Pool BY <1>6, <1>7, <1>8, <1>9 DEF Pool, Free
  <2>2. NoDoubleSelection /\ UntouchedFree /\ LockedMeans BY <1>7 DEF NoDoubleSelection, UntouchedFree, LockedMeans
  <2>3. BatchesApart BY <1>1 DEF BatchesApart
  <2>4. Answered BY <1>6 DEF Answered
  <2>5. Unborn BY <1>7, <1>8, <1>10 DEF Unborn
  <2>6. InFlight BY <1>8 DEF InFlight
  <2> QED BY <2>1, <2>2, <2>3, <2>4, <2>5, <2>6 DEF LeafInv
<1>13. \A q \in Op : Coming(q) = IF q \in Claimer THEN InLeaves[ClaimOf[q]]
                                 ELSE IF q \in Depositor THEN InLeaves[DepositOf[q]] ELSE {}
  BY <1>1, ArrivalKinds DEF Coming
<1>14. /\ \A q \in Claimer : ClaimOf[q] \in Incoming
       /\ \A q \in Depositor : DepositOf[q] \in Deposits
  BY LeafManagerAssumption DEF Undisturbed
<1>15. Arrivals
  <2> SUFFICES ASSUME NEW q \in Op, NEW l \in Coming(q)
               PROVE  /\ Unlisted(l)
                      /\ so[l] \in (IF q \in Depositor THEN {"creating", "avail"} ELSE {"incoming", "avail"})
    BY <1>1, <1>6, <1>7 DEF Arrivals
  <2>1. CASE q \in Claimer BY <1>8, <1>9, <1>13, <1>14, <2>1, ArrivalKinds
  <2>2. CASE q \in Depositor BY <1>8, <1>9, <1>13, <1>14, <2>2, ArrivalKinds
  <2> QED BY <1>13, <2>1, <2>2
<1>16. ArriveApart
  <2> SUFFICES ASSUME NEW q \in Op, NEW r \in Op, q # r PROVE Coming(q) \cap Coming(r) = {}
    BY DEF ArriveApart
  <2>1. \A x, y \in Incoming \cup Deposits : x # y => InLeaves[x] \cap InLeaves[y] = {} BY LeafManagerAssumption
  <2>2. Incoming \cap Deposits = {} BY LeafManagerAssumption
  <2>3. CASE q \in Claimer /\ r \in Claimer
    <3>1. ClaimOf[q] # ClaimOf[r] BY <2>3 DEF Undisturbed
    <3> QED BY <1>13, <1>14, <2>1, <2>3, <3>1
  <2>4. CASE q \in Depositor /\ r \in Depositor
    <3>1. DepositOf[q] # DepositOf[r] BY <2>4 DEF Undisturbed
    <3> QED BY <1>13, <1>14, <2>1, <2>4, <3>1, ArrivalKinds
  <2>5. CASE q \in Claimer /\ r \in Depositor BY <1>13, <1>14, <2>1, <2>2, <2>5, ArrivalKinds
  <2>6. CASE q \in Depositor /\ r \in Claimer BY <1>13, <1>14, <2>1, <2>2, <2>6, ArrivalKinds
  <2>7. CASE q \notin Claimer \cup Depositor \/ r \notin Claimer \cup Depositor BY <1>13, <2>7
  <2> QED BY <2>3, <2>4, <2>5, <2>6, <2>7
<1>17. Confirmed BY <1>5, <1>9 DEF Confirmed
<1> QED BY <1>11, <1>12, <1>15, <1>16, <1>17 DEF OInv, ArriveInv

\* The invariant is inductive, beside type correctness and the locks.
LEMMA OrderInvariance == Undisturbed => (Spec => []OInv)
<1> SUFFICES ASSUME Undisturbed PROVE Spec => []OInv OBVIOUS
<1>1. TInv /\ LockInv /\ OInv /\ Unclaimed /\ [Next]_vars => (OInv /\ Unclaimed)'
  BY StepOrder, StepUnclaimed
<1>2. Init => OInv /\ Unclaimed BY InitOrder, InitUnclaimed
<1> QED BY <1>1, <1>2, TypeInvariance, LockInvariance, PTL DEF Spec

(***************************************************************************)
(* leavesMutex and the LOCAL_LOCKED status prevent double selection by     *)
(* themselves: as long as nothing rewrites the cache from old answers and  *)
(* no leaf comes back after its call, two operations never hold the same   *)
(* leaf, however their steps interleave with one another, with the events  *)
(* of the stream and with the claims of what comes in.                     *)
(***************************************************************************)
THEOREM SelectionsAreApart == Undisturbed => (Spec => []NoDoubleSelection)
<1>1. OInv => NoDoubleSelection BY DEF OInv, LeafInv
<1> QED BY <1>1, OrderInvariance, PTL

(***************************************************************************)
(* onSwapInitiated, handleTransferEvent and the end of an executor mark a  *)
(* leaf SWAP_PENDING or OUTGOING only after the operators took it into a   *)
(* transfer of this wallet.                                                *)
(***************************************************************************)
THEOREM InFlightIsTaken == Undisturbed => (Spec => []InFlightWasAccepted)
<1>1. TInv /\ OInv => InFlightWasAccepted
  <2> SUFFICES ASSUME TInv, OInv, NEW l \in Leaf, cache[l].status \in {"OUTGOING", "SWAP_PENDING"}
               PROVE  \E x \in Xfer : /\ xfer[x].st # "none" /\ xfer[x].kind \notin {"incoming", "deposit"}
                                      /\ l \in xfer[x].leaves \cup xfer[x].new
    BY DEF InFlightWasAccepted
  <2>1. PICK x \in Call : xfer[x].st # "none" /\ l \in xfer[x].leaves
    BY DEF OInv, LeafInv, InFlight, Taken
  <2>2. x \in Xfer /\ xfer[x].kind \in {"none", "send", "swap"}
    BY CallsAreTransfers DEF OInv, CallInv, CallsSound
  <2> QED BY <2>1, <2>2
<1> QED BY <1>1, OrderInvariance, TypeInvariance, PTL
=============================================================================
