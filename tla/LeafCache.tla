------------------------------ MODULE LeafCache ------------------------------
(***************************************************************************)
(* The leaf cache of services/leaf-manager.ts and the synchronous updates  *)
(* made to it.  A cache maps every leaf id to a record; an id the Map does *)
(* not hold has status "NONE".  The code runs each of these updates without *)
(* an await, under leavesMutex or in a single callback, so each of them is *)
(* one step of the modules that use it.                                    *)
(***************************************************************************)
EXTENDS LeafSelection

CONSTANT Xfer     \* transfer identifiers

NoSource == [kind |-> "none"]
Source == {NoSource}
          \cup [kind : {"transfer", "swap"}, id : Xfer]
          \cup [kind : {"deposit"}, id : Leaf]
TransferSource(x) == [kind |-> "transfer", id |-> x]
SwapSource(x) == [kind |-> "swap", id |-> x]
DepositSource(l) == [kind |-> "deposit", id |-> l]

\* SPENT is never stored: transition() deletes the record instead.
LeafStatus == {"AVAILABLE", "LOCAL_LOCKED", "OUTGOING", "SWAP_PENDING", "INCOMING"}
LeafRecord == [status : LeafStatus \cup {"NONE"}, source : Source]
NoRecord == [status |-> "NONE", source |-> NoSource]
Cache == [Leaf -> LeafRecord]
EmptyCache == [l \in Leaf |-> NoRecord]

VALID_TRANSITIONS ==
  [AVAILABLE    |-> {"LOCAL_LOCKED", "OUTGOING", "SWAP_PENDING", "SPENT"},
   LOCAL_LOCKED |-> {"AVAILABLE", "OUTGOING", "SWAP_PENDING", "SPENT"},
   OUTGOING     |-> {"AVAILABLE", "SPENT"},
   SWAP_PENDING |-> {"AVAILABLE", "SPENT"},
   INCOMING     |-> {"AVAILABLE"}]

\* Mutant of SYNC_PRESERVED_STATUSES: leaves under way are left alone too.
PRESERVED_WHILE_PENDING == {"LOCAL_LOCKED", "OUTGOING", "INCOMING"}

SYNC_PRESERVED_STATUSES == {"LOCAL_LOCKED"}
IN_FLIGHT_STATUSES == {"LOCAL_LOCKED", "OUTGOING", "SWAP_PENDING"}
OWNED_STATUSES == {"AVAILABLE"} \cup IN_FLIGHT_STATUSES

WithStatus(c, statuses) == {l \in Leaf : c[l].status \in statuses}
Available(c) == WithStatus(c, {"AVAILABLE"})
getAvailableBalance(c) == SumOf(Available(c))
getOwnedBalance(c) == SumOf(WithStatus(c, OWNED_STATUSES))

\* Mutant of Moved: a SPENT leaf is stored instead of deleted.
MovedStoresSpent(c, S, to, source) ==
  [l \in Leaf |->
     IF l \in S /\ c[l].status # "NONE" /\ to \in VALID_TRANSITIONS[c[l].status]
     THEN [status |-> to, source |-> source[l]]
     ELSE c[l]]

\* transition(): unknown ids and moves the table forbids are skipped; SPENT
\* deletes; the source changes only when one is given.
Moved(c, S, to, source) ==
  [l \in Leaf |->
     IF l \in S /\ c[l].status # "NONE" /\ to \in VALID_TRANSITIONS[c[l].status]
     THEN IF to = "SPENT" THEN NoRecord ELSE [status |-> to, source |-> source[l]]
     ELSE c[l]]
transition(c, S, to) == Moved(c, S, to, [l \in Leaf |-> c[l].source])
transitionFrom(c, S, to, source) == Moved(c, S, to, [l \in Leaf |-> source])

\* restoreLocalLockedToAvailable()
Restored(c, S) ==
  [l \in Leaf |-> IF l \in S /\ c[l].status = "LOCAL_LOCKED"
                  THEN [status |-> "AVAILABLE", source |-> NoSource]
                  ELSE c[l]]

\* updateLeavesSource()
SourceUpdated(c, S, source) ==
  [l \in Leaf |-> IF l \in S /\ c[l].status \notin {"NONE", "AVAILABLE"}
                  THEN [c[l] EXCEPT !.source = source]
                  ELSE c[l]]

\* The executor returned: what it left locked is on its way out.
MarkedOutgoing(c, S) ==
  [l \in Leaf |-> IF l \in S /\ c[l].status = "LOCAL_LOCKED"
                  THEN [c[l] EXCEPT !.status = "OUTGOING"]
                  ELSE c[l]]

\* Leaves put in the Map as AVAILABLE, whatever is there (registerClaimedLeaves
\* and the new leaves of a swap).
Registered(c, S, source) ==
  [l \in Leaf |-> IF l \in S THEN [status |-> "AVAILABLE", source |-> source] ELSE c[l]]

\* addLeaves(); a leaf keeps its value, so an AVAILABLE one is never rewritten.
LeavesAdded(c, S) ==
  Registered(c, {l \in S : c[l].status \notin IN_FLIGHT_STATUSES \cup {"AVAILABLE"}}, NoSource)

\* addIncomingLeaves()
IncomingAdded(c, S, x) ==
  [l \in Leaf |-> IF l \in S /\ c[l].status \in {"NONE", "INCOMING"}
                  THEN [status |-> "INCOMING", source |-> TransferSource(x)]
                  ELSE c[l]]
\* Mutant of DepositPut: a leaf the cache knows is overwritten.
DepositPutOver(c, S, status) ==
  [l \in Leaf |-> IF l \in S THEN [status |-> status, source |-> DepositSource(l)] ELSE c[l]]

\* handleDepositEvent() and verifyAndAddLeaf(): only an unknown leaf is added.
DepositPut(c, S, status) ==
  [l \in Leaf |-> IF l \in S /\ c[l].status = "NONE"
                  THEN [status |-> status, source |-> DepositSource(l)]
                  ELSE c[l]]
DepositSeen(c, S) == DepositPut(c, S, "INCOMING")
DepositAdded(c, S) == DepositPut(c, S, "AVAILABLE")

\* evictStaleAvailable()
StaleEvicted(c, fresh) ==
  [l \in Leaf |-> IF c[l].status = "AVAILABLE" /\ c[l].source = NoSource /\ l \notin fresh
                  THEN NoRecord
                  ELSE c[l]]

\* Mutant of Synced: the Map is not cleared before it is written.
SyncedMerged(c, avail, swaps, outgoing, incoming) ==
  [l \in Leaf |->
     LET In(pairs) == \E x \in Xfer : <<l, x>> \in pairs
         By(pairs) == CHOOSE x \in Xfer : <<l, x>> \in pairs
     IN IF c[l].status \in SYNC_PRESERVED_STATUSES THEN c[l]
        ELSE IF In(outgoing) THEN [status |-> "OUTGOING", source |-> TransferSource(By(outgoing))]
        ELSE IF In(swaps)    THEN [status |-> "SWAP_PENDING", source |-> SwapSource(By(swaps))]
        ELSE IF In(incoming) THEN [status |-> "INCOMING", source |-> TransferSource(By(incoming))]
        ELSE IF l \in avail  THEN [status |-> "AVAILABLE", source |-> NoSource]
        ELSE c[l]]

(***************************************************************************)
(* The part of sync() under the mutex.  swaps, outgoing and incoming are   *)
(* sets of <<leaf, transfer>>; a later rule of the code overrides an       *)
(* earlier one, and a record that is LOCAL_LOCKED overrides them all.      *)
(***************************************************************************)
Synced(c, avail, swaps, outgoing, incoming) ==
  [l \in Leaf |->
     LET In(pairs) == \E x \in Xfer : <<l, x>> \in pairs
         By(pairs) == CHOOSE x \in Xfer : <<l, x>> \in pairs
     IN IF c[l].status \in SYNC_PRESERVED_STATUSES THEN c[l]
        ELSE IF In(outgoing) THEN [status |-> "OUTGOING", source |-> TransferSource(By(outgoing))]
        ELSE IF In(swaps)    THEN [status |-> "SWAP_PENDING", source |-> SwapSource(By(swaps))]
        ELSE IF In(incoming) THEN [status |-> "INCOMING", source |-> TransferSource(By(incoming))]
        ELSE IF l \in avail  THEN [status |-> "AVAILABLE", source |-> NoSource]
        ELSE NoRecord]

(***************************************************************************)
(* handleTransferEvent(): a transfer of ours changed at the operator.  A   *)
(* leaf already reclaimed from this very transfer is left alone.           *)
(***************************************************************************)
SENDER_PENDING == {"initiated"}
ReclaimedFrom(c, l, x) == c[l].status = "AVAILABLE" /\ c[l].source = TransferSource(x)

TransferEvent(c, S, x, isSwap, status) ==
  LET active == {l \in S : ~ReclaimedFrom(c, l, x)}
  IN IF status = "returned" THEN transitionFrom(c, active, "AVAILABLE", NoSource)
     ELSE IF status \in SENDER_PENDING
     THEN transitionFrom(c, active, IF isSwap THEN "SWAP_PENDING" ELSE "OUTGOING", TransferSource(x))
     ELSE transition(c, {l \in active : c[l].source.kind # "swap"}, "SPENT")
=============================================================================
