---------------------------- MODULE LeafLifecycle ----------------------------
(***************************************************************************)
(* What the leaf cache promises about one leaf, whoever changes it: which  *)
(* status may follow which.  "NONE" stands for a leaf the cache does not   *)
(* hold.  The VALID_TRANSITIONS table of services/leaf-manager.ts guards   *)
(* transition() only; the code also writes records directly (restores,     *)
(* additions, evictions, claims, the end of a swap, sync).  LeafManager    *)
(* implements this specification, so those writes keep to it too: only a   *)
(* sync whose answers are in, and a swap whose leaves have arrived, may do *)
(* more, and each does it once.                                            *)
(***************************************************************************)
CONSTANTS Leaf, Op

VARIABLES status,   \* of each leaf
          ready,    \* syncs whose answers are in
          landed    \* swaps whose leaves have arrived

vars == <<status, ready, landed>>

Status == {"NONE", "AVAILABLE", "LOCAL_LOCKED", "OUTGOING", "SWAP_PENDING", "INCOMING"}

\* One leaf, between two syncs.
MayFollow(old, new) ==
  \/ old = "NONE"         /\ new \in {"AVAILABLE", "INCOMING"}
  \/ old = "AVAILABLE"    /\ new \in {"LOCAL_LOCKED", "OUTGOING", "SWAP_PENDING", "NONE"}
  \/ old = "LOCAL_LOCKED" /\ new \in {"AVAILABLE", "OUTGOING", "SWAP_PENDING", "NONE"}
  \/ old = "OUTGOING"     /\ new \in {"AVAILABLE", "NONE"}
  \/ old = "SWAP_PENDING" /\ new \in {"AVAILABLE", "NONE"}
  \/ old = "INCOMING"     /\ new = "AVAILABLE"

Init ==
  /\ status \in [Leaf -> {"NONE", "AVAILABLE", "INCOMING"}]
  /\ ready = {} /\ landed = {}

Change ==
  /\ status' \in [Leaf -> Status]
  /\ \A l \in Leaf : status'[l] = status[l] \/ MayFollow(status[l], status'[l])
  /\ UNCHANGED <<ready, landed>>

Answered(p) ==
  /\ ready' = ready \cup {p}
  /\ UNCHANGED <<status, landed>>

Arrived(p) ==
  /\ landed' = landed \cup {p}
  /\ UNCHANGED <<status, ready>>

\* The end of a swap: some leaves, the new ones too, are locked at once.
Land(p) ==
  /\ p \in landed
  /\ landed' = landed \ {p}
  /\ status' \in [Leaf -> Status]
  /\ \A l \in Leaf : \/ status'[l] = status[l]
                     \/ MayFollow(status[l], status'[l])
                     \/ status'[l] = "LOCAL_LOCKED"
  /\ UNCHANGED ready

\* A sync rewrites every leaf that is not locked, and locks none.
Resync(p) ==
  /\ p \in ready
  /\ ready' = ready \ {p}
  /\ status' \in [Leaf -> Status]
  /\ \A l \in Leaf : status'[l] = "LOCAL_LOCKED" <=> status[l] = "LOCAL_LOCKED"
  /\ UNCHANGED landed

Next == Change \/ \E p \in Op : Answered(p) \/ Arrived(p) \/ Land(p) \/ Resync(p)

Spec == Init /\ [][Next]_vars
=============================================================================
