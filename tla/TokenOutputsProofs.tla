------------------------- MODULE TokenOutputsProofs -------------------------
(***************************************************************************)
(* Theorems of TokenOutputs, for any outputs, tokens, operations and       *)
(* times: what holds whatever the environment does, and what holds when    *)
(* answers are applied in order and a lock outlives two operations.        *)
(***************************************************************************)
EXTENDS TokenOutputs, FiniteSetTheorems, TLAPS

-----------------------------------------------------------------------------
(***************************************************************************)
(* Sequences.                                                              *)
(***************************************************************************)
\* RemoveAt closes the gap the element leaves.
LEMMA RemoveAtDef ==
  ASSUME NEW S, NEW s \in Seq(S), NEW i \in 1..Len(s)
  PROVE  /\ RemoveAt(s, i) \in Seq(S)
         /\ Len(RemoveAt(s, i)) = Len(s) - 1
         /\ \A k \in 1..(Len(s) - 1) : RemoveAt(s, i)[k] = IF k < i THEN s[k] ELSE s[k + 1]
<1>1. SubSeq(s, 1, i - 1) \in Seq(S) /\ Len(SubSeq(s, 1, i - 1)) = i - 1
      /\ \A k \in 1..(i - 1) : SubSeq(s, 1, i - 1)[k] = s[k]
  OBVIOUS
<1>2. SubSeq(s, i + 1, Len(s)) \in Seq(S) /\ Len(SubSeq(s, i + 1, Len(s))) = Len(s) - i
      /\ \A k \in 1..(Len(s) - i) : SubSeq(s, i + 1, Len(s))[k] = s[k + i]
  OBVIOUS
<1> DEFINE a == SubSeq(s, 1, i - 1)
           b == SubSeq(s, i + 1, Len(s))
<1>3. a \in Seq(S) /\ Len(a) = i - 1 /\ \A k \in 1..(i - 1) : a[k] = s[k]
  BY <1>1
<1>4. b \in Seq(S) /\ Len(b) = Len(s) - i /\ \A k \in 1..(Len(s) - i) : b[k] = s[k + i]
  BY <1>2
<1>5. RemoveAt(s, i) = a \o b
  BY DEF RemoveAt
<1> HIDE DEF a, b
<1>6. a \o b \in Seq(S) /\ Len(a \o b) = Len(s) - 1
  <2>1. a \in Seq(S) /\ b \in Seq(S)
    BY <1>3, <1>4
  <2>2. a \o b \in Seq(S) /\ Len(a \o b) = Len(a) + Len(b)
    BY <2>1
  <2> QED
    BY <1>3, <1>4, <2>2
<1>7. ASSUME NEW k \in 1..(Len(s) - 1)
      PROVE  (a \o b)[k] = IF k < i THEN s[k] ELSE s[k + 1]
  <2>1. CASE k < i
    BY <1>3, <1>4, <2>1
  <2>2. CASE ~(k < i)
    <3>1. k - (i - 1) \in 1..(Len(s) - i) /\ k - (i - 1) + i = k + 1
      BY <2>2
    <3>2. (a \o b)[k] = b[k - (i - 1)]
      BY <1>3, <1>4, <2>2
    <3> QED
      BY <1>4, <3>1, <3>2, <2>2
  <2> QED
    BY <2>1, <2>2
<1> QED
  BY <1>5, <1>6, <1>7

\* The elements of a sequence.
LEMMA ElementsIn ==
  ASSUME NEW S, NEW s \in Seq(S)
  PROVE  ToSet(s) \subseteq S /\ \A k \in 1..Len(s) : s[k] \in ToSet(s)
BY DEF ToSet

\* Appending adds one element.
LEMMA ElementsAppend ==
  ASSUME NEW S, NEW s \in Seq(S), NEW e \in S
  PROVE  /\ Append(s, e) \in Seq(S) /\ Len(Append(s, e)) = Len(s) + 1
         /\ \A k \in 1..Len(s) : Append(s, e)[k] = s[k]
         /\ Append(s, e)[Len(s) + 1] = e
         /\ ToSet(Append(s, e)) = ToSet(s) \cup {e}
<1>1. Append(s, e) \in Seq(S) /\ Len(Append(s, e)) = Len(s) + 1
      /\ \A k \in 1..Len(s) : Append(s, e)[k] = s[k]
      /\ Append(s, e)[Len(s) + 1] = e
  OBVIOUS
<1>2. DOMAIN Append(s, e) = 1..(Len(s) + 1) /\ DOMAIN s = 1..Len(s)
  BY <1>1
<1>3. ToSet(Append(s, e)) \subseteq ToSet(s) \cup {e}
  BY <1>1, <1>2 DEF ToSet
<1>4. ToSet(s) \cup {e} \subseteq ToSet(Append(s, e))
  BY <1>1, <1>2 DEF ToSet
<1> QED
  BY <1>1, <1>3, <1>4

\* The sequence of a finite set holds elements of it only.
LEMMA SetToSeqIn ==
  ASSUME NEW S, IsFiniteSet(S)
  PROVE  SetToSeq(S) \in Seq(S) /\ ToSet(SetToSeq(S)) \subseteq S
<1>1. Cardinality(S) \in Nat
  BY FS_CardinalityType
<1>2. PICK f : f \in Bijection(1..Cardinality(S), S)
  BY FS_CardinalityType DEF ExistsBijection
<1>3. f \in [1..Cardinality(S) -> S] /\ IsInjective(f)
  BY <1>2 DEF Bijection, Injection, IsInjective
<1>4. SetToSeq(S) \in [1..Cardinality(S) -> S]
  BY <1>3 DEF SetToSeq
<1>5. SetToSeq(S) \in Seq(S)
  BY <1>1, <1>4
<1> QED
  BY <1>5, ElementsIn
-----------------------------------------------------------------------------
(***************************************************************************)
(* Types, and the awaits each kind of operation can be at.                 *)
(***************************************************************************)
Places == {"idle", "fetch", "apply", "acquire", "send", "reply", "balance", "over"}
Place(p) ==
  CASE p \in Spender -> Places \ {"fetch", "balance"}
    [] p \in Consolidator -> Places \ {"balance"}
    [] p \in Flusher -> {"idle", "fetch", "apply", "balance"}
    [] OTHER -> {"idle", "apply", "over"}

Types ==
  /\ available \subseteq Output
  /\ age \in [Output -> Int] /\ \A o \in Output : age[o] >= Unlocked
  /\ pendingTxs \subseteq Tx /\ pendingIds \subseteq Token
  /\ announced \subseteq Tx /\ news \subseteq Tx
  /\ pc \in [Op -> Places] /\ \A p \in Op : pc[p] \in Place(p)
  /\ answer \in [Op -> [available : SUBSET Output, pending : SUBSET Output]]
  /\ queue \in Seq(Op)
  /\ waited \in [Op -> Nat]
  /\ taken \in [Buyer -> Seq(Output)]
  /\ flush \in [Flusher -> [ids : SUBSET Token, txs : SUBSET Tx]]
  /\ so \in [Output -> {"absent", "available", "pending", "spent"}]
  /\ call \in [Buyer -> {"none", "accepted", "refused", "final", "returned"}]

\* The kinds of operations have nothing in common.
LEMMA Kinds ==
  /\ \A p \in Op : p \in Spender \/ p \in Consolidator \/ p \in Flusher \/ p \in Syncer
  /\ \A p : ~(p \in Spender /\ p \in Consolidator)
  /\ \A p : p \in Flusher => p \notin Spender /\ p \notin Consolidator
  /\ \A p : p \in Syncer => p \notin Spender /\ p \notin Consolidator /\ p \notin Flusher
  /\ \A p : p \in Buyer <=> p \in Spender \/ p \in Consolidator
  /\ \A p : p \in Incoming => p \notin Buyer
BY TokenOutputsAssumption DEF Op, Buyer

\* An operation that goes to a place of its kind leaves the places typed.
LEMMA GotoTypes ==
  ASSUME Types, NEW p \in Op, NEW place \in Place(p), Goto(p, place)
  PROVE  pc' \in [Op -> Places] /\ \A q \in Op : pc'[q] \in Place(q)
<1>1. Place(p) \subseteq Places
  BY DEF Place, Places
<1>2. pc' = [pc EXCEPT ![p] = place] /\ pc \in [Op -> Places] /\ \A q \in Op : pc[q] \in Place(q)
  BY DEF Goto, Types
<1> QED
  BY <1>1, <1>2

\* The tokens a transaction is about.
LEMMA TokensOfType ==
  ASSUME Types, NEW x \in Tx
  PROVE  TokensOf(x) \subseteq Token
<1>1. CASE x \in Incoming
  BY <1>1, TokenOutputsAssumption DEF TokensOf
<1>2. CASE x \notin Incoming
  <2>1. taken[x] \in Seq(Output)
    BY <1>2 DEF Tx, Types
  <2> QED
    BY <1>2, <2>1, ElementsIn, TokenOutputsAssumption DEF TokensOf
<1> QED
  BY <1>1, <1>2

LEMMA TypesInit == Init => Types
<1> SUFFICES ASSUME Init PROVE Types
  OBVIOUS
<1>1. \A p \in Op : "idle" \in Place(p)
  BY Kinds DEF Place, Places
<1>2. answer \in [Op -> [available : SUBSET Output, pending : SUBSET Output]]
  BY DEF Init, NoAnswer
<1>3. flush \in [Flusher -> [ids : SUBSET Token, txs : SUBSET Tx]]
  BY DEF Init, NoFlush
<1>4. taken \in [Buyer -> Seq(Output)] /\ queue \in Seq(Op)
  BY DEF Init
<1>5. so \in [Output -> {"absent", "available", "pending", "spent"}]
      /\ call \in [Buyer -> {"none", "accepted", "refused", "final", "returned"}]
  BY DEF Init
<1>6. age \in [Output -> Int] /\ \A o \in Output : age[o] >= Unlocked
  BY DEF Init, Unlocked
<1>7. pc \in [Op -> Places] /\ \A p \in Op : pc[p] \in Place(p)
  BY <1>1 DEF Init, Places
<1> QED
  BY <1>2, <1>3, <1>4, <1>5, <1>6, <1>7, TokenOutputsAssumption DEF Init, Types

\* The functions that give every output a new age.
LEMMA AgesType ==
  ASSUME Types, NEW S
  PROVE  /\ Lock(S) => age' \in [Output -> Int] /\ \A o \in Output : age'[o] >= Unlocked
         /\ age' = [o \in Output |-> IF o \in S THEN Unlocked ELSE age[o]] =>
              age' \in [Output -> Int] /\ \A o \in Output : age'[o] >= Unlocked
         /\ \A o \in Output : cleanupExpiredLocks[o] \in Int /\ cleanupExpiredLocks[o] >= Unlocked
<1>1. \A o \in Output : cleanupExpiredLocks[o] \in Int /\ cleanupExpiredLocks[o] >= Unlocked
  BY TokenOutputsAssumption DEF cleanupExpiredLocks, Types, Unlocked
<1>2. ASSUME Lock(S) PROVE age' \in [Output -> Int] /\ \A o \in Output : age'[o] >= Unlocked
  <2>1. age' = [o \in Output |-> IF o \in S THEN 0 ELSE cleanupExpiredLocks[o]]
    BY <1>2 DEF Lock
  <2>2. \A o \in Output : age'[o] = IF o \in S THEN 0 ELSE cleanupExpiredLocks[o]
    BY <2>1
  <2> QED
    BY <1>1, <2>1, <2>2 DEF Unlocked
<1>3. ASSUME age' = [o \in Output |-> IF o \in S THEN Unlocked ELSE age[o]]
      PROVE  age' \in [Output -> Int] /\ \A o \in Output : age'[o] >= Unlocked
  BY <1>3 DEF Types, Unlocked
<1> QED
  BY <1>1, <1>2, <1>3

LEMMA FailsTypes ==
  ASSUME Types, NEW p \in Op, Fails(p),
         UNCHANGED <<manager, announced, fetching, taken, operators>>
  PROVE  Types'
<1> USE DEF Types, manager, fetching, operators
<1>1. (IF p \in Flusher THEN "idle" ELSE "over") \in Place(p)
  BY Kinds DEF Place, Places
<1>2. pc' \in [Op -> Places] /\ \A q \in Op : pc'[q] \in Place(q)
  BY <1>1, GotoTypes DEF Fails
<1>3. CASE p \in Flusher
  <2>1. pendingIds' \subseteq Token /\ pendingTxs' \subseteq Tx
    BY <1>3 DEF Fails
  <2>2. flush' \in [Flusher -> [ids : SUBSET Token, txs : SUBSET Tx]]
    <3>1. NoFlush \in [ids : SUBSET Token, txs : SUBSET Tx]
      BY DEF NoFlush
    <3>2. flush' = [flush EXCEPT ![p] = NoFlush]
      BY <1>3 DEF Fails
    <3> QED
      BY <3>1, <3>2
  <2> QED
    BY <1>2, <2>1, <2>2
<1>4. CASE p \notin Flusher
  BY <1>2, <1>4 DEF Fails, debounce
<1> QED
  BY <1>3, <1>4

LEMMA TypesStep == Types /\ [Next]_vars => Types'
<1> SUFFICES ASSUME Types, [Next]_vars PROVE Types'
  OBVIOUS
<1> USE DEF Types, manager, debounce, fetching, operators
<1>1. ASSUME NEW p \in Op, ConsolidateStart(p) PROVE Types'
  <2>1. "over" \in Place(p) /\ "fetch" \in Place(p)
    BY <1>1, Kinds DEF ConsolidateStart, Place, Places
  <2>2. pc' \in [Op -> Places] /\ \A q \in Op : pc'[q] \in Place(q)
    BY <1>1, <2>1, GotoTypes DEF ConsolidateStart
  <2> QED
    BY <1>1, <2>2 DEF ConsolidateStart
<1>2. ASSUME NEW p \in Op, Fetch(p) PROVE Types'
  <2>1. "apply" \in Place(p)
    BY Kinds DEF Place, Places
  <2>2. pc' \in [Op -> Places] /\ \A q \in Op : pc'[q] \in Place(q)
    BY <1>2, <2>1, GotoTypes DEF Fetch
  <2>3. answer' \in [Op -> [available : SUBSET Output, pending : SUBSET Output]]
    BY <1>2 DEF Fetch, InScope
  <2>4. queue' \in Seq(Op) /\ waited' \in [Op -> Nat]
    BY <1>2 DEF Fetch
  <2> QED
    BY <1>2, <2>2, <2>3, <2>4 DEF Fetch
<1>3. ASSUME NEW p \in Op, Apply(p) PROVE Types'
  <2> DEFINE place == CASE p \in Buyer -> "acquire" [] p \in Flusher -> "balance" [] OTHER -> "over"
  <2>1. place \in Place(p)
    BY Kinds DEF Place, Places
  <2>2. Goto(p, place)
    BY <1>3 DEF Apply
  <2>3. pc' \in [Op -> Places] /\ \A q \in Op : pc'[q] \in Place(q)
    BY <2>1, <2>2, GotoTypes
  <2>4. answer' \in [Op -> [available : SUBSET Output, pending : SUBSET Output]]
    BY <1>3 DEF Apply, NoAnswer
  <2>5. PICK i \in 1..Len(queue) : queue' = RemoveAt(queue, i)
    BY <1>3 DEF Apply
  <2>6. queue' \in Seq(Op)
    BY <2>5, RemoveAtDef
  <2>7. waited' \in [Op -> Nat]
    BY <1>3 DEF Apply
  <2>8. answer[p].available \subseteq Output
    OBVIOUS
  <2>9. available' \subseteq Output
    BY <1>3, <2>8 DEF Apply, setOutputs
  <2>10. age' \in [Output -> Int] /\ \A o \in Output : age'[o] >= Unlocked
    BY <1>3, AgesType DEF Apply, setOutputs
  <2> QED
    BY <1>3, <2>3, <2>4, <2>6, <2>7, <2>9, <2>10 DEF Apply
<1>4. ASSUME NEW p \in Op, AcquireOutputs(p) PROVE Types'
  <2>1. "send" \in Place(p) /\ "acquire" \in Place(p)
    BY <1>4, Kinds DEF AcquireOutputs, Place, Places
  <2>2. pc' \in [Op -> Places] /\ \A q \in Op : pc'[q] \in Place(q)
    BY <1>4, <2>1, GotoTypes DEF AcquireOutputs
  <2>3. PICK o \in available : /\ Lock({o})
                               /\ taken' = [taken EXCEPT ![p] = Append(@, o)]
    BY <1>4 DEF AcquireOutputs, getUnlockedOutputs
  <2>4. taken' \in [Buyer -> Seq(Output)]
    <3>1. p \in Buyer /\ o \in Output
      BY <1>4, Kinds DEF AcquireOutputs
    <3>2. PICK s \in Seq(Output) : s = Append(taken[p], o)
      BY <3>1, ElementsAppend
    <3>3. taken' = [taken EXCEPT ![p] = s]
      BY <2>3, <3>1, <3>2
    <3> QED
      BY <3>3
  <2>5. age' \in [Output -> Int] /\ \A q \in Output : age'[q] >= Unlocked
    BY <2>3, AgesType
  <2> QED
    BY <1>4, <2>2, <2>4, <2>5 DEF AcquireOutputs
<1>5. ASSUME NEW p \in Op, Insufficient(p) PROVE Types'
  <2>1. "over" \in Place(p)
    BY <1>5, Kinds DEF Insufficient, Place, Places
  <2>2. pc' \in [Op -> Places] /\ \A q \in Op : pc'[q] \in Place(q)
    BY <1>5, <2>1, GotoTypes DEF Insufficient
  <2>3. age' \in [Output -> Int] /\ \A q \in Output : age'[q] >= Unlocked
    BY <1>5, AgesType DEF Insufficient
  <2>4. waited' \in [Op -> Nat]
    BY <1>5 DEF Insufficient
  <2> QED
    BY <1>5, <2>2, <2>3, <2>4 DEF Insufficient
<1>6. ASSUME NEW p \in Op, AcquireBatch(p) PROVE Types'
  <2>1. "send" \in Place(p) /\ "over" \in Place(p)
    BY <1>6, Kinds DEF AcquireBatch, Place, Places
  <2>2. PICK S \in SUBSET available :
          /\ IF Eligible = {} THEN UNCHANGED age ELSE Lock(S)
          /\ taken' = [taken EXCEPT ![p] = SetToSeq(S)]
          /\ Goto(p, IF S = {} THEN "over" ELSE "send")
          /\ waited' = IF S = {} THEN [waited EXCEPT ![p] = 0] ELSE waited
    BY <1>6 DEF AcquireBatch
  <2>3. pc' \in [Op -> Places] /\ \A q \in Op : pc'[q] \in Place(q)
    BY <2>1, <2>2, GotoTypes
  <2>4. SetToSeq(S) \in Seq(Output)
    <3>1. IsFiniteSet(S)
      BY FS_Subset, TokenOutputsAssumption
    <3>2. SetToSeq(S) \in Seq(S)
      BY <3>1, SetToSeqIn
    <3> HIDE DEF Types
    <3> QED
      BY <3>2 DEF Types
  <2>5. taken' \in [Buyer -> Seq(Output)]
    <3>1. PICK s \in Seq(Output) : s = SetToSeq(S)
      BY <2>4
    <3>2. taken' = [taken EXCEPT ![p] = s]
      BY <2>2, <3>1
    <3> QED
      BY <3>2
  <2>6. age' \in [Output -> Int] /\ \A q \in Output : age'[q] >= Unlocked
    BY <2>2, AgesType
  <2>7. waited' \in [Op -> Nat]
    BY <2>2
  <2> QED
    BY <1>6, <2>3, <2>5, <2>6, <2>7 DEF AcquireBatch
<1>7. ASSUME NEW p \in Op, Returns(p) PROVE Types'
  <2>1. "over" \in Place(p)
    BY <1>7, Kinds DEF Returns, Place, Places
  <2>2. pc' \in [Op -> Places] /\ \A q \in Op : pc'[q] \in Place(q)
    BY <1>7, <2>1, GotoTypes DEF Returns
  <2> QED
    BY <1>7, <2>2 DEF Returns
<1>8. ASSUME NEW p \in Op, FlushStart(p) PROVE Types'
  <2>1. "fetch" \in Place(p)
    BY <1>8, Kinds DEF FlushStart, Place, Places
  <2>2. pc' \in [Op -> Places] /\ \A q \in Op : pc'[q] \in Place(q)
    BY <1>8, <2>1, GotoTypes DEF FlushStart
  <2>3. PICK f \in [ids : SUBSET Token, txs : SUBSET Tx] :
          f = [ids |-> pendingIds, txs |-> pendingTxs]
    OBVIOUS
  <2>4. flush' = [flush EXCEPT ![p] = f]
    BY <1>8, <2>3 DEF FlushStart
  <2>5. flush' \in [Flusher -> [ids : SUBSET Token, txs : SUBSET Tx]]
    BY <2>4
  <2> QED
    BY <1>8, <2>2, <2>5 DEF FlushStart
<1>9. ASSUME NEW p \in Op, FlushEmits(p) PROVE Types'
  <2>1. p \in Flusher /\ "idle" \in Place(p)
    BY <1>9, Kinds DEF FlushEmits, Place, Places
  <2>2. pc' \in [Op -> Places] /\ \A q \in Op : pc'[q] \in Place(q)
    BY <1>9, <2>1, GotoTypes DEF FlushEmits
  <2>3. flush' \in [Flusher -> [ids : SUBSET Token, txs : SUBSET Tx]]
    BY <1>9, <2>1 DEF FlushEmits, NoFlush
  <2>4. announced' \subseteq Tx
    BY <1>9, <2>1 DEF FlushEmits
  <2> QED
    BY <1>9, <2>2, <2>3, <2>4 DEF FlushEmits
<1>10. ASSUME NEW p \in Op, Trouble(p) PROVE Types'
  <2>1. CASE FetchFails(p) \/ MetadataFails(p)
    BY <2>1, FailsTypes DEF FetchFails, MetadataFails
  <2>2. CASE SendFails(p)
    <3>1. "reply" \in Place(p) /\ p \in Buyer
      BY <2>2, Kinds DEF SendFails, Place, Places
    <3>2. pc' \in [Op -> Places] /\ \A q \in Op : pc'[q] \in Place(q)
      BY <2>2, <3>1, GotoTypes DEF SendFails
    <3>3. call' \in [Buyer -> {"none", "accepted", "refused", "final", "returned"}]
          /\ waited' \in [Op -> Nat]
      BY <2>2, <3>1 DEF SendFails, EndCall
    <3> QED
      BY <2>2, <3>2, <3>3 DEF SendFails
  <2> QED
    BY <1>10, <2>1, <2>2 DEF Trouble
<1>11. ASSUME NEW p \in Buyer, Accept(p) PROVE Types'
  <2>1. "reply" \in Place(p) /\ p \in Op
    BY Kinds DEF Place, Places, Op
  <2>2. pc' \in [Op -> Places] /\ \A q \in Op : pc'[q] \in Place(q)
    BY <1>11, <2>1, GotoTypes DEF Accept
  <2>3. call' \in [Buyer -> {"none", "accepted", "refused", "final", "returned"}]
        /\ waited' \in [Op -> Nat]
    BY <1>11, <2>1 DEF Accept, EndCall
  <2>4. so' \in [Output -> {"absent", "available", "pending", "spent"}]
    BY <1>11 DEF Accept
  <2> QED
    BY <1>11, <2>2, <2>3, <2>4 DEF Accept
<1>12. ASSUME NEW p \in Buyer, Finalize(p) \/ Return(p) PROVE Types'
  <2>1. call' \in [Buyer -> {"none", "accepted", "refused", "final", "returned"}]
    BY <1>12 DEF Finalize, Return
  <2>2. so' \in [Output -> {"absent", "available", "pending", "spent"}]
    BY <1>12 DEF Finalize, Return
  <2>3. news' \subseteq Tx
    BY <1>12 DEF Finalize, Return, Tx
  <2> QED
    BY <1>12, <2>1, <2>2, <2>3 DEF Finalize, Return
<1>13. ASSUME NEW o \in Incoming, Receive(o) PROVE Types'
  <2>1. so' \in [Output -> {"absent", "available", "pending", "spent"}]
    BY <1>13 DEF Receive
  <2>2. news' \subseteq Tx
    BY <1>13 DEF Receive, Tx
  <2> QED
    BY <1>13, <2>1, <2>2 DEF Receive
<1>14. ASSUME NEW x \in Tx, scheduleTokenSync(x) PROVE Types'
  BY <1>14, TokensOfType DEF scheduleTokenSync
<1>15. ASSUME Tick PROVE Types'
  <2>1. age' \in [Output -> Int] /\ \A q \in Output : age'[q] >= Unlocked
    BY <1>15 DEF Tick, Unlocked
  <2>2. waited' \in [Op -> Nat]
    BY <1>15 DEF Tick
  <2> QED
    BY <1>15, <2>1, <2>2 DEF Tick
<1>16. CASE UNCHANGED vars
  BY <1>16 DEF vars
<1> QED
  BY <1>1, <1>2, <1>3, <1>4, <1>5, <1>6, <1>7, <1>8, <1>9, <1>10, <1>11, <1>12, <1>13, <1>14,
     <1>15, <1>16 DEF Next, Step

-----------------------------------------------------------------------------
(***************************************************************************)
(* What an operation has taken, and what the operators make of it.         *)
(***************************************************************************)
Took(p) == ToSet(taken[p])
Taking(p) == pc[p] \in {"acquire", "send"}
Spends(p) == call[p] \in {"accepted", "final"}

Early == {"idle", "fetch", "apply"}
Late == {"reply", "over"}

Calls ==
  /\ \A p \in Buyer : pc[p] \in Early => taken[p] = <<>>
  /\ \A p \in Buyer : pc[p] \notin Late => call[p] = "none"
  /\ \A p \in Spender : pc[p] = "acquire" => Len(taken[p]) < Len(Wants[p])
  /\ \A p \in Buyer : \A o \in Took(p) :
       /\ call[p] = "accepted" => so[o] = "pending"
       /\ call[p] = "final" => so[o] = "spent"
  /\ \A p, q \in Buyer : p # q /\ Spends(p) /\ Spends(q) => Took(p) \cap Took(q) = {}

LEMMA TookIn == Types => \A p \in Buyer : Took(p) \subseteq Output
BY ElementsIn DEF Types, Took

LEMMA CallsInit == Init => Calls
<1> SUFFICES ASSUME Init PROVE Calls
  OBVIOUS
<1>1. Buyer \subseteq Op /\ Spender \subseteq Buyer
  BY DEF Op, Buyer
<1> QED
  BY <1>1 DEF Init, Calls, Early, Late, Spends

\* An operation that only goes on leaves this as it is.
LEMMA CallsGoto ==
  ASSUME Types, Calls, NEW p \in Op, NEW place, Goto(p, place),
         UNCHANGED <<taken, call, so>>,
         p \in Buyer => /\ place \in Early => pc[p] \in Early
                        /\ place \in Late \/ pc[p] \notin Late,
         p \in Spender /\ place = "acquire" => pc[p] = "apply"
  PROVE  Calls'
<1>1. pc' = [pc EXCEPT ![p] = place] /\ pc \in [Op -> Places]
  BY DEF Goto, Types
<1>2. \A q \in Op : pc'[q] = IF q = p THEN place ELSE pc[q]
  BY <1>1
<1>3. Buyer \subseteq Op /\ Spender \subseteq Buyer
  BY DEF Op, Buyer
<1>4. \A q \in Spender : pc[q] = "apply" => Len(taken[q]) < Len(Wants[q])
  <2> SUFFICES ASSUME NEW q \in Spender, pc[q] = "apply" PROVE Len(taken[q]) < Len(Wants[q])
    OBVIOUS
  <2>1. taken[q] = <<>>
    BY <1>3 DEF Calls, Early
  <2>2. Wants[q] \in Seq(Token) /\ Wants[q] # <<>>
    BY TokenOutputsAssumption
  <2>3. Len(Wants[q]) > 0
    BY <2>2
  <2> QED
    BY <2>1, <2>3
<1>5. /\ \A q \in Buyer : pc'[q] \in Early => taken[q] = <<>>
      /\ \A q \in Buyer : pc'[q] \notin Late => call[q] = "none"
      /\ \A q \in Spender : pc'[q] = "acquire" => Len(taken[q]) < Len(Wants[q])
  BY <1>2, <1>3, <1>4 DEF Calls
<1>6. Took(p)' = Took(p) /\ \A q \in Buyer : Took(q)' = Took(q) /\ Spends(q)' = Spends(q)
  BY DEF Took, Spends
<1> QED
  BY <1>5, <1>6 DEF Calls

\* What an operation without a transaction takes is nobody else's affair.
LEMMA CallsTake ==
  ASSUME Types, Calls, NEW p \in Buyer, NEW place, NEW s, Goto(p, place),
         call[p] = "none", UNCHANGED <<call, so>>, place \notin Early,
         taken' = [taken EXCEPT ![p] = s],
         p \in Spender /\ place = "acquire" => Len(s) < Len(Wants[p])
  PROVE  Calls'
<1>1. pc' = [pc EXCEPT ![p] = place] /\ pc \in [Op -> Places]
  BY DEF Goto, Types
<1>2. Buyer \subseteq Op /\ Spender \subseteq Buyer
  BY DEF Op, Buyer
<1>3. \A q \in Op : pc'[q] = IF q = p THEN place ELSE pc[q]
  BY <1>1, <1>2
<1>4. \A q \in Buyer : taken'[q] = IF q = p THEN s ELSE taken[q]
  BY DEF Types
<1>5. /\ \A q \in Buyer : pc'[q] \in Early => taken'[q] = <<>>
      /\ \A q \in Buyer : pc'[q] \notin Late => call[q] = "none"
      /\ \A q \in Spender : pc'[q] = "acquire" => Len(taken'[q]) < Len(Wants[q])
  BY <1>2, <1>3, <1>4 DEF Calls
<1>6. \A q \in Buyer : (q # p => Took(q)' = Took(q)) /\ Spends(q)' = Spends(q)
  BY <1>4 DEF Took, Spends
<1>7. ~Spends(p)
  BY DEF Spends
<1> QED
  BY <1>5, <1>6, <1>7 DEF Calls

LEMMA CallsStep == Types /\ Calls /\ [Next]_vars => Calls'
<1> SUFFICES ASSUME Types, Calls, [Next]_vars PROVE Calls'
  OBVIOUS
<1> USE DEF manager, debounce, fetching, operators
<1>1. ASSUME NEW p \in Op,
             ConsolidateStart(p) \/ Fetch(p) \/ Insufficient(p) \/ Returns(p)
               \/ FlushStart(p) \/ FlushEmits(p)
      PROVE  Calls'
  <2>1. /\ UNCHANGED <<taken, call, so>>
        /\ FlushStart(p) \/ FlushEmits(p) => p \notin Buyer
    BY <1>1, Kinds DEF ConsolidateStart, Fetch, Insufficient, Returns, FlushStart, FlushEmits,
                       Types, Place, Places
  <2>2. \E place : /\ Goto(p, place) /\ place # "acquire"
                   /\ p \in Buyer => /\ place \in Early => pc[p] \in Early
                                     /\ place \in Late \/ pc[p] \notin Late
    BY <1>1, <2>1 DEF ConsolidateStart, Fetch, Fetching, Insufficient, Returns, FlushStart, FlushEmits,
                      Early, Late
  <2> QED
    BY <2>1, <2>2, CallsGoto
<1>2. ASSUME NEW p \in Op, Apply(p) PROVE Calls'
  <2> DEFINE place == CASE p \in Buyer -> "acquire" [] p \in Flusher -> "balance" [] OTHER -> "over"
  <2>1. Goto(p, place) /\ UNCHANGED <<taken, call, so>> /\ pc[p] = "apply"
    BY <1>2 DEF Apply
  <2>2. p \in Buyer => place = "acquire"
    BY Kinds
  <2> QED
    BY <2>1, <2>2, CallsGoto DEF Early, Late
<1>3. ASSUME NEW p \in Op, AcquireOutputs(p) PROVE Calls'
  <2>1. p \in Buyer /\ taken[p] \in Seq(Output)
    BY <1>3, Kinds DEF AcquireOutputs, Types
  <2>2. PICK o \in Output : taken' = [taken EXCEPT ![p] = Append(taken[p], o)]
    BY <1>3 DEF AcquireOutputs, getUnlockedOutputs, Types
  <2>3. Len(Append(taken[p], o)) = Len(taken[p]) + 1
    BY <2>1
  <2>4. /\ pc[p] = "acquire" /\ UNCHANGED <<call, so>>
        /\ Goto(p, IF Len(taken[p]) + 1 = Len(Wants[p]) THEN "send" ELSE "acquire")
    BY <1>3 DEF AcquireOutputs
  <2>5. call[p] = "none"
    BY <2>1, <2>4 DEF Calls, Late
  <2>6. p \in Spender /\ Len(taken[p]) < Len(Wants[p])
    BY <1>3, <2>4 DEF AcquireOutputs, Calls
  <2>7. Len(Wants[p]) \in Nat /\ Len(taken[p]) \in Nat
    BY <2>1, <2>6, TokenOutputsAssumption
  <2>8. CASE Len(taken[p]) + 1 = Len(Wants[p])
    <3>1. Goto(p, "send")
      BY <2>4, <2>8
    <3> QED
      BY <2>1, <2>2, <2>4, <2>5, <3>1, CallsTake DEF Early
  <2>9. CASE Len(taken[p]) + 1 # Len(Wants[p])
    <3>1. Goto(p, "acquire") /\ Len(taken[p]) + 1 < Len(Wants[p])
      BY <2>4, <2>6, <2>7, <2>9
    <3> QED
      BY <2>1, <2>2, <2>3, <2>4, <2>5, <3>1, CallsTake DEF Early
  <2> QED
    BY <2>8, <2>9
<1>4. ASSUME NEW p \in Op, AcquireBatch(p) PROVE Calls'
  <2>1. p \in Buyer /\ p \notin Spender /\ pc[p] = "acquire" /\ UNCHANGED <<call, so>>
    BY <1>4, Kinds DEF AcquireBatch
  <2>2. call[p] = "none"
    BY <2>1 DEF Calls, Late
  <2>3. PICK S : /\ taken' = [taken EXCEPT ![p] = SetToSeq(S)]
                 /\ Goto(p, IF S = {} THEN "over" ELSE "send")
    BY <1>4 DEF AcquireBatch
  <2> QED
    BY <2>1, <2>2, <2>3, CallsTake DEF Early
<1>5. ASSUME NEW p \in Op, FetchFails(p) \/ MetadataFails(p) PROVE Calls'
  <2>1. Goto(p, IF p \in Flusher THEN "idle" ELSE "over") /\ UNCHANGED <<taken, call, so>>
    BY <1>5 DEF FetchFails, MetadataFails, Fails
  <2>2. p \in Buyer => Goto(p, "over")
    BY <2>1, Kinds
  <2> QED
    BY <2>1, <2>2, CallsGoto DEF Early, Late
<1>6. ASSUME NEW p \in Buyer, NEW c \in {"accepted", "refused"}, pc[p] = "send", Goto(p, "reply"),
             call' = [call EXCEPT ![p] = c], taken' = taken,
             c = "refused" => so' = so,
             c = "accepted" =>
               /\ \A o \in Took(p) : so[o] = "available"
               /\ so' = [o \in Output |-> IF o \in Took(p) THEN "pending" ELSE so[o]]
      PROVE  Calls'
  <2>1. \A q \in Buyer : call'[q] = IF q = p THEN c ELSE call[q]
    BY <1>6 DEF Types
  <2>2. Buyer \subseteq Op /\ Spender \subseteq Buyer /\ \A q \in Op : pc'[q] = IF q = p THEN "reply" ELSE pc[q]
    BY <1>6 DEF Goto, Types, Op, Buyer
  <2>3. \A q \in Buyer : Took(q)' = Took(q)
    BY <1>6 DEF Took
  <2>4. /\ \A q \in Buyer : pc'[q] \in Early => taken'[q] = <<>>
        /\ \A q \in Buyer : pc'[q] \notin Late => call'[q] = "none"
        /\ \A q \in Spender : pc'[q] = "acquire" => Len(taken'[q]) < Len(Wants[q])
    BY <1>6, <2>1, <2>2 DEF Calls, Early, Late
  <2>5. c = "accepted" => \A q \in Buyer : q # p /\ Spends(q) => Took(p) \cap Took(q) = {}
    BY <1>6 DEF Calls, Spends
  <2>6. \A q \in Buyer : \A o \in Took(q) :
          /\ call'[q] = "accepted" => so'[o] = "pending"
          /\ call'[q] = "final" => so'[o] = "spent"
    BY <1>6, <2>1, <2>5, TookIn DEF Calls, Spends
  <2>7. \A q, r \in Buyer : q # r /\ Spends(q)' /\ Spends(r)' => Took(q) \cap Took(r) = {}
    BY <1>6, <2>1, <2>5 DEF Calls, Spends
  <2> QED
    BY <2>3, <2>4, <2>6, <2>7 DEF Calls
<1>7. ASSUME NEW p \in Buyer, NEW c \in {"final", "returned"}, NEW s, call[p] = "accepted",
             call' = [call EXCEPT ![p] = c], UNCHANGED <<taken, pc>>,
             so' = [o \in Output |-> IF o \in Took(p) THEN s ELSE so[o]],
             c = "final" => s = "spent"
      PROVE  Calls'
  <2>1. \A q \in Buyer : call'[q] = IF q = p THEN c ELSE call[q]
    BY <1>7 DEF Types
  <2>2. pc[p] \in Late
    BY <1>7 DEF Calls
  <2>3. \A q \in Buyer : Took(q)' = Took(q)
    BY <1>7 DEF Took
  <2>4. /\ \A q \in Buyer : pc'[q] \in Early => taken'[q] = <<>>
        /\ \A q \in Buyer : pc'[q] \notin Late => call'[q] = "none"
        /\ \A q \in Spender : pc'[q] = "acquire" => Len(taken'[q]) < Len(Wants[q])
    BY <1>7, <2>1, <2>2 DEF Calls
  <2>5. \A q \in Buyer : q # p /\ Spends(q) => Took(p) \cap Took(q) = {}
    BY <1>7 DEF Calls, Spends
  <2>6. \A q \in Buyer : \A o \in Took(q) :
          /\ call'[q] = "accepted" => so'[o] = "pending"
          /\ call'[q] = "final" => so'[o] = "spent"
    BY <1>7, <2>1, <2>5, TookIn DEF Calls, Spends
  <2>7. \A q, r \in Buyer : q # r /\ Spends(q)' /\ Spends(r)' => Took(q) \cap Took(r) = {}
    BY <1>7, <2>1, <2>5 DEF Calls, Spends
  <2> QED
    BY <2>3, <2>4, <2>6, <2>7 DEF Calls
<1>8. ASSUME NEW p \in Op, SendFails(p) PROVE Calls'
  <2>1. p \in Buyer
    BY <1>8, Kinds DEF SendFails, Types, Place, Places
  <2> QED
    BY <1>6, <1>8, <2>1 DEF SendFails, EndCall
<1>9. ASSUME NEW p \in Buyer, Accept(p) PROVE Calls'
  BY <1>6, <1>9 DEF Accept, EndCall, Took
<1>10. ASSUME NEW p \in Buyer, Finalize(p) PROVE Calls'
  BY <1>7, <1>10 DEF Finalize, Took
<1>11. ASSUME NEW p \in Buyer, Return(p) PROVE Calls'
  BY <1>7, <1>11 DEF Return, Took
<1>12. ASSUME NEW o \in Incoming, Receive(o) PROVE Calls'
  <2>1. UNCHANGED <<pc, taken, call>> /\ so[o] = "absent" /\ so' = [so EXCEPT ![o] = "available"]
    BY <1>12 DEF Receive
  <2>2. \A q \in Buyer : Took(q)' = Took(q) /\ Spends(q)' = Spends(q)
    BY <2>1 DEF Took, Spends
  <2>3. \A q \in Buyer : \A x \in Took(q) :
          /\ call[q] = "accepted" => so'[x] = "pending"
          /\ call[q] = "final" => so'[x] = "spent"
    BY <2>1, TookIn DEF Calls, Types
  <2> QED
    BY <2>1, <2>2, <2>3 DEF Calls
<1>13. ASSUME UNCHANGED <<pc, taken, call, so>> PROVE Calls'
  BY <1>13 DEF Calls, Took, Spends
<1>14. ASSUME NEW x \in Tx, scheduleTokenSync(x) PROVE Calls'
  BY <1>13, <1>14 DEF scheduleTokenSync
<1>15. CASE Tick
  BY <1>13, <1>15 DEF Tick
<1>16. CASE UNCHANGED vars
  BY <1>13, <1>16 DEF vars
<1> QED
  BY <1>1, <1>2, <1>3, <1>4, <1>5, <1>8, <1>9, <1>10, <1>11, <1>12, <1>14, <1>15, <1>16
     DEF Next, Step, Trouble

-----------------------------------------------------------------------------
(***************************************************************************)
(* No event is forgotten.                                                  *)
(***************************************************************************)
\* Nothing is forgotten while no event moves and no flush ends.
LEMMA NewsFrame ==
  ASSUME NewsIsKept, UNCHANGED <<call, so, news, announced, pendingTxs, flush>>,
         \A f \in Flusher : pc[f] # "idle" => pc'[f] # "idle"
  PROVE  NewsIsKept'
<1>1. Delivered' = Delivered
  BY DEF Delivered
<1> QED
  BY <1>1 DEF NewsIsKept

\* An operation that goes anywhere but to the start of a flush ends no flush.
LEMMA GotoBusy ==
  ASSUME Types, NEW p \in Op, NEW place, Goto(p, place), p \in Flusher => place # "idle"
  PROVE  \A f \in Flusher : pc[f] # "idle" => pc'[f] # "idle"
<1>1. pc' = [pc EXCEPT ![p] = place] /\ pc \in [Op -> Places] /\ Flusher \subseteq Op
  BY DEF Goto, Types, Op
<1> QED
  BY <1>1

LEMMA NewsFails ==
  ASSUME Types, NewsIsKept, NEW p \in Op, Fails(p),
         UNCHANGED <<manager, announced, fetching, taken, operators>>
  PROVE  NewsIsKept'
<1> USE DEF operators
<1>1. Delivered' = Delivered
  BY DEF Delivered
<1>2. CASE p \in Flusher
  <2>1. /\ pendingTxs' = pendingTxs \cup flush[p].txs
        /\ flush' = [flush EXCEPT ![p] = NoFlush]
        /\ pc' = [pc EXCEPT ![p] = "idle"]
    BY <1>2 DEF Fails, Goto
  <2>2. \A f \in Flusher : f # p => flush'[f] = flush[f] /\ pc'[f] = pc[f]
    BY <2>1 DEF Types, Op
  <2> QED
    BY <1>1, <2>1, <2>2 DEF NewsIsKept
<1>3. CASE p \notin Flusher
  <2>1. Goto(p, "over")
    BY <1>3 DEF Fails
  <2> QED
    BY <1>3, <2>1, GotoBusy, NewsFrame DEF Fails, debounce
<1> QED
  BY <1>2, <1>3

\* No transaction of this wallet brings an output.
LEMMA NothingComes ==
  ASSUME Types, Calls, NEW p \in Buyer, NEW s,
         so' = [o \in Output |-> IF o \in Took(p) THEN s ELSE so[o]],
         call[p] = "accepted" \/ \A o \in Took(p) : so[o] = "available"
  PROVE  \A o \in Incoming : so'[o] # "absent" => so[o] # "absent"
BY TokenOutputsAssumption DEF Calls

LEMMA NewsStep == Types /\ Calls /\ NewsIsKept /\ [Next]_vars => NewsIsKept'
<1> SUFFICES ASSUME Types, Calls, NewsIsKept, [Next]_vars PROVE NewsIsKept'
  OBVIOUS
<1> USE DEF manager, debounce, fetching, operators
<1>1. ASSUME NEW p \in Op,
             ConsolidateStart(p) \/ Fetch(p) \/ AcquireOutputs(p) \/ Insufficient(p)
               \/ AcquireBatch(p) \/ Returns(p)
      PROVE  NewsIsKept'
  <2>1. \E place : Goto(p, place) /\ place # "idle"
    BY <1>1 DEF ConsolidateStart, Fetch, AcquireOutputs, Insufficient, AcquireBatch, Returns
  <2>2. UNCHANGED <<call, so, news, announced, pendingTxs, flush>>
    BY <1>1 DEF ConsolidateStart, Fetch, AcquireOutputs, Insufficient, AcquireBatch, Returns
  <2> QED
    BY <2>1, <2>2, GotoBusy, NewsFrame
<1>2. ASSUME NEW p \in Op, Apply(p) PROVE NewsIsKept'
  <2>1. \E place : Goto(p, place) /\ place # "idle"
    <3>1. CASE p \in Buyer
      BY <1>2, <3>1, Kinds DEF Apply
    <3>2. CASE p \notin Buyer /\ p \in Flusher
      BY <1>2, <3>2, Kinds DEF Apply
    <3>3. CASE p \notin Buyer /\ p \notin Flusher
      BY <1>2, <3>3, Kinds DEF Apply
    <3> QED
      BY <3>1, <3>2, <3>3
  <2>2. UNCHANGED <<call, so, news, announced, pendingTxs, flush>>
    BY <1>2 DEF Apply
  <2> QED
    BY <2>1, <2>2, GotoBusy, NewsFrame
<1>3. ASSUME NEW p \in Op, FlushStart(p) PROVE NewsIsKept'
  <2>1. p \in Flusher /\ pc' = [pc EXCEPT ![p] = "fetch"] /\ pc[p] = "idle"
        /\ flush' = [flush EXCEPT ![p] = [ids |-> pendingIds, txs |-> pendingTxs]]
    BY <1>3 DEF FlushStart, Goto
  <2>2. pc'[p] = "fetch" /\ flush'[p].txs = pendingTxs
    BY <2>1 DEF Types
  <2>3. \A f \in Flusher : f # p => flush'[f] = flush[f] /\ pc'[f] = pc[f]
    BY <2>1 DEF Types, Op
  <2>4. Delivered' = Delivered /\ announced' = announced
    BY <1>3 DEF FlushStart, Delivered
  <2> QED
    BY <2>1, <2>2, <2>3, <2>4 DEF NewsIsKept
<1>4. ASSUME NEW p \in Op, FlushEmits(p) PROVE NewsIsKept'
  <2>1. p \in Flusher
    BY <1>4, Kinds DEF FlushEmits, Types, Place, Places
  <2>2. /\ pc' = [pc EXCEPT ![p] = "idle"]
        /\ flush' = [flush EXCEPT ![p] = NoFlush]
        /\ announced' = announced \cup flush[p].txs
    BY <1>4 DEF FlushEmits, Goto
  <2>3. \A f \in Flusher : f # p => flush'[f] = flush[f] /\ pc'[f] = pc[f]
    BY <2>1, <2>2 DEF Types, Op
  <2>4. Delivered' = Delivered /\ pendingTxs' = pendingTxs
    BY <1>4 DEF FlushEmits, Delivered
  <2> QED
    BY <2>1, <2>2, <2>3, <2>4 DEF NewsIsKept
<1>5. ASSUME NEW p \in Op, Trouble(p) PROVE NewsIsKept'
  <2>1. CASE FetchFails(p) \/ MetadataFails(p)
    BY <2>1, NewsFails DEF FetchFails, MetadataFails
  <2>2. CASE SendFails(p)
    <3>1. \A f \in Flusher : pc[f] # "idle" => pc'[f] # "idle"
      BY <2>2, GotoBusy DEF SendFails
    <3>2. call' = [call EXCEPT ![p] = "refused"]
          /\ UNCHANGED <<so, news, announced, pendingTxs, flush>>
      BY <2>2 DEF SendFails, EndCall
    <3>3. Delivered' \subseteq Delivered
      BY <3>2 DEF Delivered, Types
    <3> QED
      BY <3>1, <3>2, <3>3 DEF NewsIsKept
  <2> QED
    BY <1>5, <2>1, <2>2 DEF Trouble
<1>6. ASSUME NEW p \in Buyer, Accept(p) \/ Return(p) PROVE NewsIsKept'
  <2>1. \A f \in Flusher : pc[f] # "idle" => pc'[f] # "idle"
    BY <1>6, GotoBusy DEF Accept, Return, Op
  <2>2. UNCHANGED <<news, announced, pendingTxs, flush>>
    BY <1>6 DEF Accept, Return
  <2>3. \E c \in {"accepted", "returned"} : call' = [call EXCEPT ![p] = c]
    BY <1>6 DEF Accept, Return, EndCall
  <2>4. \A q \in Buyer : call'[q] = "final" => call[q] = "final"
    BY <2>3 DEF Types
  <2>5. \A o \in Incoming : so'[o] # "absent" => so[o] # "absent"
    BY <1>6, NothingComes DEF Accept, Return, Took
  <2>6. Delivered' \subseteq Delivered
    BY <2>2, <2>4, <2>5 DEF Delivered
  <2> QED
    BY <2>1, <2>2, <2>6 DEF NewsIsKept
<1>7. ASSUME NEW p \in Buyer, Finalize(p) PROVE NewsIsKept'
  <2>1. UNCHANGED <<announced, pendingTxs, flush, pc>> /\ news' = news \cup {p}
        /\ call' = [call EXCEPT ![p] = "final"]
    BY <1>7 DEF Finalize
  <2>2. \A o \in Incoming : so'[o] # "absent" => so[o] # "absent"
    BY <1>7, NothingComes DEF Finalize, Took
  <2>3. Delivered' \subseteq Delivered
    BY <2>1, <2>2 DEF Delivered, Types
  <2> QED
    BY <2>1, <2>3 DEF NewsIsKept
<1>8. ASSUME NEW o \in Incoming, Receive(o) PROVE NewsIsKept'
  <2>1. UNCHANGED <<call, announced, pendingTxs, flush, pc>> /\ news' = news \cup {o}
        /\ so' = [so EXCEPT ![o] = "available"]
    BY <1>8 DEF Receive
  <2>2. Delivered' \subseteq Delivered
    BY <2>1, TokenOutputsAssumption DEF Delivered, Types
  <2> QED
    BY <2>1, <2>2 DEF NewsIsKept
<1>9. ASSUME NEW x \in Tx, scheduleTokenSync(x) PROVE NewsIsKept'
  <2>1. UNCHANGED <<call, so, announced, flush, pc>> /\ news' = news \ {x}
        /\ pendingTxs' = pendingTxs \cup {x}
    BY <1>9 DEF scheduleTokenSync
  <2>2. Delivered' \subseteq Delivered \cup {x}
    BY <2>1 DEF Delivered
  <2> QED
    BY <2>1, <2>2 DEF NewsIsKept
<1>10. CASE Tick
  BY <1>10, NewsFrame DEF Tick
<1>11. CASE UNCHANGED vars
  BY <1>11, NewsFrame DEF vars
<1> QED
  BY <1>1, <1>2, <1>3, <1>4, <1>5, <1>6, <1>7, <1>8, <1>9, <1>10, <1>11 DEF Next, Step

LEMMA NewsInit == Init => NewsIsKept
BY TokenOutputsAssumption DEF Init, NewsIsKept, Delivered

\* The types, and what an operation has taken, are kept whatever the
\* environment does.
THEOREM CallsKept == Spec => [](Types /\ Calls)
<1>1. Init => Types /\ Calls
  BY TypesInit, CallsInit
<1>2. Types /\ Calls /\ [Next]_vars => (Types /\ Calls)'
  BY TypesStep, CallsStep
<1> QED
  BY <1>1, <1>2, PTL DEF Spec

(***************************************************************************)
(* Every event the stream delivered is announced, waits for a flush, or is *)
(* in one, whatever fails and however flushes overlap.                     *)
(***************************************************************************)
THEOREM EventsAreKept == Spec => []NewsIsKept
<1>1. Types /\ Calls /\ NewsIsKept /\ [Next]_vars => NewsIsKept'
  BY NewsStep
<1> QED
  BY <1>1, CallsKept, NewsInit, PTL DEF Spec

-----------------------------------------------------------------------------
(***************************************************************************)
(* The answers that wait to be applied.                                    *)
(***************************************************************************)
Position == 1..Len(queue)
Available(i) == answer[queue[i]].available
Pending(i) == answer[queue[i]].pending

Queued ==
  /\ \A i, j \in Position : queue[i] = queue[j] => i = j
  /\ \A p \in Op : pc[p] = "apply" <=> \E i \in Position : queue[i] = p
  /\ \A i \in Position : Available(i) \cap Pending(i) = {}
  /\ \A i \in Position, p \in Op :
       queue[i] = p => Available(i) \cup Pending(i) \subseteq InScope(p)

LEMMA QueueTypes ==
  Types => /\ Len(queue) \in Nat
           /\ \A i \in Position : /\ queue[i] \in Op /\ waited[queue[i]] \in Nat
                                  /\ Available(i) \subseteq Output /\ Pending(i) \subseteq Output
BY DEF Types, Position, Available, Pending

\* An operation that fetches goes to the end of the queue, with its answer.
LEMMA FetchQueue ==
  ASSUME Types, Queued, NEW p \in Op, Fetch(p), NEW n, n = Len(queue) + 1
  PROVE  /\ Len(queue') = n
         /\ \A i \in Position : /\ queue'[i] = queue[i] /\ queue[i] # p
                                /\ Available(i)' = Available(i) /\ Pending(i)' = Pending(i)
         /\ queue'[n] = p
         /\ Available(n)' = {o \in InScope(p) : so[o] = "available"}
         /\ Pending(n)' = {o \in InScope(p) : so[o] = "pending"}
<1>1. queue' = Append(queue, p) /\ queue \in Seq(Op)
  BY DEF Fetch, Types
<1>2. Len(queue') = n /\ queue'[n] = p
      /\ \A i \in Position : queue'[i] = queue[i]
  BY <1>1, ElementsAppend DEF Position
<1>3. pc[p] # "apply"
  BY DEF Fetch, Fetching
<1>4. \A i \in Position : queue[i] # p
  BY <1>3 DEF Queued
<1>5. \A q \in Op : answer'[q] = IF q = p
        THEN [available |-> {o \in InScope(p) : so[o] = "available"},
              pending |-> {o \in InScope(p) : so[o] = "pending"}]
        ELSE answer[q]
  BY DEF Fetch, Types
<1>6. \A i \in Position : queue[i] \in Op
  BY QueueTypes
<1>7. \A i \in Position : Available(i)' = Available(i) /\ Pending(i)' = Pending(i)
  BY <1>2, <1>4, <1>5, <1>6 DEF Available, Pending
<1>8. answer'[p] = [available |-> {o \in InScope(p) : so[o] = "available"},
                    pending |-> {o \in InScope(p) : so[o] = "pending"}]
  BY <1>5
<1>9. /\ Available(n)' = answer'[p].available
      /\ Pending(n)' = answer'[p].pending
  BY <1>2 DEF Available, Pending
<1>10. /\ Available(n)' = {o \in InScope(p) : so[o] = "available"}
       /\ Pending(n)' = {o \in InScope(p) : so[o] = "pending"}
  BY <1>8, <1>9
<1> QED
  BY <1>2, <1>4, <1>7, <1>10

\* An operation that applies its answer leaves the queue; it is the first of
\* it unless answers may be overtaken.
LEMMA ApplyQueue ==
  ASSUME Types, Queued, NEW p \in Op, Apply(p)
  PROVE  \E i \in Position :
           /\ i = 1 \/ "overtake" \in Env
           /\ queue[i] = p
           /\ Len(queue') = Len(queue) - 1
           /\ \A k \in 1..(Len(queue) - 1) :
                LET h == IF k < i THEN k ELSE k + 1
                IN /\ h \in Position /\ h # i
                   /\ queue'[k] = queue[h] /\ queue[h] # p
                   /\ Available(k)' = Available(h) /\ Pending(k)' = Pending(h)
<1>1. PICK i \in Position : /\ queue[i] = p
                            /\ i = 1 \/ "overtake" \in Env
                            /\ queue' = RemoveAt(queue, i)
  BY DEF Apply, Position
<1>2. queue \in Seq(Op) /\ Len(queue) \in Nat
  BY DEF Types
<1>3. Len(queue') = Len(queue) - 1
      /\ \A k \in 1..(Len(queue) - 1) : queue'[k] = queue[IF k < i THEN k ELSE k + 1]
  BY <1>1, <1>2, RemoveAtDef DEF Position
<1>4. \A q \in Op : q # p => answer'[q] = answer[q]
  BY DEF Apply, Types
<1>5. ASSUME NEW k \in 1..(Len(queue) - 1), NEW h, h = IF k < i THEN k ELSE k + 1
      PROVE  /\ h \in Position /\ h # i
             /\ queue'[k] = queue[h] /\ queue[h] # p
             /\ Available(k)' = Available(h) /\ Pending(k)' = Pending(h)
  <2>1. h \in Position /\ h # i
    BY <1>2, <1>5 DEF Position
  <2>2. queue'[k] = queue[h]
    BY <1>3, <1>5
  <2>3. queue[h] # p /\ queue[h] \in Op
    BY <1>1, <2>1, QueueTypes DEF Queued
  <2> QED
    BY <1>4, <2>1, <2>2, <2>3 DEF Available, Pending
<1> QED
  BY <1>1, <1>3, <1>5

LEMMA QueuedInit == Init => Queued
<1> SUFFICES ASSUME Init PROVE Queued
  OBVIOUS
<1>1. Position = {} /\ \A p \in Op : pc[p] = "idle"
  BY DEF Init, Position
<1> QED
  BY <1>1 DEF Queued

\* What an operation asks for changes only with the flush it is about.
LEMMA ScopeSame ==
  ASSUME NEW q, q \in Flusher => flush'[q] = flush[q]
  PROVE  InScope(q)' = InScope(q)
BY DEF InScope, Scope

LEMMA QueuedFrame ==
  ASSUME Types, Queued, UNCHANGED <<queue, answer>>,
         \A q \in Op : pc'[q] = "apply" <=> pc[q] = "apply",
         \A f \in Flusher : pc[f] = "apply" => flush'[f] = flush[f]
  PROVE  Queued'
<1>1. Position' = Position /\ \A i \in Position : /\ queue[i] \in Op /\ pc[queue[i]] = "apply"
                                                 /\ Available(i)' = Available(i)
                                                 /\ Pending(i)' = Pending(i)
  BY QueueTypes DEF Position, Available, Pending, Queued
<1>2. \A i \in Position, q \in Op : queue[i] = q => InScope(q)' = InScope(q)
  BY <1>1, ScopeSame
<1>3. /\ \A i, j \in Position' : queue'[i] = queue'[j] => i = j
      /\ \A p \in Op : pc'[p] = "apply" <=> \E i \in Position' : queue'[i] = p
      /\ \A i \in Position' : Available(i)' \cap Pending(i)' = {}
  BY <1>1 DEF Queued
<1>4. \A i \in Position', p \in Op :
        queue'[i] = p => Available(i)' \cup Pending(i)' \subseteq InScope(p)'
  BY <1>1, <1>2 DEF Queued
<1> QED
  BY <1>3, <1>4 DEF Queued

LEMMA QueuedGoto ==
  ASSUME Types, Queued, NEW p \in Op, NEW place, Goto(p, place),
         pc[p] # "apply", place # "apply", UNCHANGED <<queue, answer>>,
         \A f \in Flusher : f # p => flush'[f] = flush[f]
  PROVE  Queued'
<1>1. \A q \in Op : pc'[q] = IF q = p THEN place ELSE pc[q]
  BY DEF Goto, Types
<1> QED
  BY <1>1, QueuedFrame

LEMMA QueuedStep == Types /\ Queued /\ [Next]_vars => Queued'
<1> SUFFICES ASSUME Types, Queued, [Next]_vars PROVE Queued'
  OBVIOUS
<1> USE DEF manager, debounce, fetching, operators
<1>1. ASSUME NEW p \in Op,
             ConsolidateStart(p) \/ AcquireOutputs(p) \/ Insufficient(p) \/ AcquireBatch(p)
               \/ Returns(p) \/ FlushStart(p) \/ FlushEmits(p) \/ SendFails(p)
      PROVE  Queued'
  <2>1. \E place : Goto(p, place) /\ place # "apply" /\ pc[p] # "apply"
    BY <1>1 DEF ConsolidateStart, AcquireOutputs, Insufficient, AcquireBatch, Returns, FlushStart,
                FlushEmits, SendFails
  <2>2. UNCHANGED <<queue, answer>>
    BY <1>1 DEF ConsolidateStart, AcquireOutputs, Insufficient, AcquireBatch, Returns, FlushStart,
                FlushEmits, SendFails, EndCall
  <2>3. \A f \in Flusher : f # p => flush'[f] = flush[f]
    BY <1>1 DEF ConsolidateStart, AcquireOutputs, Insufficient, AcquireBatch, Returns, FlushStart,
                FlushEmits, SendFails, EndCall, Types
  <2> QED
    BY <2>1, <2>2, <2>3, QueuedGoto
<1>2. ASSUME NEW p \in Op, FetchFails(p) \/ MetadataFails(p) PROVE Queued'
  <2>1. \E place : Goto(p, place) /\ place # "apply" /\ pc[p] # "apply"
    BY <1>2 DEF FetchFails, MetadataFails, Fails, Fetching
  <2>2. UNCHANGED <<queue, answer>> /\ \A f \in Flusher : f # p => flush'[f] = flush[f]
    BY <1>2 DEF FetchFails, MetadataFails, Fails, Types
  <2> QED
    BY <2>1, <2>2, QueuedGoto
<1>3. ASSUME NEW p \in Op, Fetch(p) PROVE Queued'
  <2>0. PICK n : n = Len(queue) + 1
    OBVIOUS
  <2>1. n \in Nat /\ Position' = Position \cup {n} /\ n \notin Position
    BY <1>3, <2>0, FetchQueue, QueueTypes DEF Position
  <2>2. \A q \in Op : pc'[q] = IF q = p THEN "apply" ELSE pc[q]
    BY <1>3 DEF Fetch, Goto, Types
  <2>3. \A q : InScope(q)' = InScope(q)
    BY <1>3, ScopeSame DEF Fetch
  <2>4. /\ \A i \in Position : /\ queue'[i] = queue[i] /\ queue[i] # p
                               /\ Available(i)' = Available(i) /\ Pending(i)' = Pending(i)
        /\ queue'[n] = p
        /\ Available(n)' = {o \in InScope(p) : so[o] = "available"}
        /\ Pending(n)' = {o \in InScope(p) : so[o] = "pending"}
    BY <1>3, <2>0, FetchQueue
  <2>5. \A i, j \in Position' : queue'[i] = queue'[j] => i = j
    BY <2>1, <2>4 DEF Queued
  <2>6. \A q \in Op : pc'[q] = "apply" <=> \E i \in Position' : queue'[i] = q
    BY <2>1, <2>2, <2>4 DEF Queued
  <2>7. \A i \in Position' : Available(i)' \cap Pending(i)' = {}
    BY <2>1, <2>4 DEF Queued
  <2>8. \A i \in Position', q \in Op :
          queue'[i] = q => Available(i)' \cup Pending(i)' \subseteq InScope(q)'
    BY <2>1, <2>3, <2>4 DEF Queued
  <2> QED
    BY <2>5, <2>6, <2>7, <2>8 DEF Queued
<1>4. ASSUME NEW p \in Op, Apply(p) PROVE Queued'
  <2>1. PICK r \in Position :
           /\ queue[r] = p
           /\ Len(queue') = Len(queue) - 1
           /\ \A k \in 1..(Len(queue) - 1) :
                LET h == IF k < r THEN k ELSE k + 1
                IN /\ h \in Position /\ h # r
                   /\ queue'[k] = queue[h] /\ queue[h] # p
                   /\ Available(k)' = Available(h) /\ Pending(k)' = Pending(h)
    BY <1>4, ApplyQueue
  <2> DEFINE h(k) == IF k < r THEN k ELSE k + 1
  <2>2. Position' = 1..(Len(queue) - 1) /\ Len(queue) \in Nat
    BY <2>1, QueueTypes DEF Position
  <2>3. \A k \in Position' : /\ h(k) \in Position /\ h(k) # r
                             /\ queue'[k] = queue[h(k)] /\ queue[h(k)] # p
                             /\ Available(k)' = Available(h(k)) /\ Pending(k)' = Pending(h(k))
    BY <2>1, <2>2
  <2>4. \A j \in Position : j # r => \E k \in Position' : h(k) = j
    <3> SUFFICES ASSUME NEW j \in Position, j # r PROVE \E k \in Position' : h(k) = j
      OBVIOUS
    <3>1. CASE j < r
      BY <2>2, <3>1 DEF Position
    <3>2. CASE ~(j < r)
      <4>1. j - 1 \in Position' /\ h(j - 1) = j
        BY <2>2, <3>2 DEF Position
      <4> QED
        BY <4>1
    <3> QED
      BY <3>1, <3>2
  <2>5. \A i, j \in Position' : h(i) = h(j) => i = j
    BY <2>2 DEF Position
  <2>6. \A q \in Op : q # p => pc'[q] = pc[q]
    BY <1>4 DEF Apply, Goto, Types
  <2>7. pc'[p] # "apply"
    BY <1>4 DEF Apply, Goto, Types
  <2>8. \A q : InScope(q)' = InScope(q)
    BY <1>4, ScopeSame DEF Apply
  <2> HIDE DEF h
  <2>9. \A i, j \in Position' : queue'[i] = queue'[j] => i = j
    BY <2>3, <2>5 DEF Queued
  <2>10. \A q \in Op : pc'[q] = "apply" <=> \E i \in Position' : queue'[i] = q
    BY <2>1, <2>3, <2>4, <2>6, <2>7 DEF Queued
  <2>11. \A i \in Position' : Available(i)' \cap Pending(i)' = {}
    BY <2>3 DEF Queued
  <2>12. \A i \in Position', q \in Op :
           queue'[i] = q => Available(i)' \cup Pending(i)' \subseteq InScope(q)'
    BY <2>3, <2>8 DEF Queued
  <2> QED
    BY <2>9, <2>10, <2>11, <2>12 DEF Queued
<1>5. ASSUME NEW p \in Buyer, Accept(p) PROVE Queued'
  BY <1>5, QueuedGoto DEF Accept, EndCall, Op
<1>6. ASSUME UNCHANGED <<pc, queue, answer, flush>> PROVE Queued'
  BY <1>6, QueuedFrame
<1>7. ASSUME NEW p \in Buyer, Finalize(p) \/ Return(p) PROVE Queued'
  BY <1>6, <1>7 DEF Finalize, Return
<1>8. ASSUME NEW o \in Incoming, Receive(o) PROVE Queued'
  BY <1>6, <1>8 DEF Receive
<1>9. ASSUME NEW x \in Tx, scheduleTokenSync(x) PROVE Queued'
  BY <1>6, <1>9 DEF scheduleTokenSync
<1>10. CASE Tick
  BY <1>6, <1>10 DEF Tick
<1>11. CASE UNCHANGED vars
  BY <1>6, <1>11 DEF vars
<1> QED
  BY <1>1, <1>2, <1>3, <1>4, <1>5, <1>7, <1>8, <1>9, <1>10, <1>11 DEF Next, Step, Trouble

-----------------------------------------------------------------------------
(***************************************************************************)
(* Locks.  An operation is done with its answer within Patience ticks, so  *)
(* what was locked when the answer was given has a young lock still; and   *)
(* only answers that cannot call a held output pending come later.         *)
(***************************************************************************)
InTime == "overtake" \notin Env /\ "slow" \notin Env /\ 2 * Patience <= Expiry

Wait(i) == waited[queue[i]]

Times ==
  /\ \A p \in Op : Busy(p) => waited[p] <= Patience
  /\ \A i, j \in Position : i < j => Wait(j) <= Wait(i)
  /\ \A p \in Buyer, i \in Position : Taking(p) => Wait(i) <= waited[p]

Gone(o) == so[o] \in {"pending", "spent"}
Doomed(o) == Gone(o) \/ \E j \in Position : o \in Pending(j)
\* A lock at most Patience older than what happened n ticks ago.
Young(o, n) == age[o] >= 0 /\ age[o] <= n + Patience

\* An answer that is out of date meets a lock, and two answers that differ
\* tell of one return at most.
Answers ==
  /\ \A i \in Position : \A o \in Available(i) : Gone(o) => Young(o, Wait(i))
  /\ \A i, j \in Position : i < j => \A o \in Available(i) \cap Pending(j) : Young(o, Wait(i))
  /\ \A i, j \in Position : i < j => \A o \in Pending(i) \cap Available(j) : ~Gone(o)
  /\ \A i, j, k \in Position : i < j /\ j < k => Pending(i) \cap Available(j) \cap Pending(k) = {}

\* So does a Buyer that selects.
Offers ==
  \A p \in Buyer : pc[p] = "acquire" =>
    \A o \in available \cap InScope(p) : Doomed(o) => Young(o, waited[p])

\* What a Buyer has taken is locked, and still its own.
Held ==
  /\ \A p \in Buyer : Taking(p) =>
       \A o \in Took(p) : age[o] >= 0 /\ age[o] <= waited[p] /\ ~Doomed(o)
  /\ \A p, q \in Buyer : p # q /\ Taking(p) /\ Taking(q) => Took(p) \cap Took(q) = {}

Locks == Times /\ Answers /\ Offers /\ Held

LEMMA LocksInit == Init => Locks
<1> SUFFICES ASSUME Init PROVE Locks
  OBVIOUS
<1>1. Position = {} /\ \A p \in Op : pc[p] = "idle"
  BY DEF Init, Position
<1>2. Buyer \subseteq Op
  BY DEF Op
<1> QED
  BY <1>1, <1>2 DEF Locks, Times, Answers, Offers, Held, Busy, Taking

LEMMA BusyKinds ==
  Types /\ Queued =>
    /\ \A p \in Op : Taking(p) => Busy(p)
    /\ \A i \in Position : queue[i] \in Op /\ Busy(queue[i]) /\ pc[queue[i]] = "apply"
    /\ Buyer \subseteq Op
    /\ Patience \in Nat /\ Expiry \in Nat
BY QueueTypes, TokenOutputsAssumption DEF Taking, Busy, Queued, Op

\* What a Buyer asks for does not change.
LEMMA BuyerScope == \A p \in Buyer : InScope(p)' = InScope(p)
BY ScopeSame, Kinds

\* A step that gives no answer, takes no output and brings none to an end.
LEMMA LocksFrame ==
  ASSUME Types, Queued, Queued', Locks,
         UNCHANGED <<available, age, queue, answer, taken>>,
         \A o \in Output : Gone(o)' => Gone(o),
         \A p \in Op : Busy(p)' => pc'[p] = pc[p] /\ waited'[p] = waited[p]
  PROVE  Locks'
<1>1. Position' = Position
      /\ \A i \in Position : Available(i)' = Available(i) /\ Pending(i)' = Pending(i)
  BY DEF Position, Available, Pending
<1>2. \A p \in Op : Taking(p)' => Taking(p) /\ Busy(p)'
  BY DEF Taking, Busy
<1>3. \A i \in Position : Wait(i)' = Wait(i)
  BY BusyKinds, <1>1 DEF Wait, Queued, Position, Busy
<1>4. \A o \in Output : Doomed(o)' => Doomed(o)
  BY <1>1 DEF Doomed
<1>5. \A p : Took(p)' = Took(p)
  BY DEF Took
<1>6. \A o, n : Young(o, n)' = Young(o, n)
  BY DEF Young
<1>7. Times'
  BY <1>1, <1>2, <1>3, BusyKinds DEF Locks, Times, Busy
<1>8. Answers'
  <2>1. \A i \in Position : \A o \in Available(i) : Gone(o)' => Young(o, Wait(i))
    BY QueueTypes DEF Locks, Answers
  <2>2. \A i, j \in Position : i < j => \A o \in Pending(i) \cap Available(j) : ~Gone(o)'
    BY QueueTypes DEF Locks, Answers
  <2> QED
    BY <1>1, <1>3, <2>1, <2>2 DEF Locks, Answers, Young
<1>9. Offers'
  <2> SUFFICES ASSUME NEW p \in Buyer, pc'[p] = "acquire",
                      NEW o \in available \cap InScope(p), Doomed(o)'
               PROVE  Young(o, waited[p]) /\ waited'[p] = waited[p]
    BY BuyerScope DEF Offers, Young
  <2>1. p \in Op /\ pc[p] = "acquire" /\ waited'[p] = waited[p]
    BY BusyKinds DEF Busy
  <2> QED
    BY <2>1, <1>4 DEF Locks, Offers, Types
<1>10. Held'
  BY <1>2, <1>4, <1>5, BusyKinds, TookIn DEF Locks, Held
<1> QED
  BY <1>7, <1>8, <1>9, <1>10 DEF Locks

\* A new answer: an output it calls available is not gone, and one it calls
\* pending is.
LEMMA LocksFetch ==
  ASSUME Types, Queued, Locks, NEW p \in Op, Fetch(p)
  PROVE  Locks'
<1> USE DEF manager, debounce, fetching, operators
<1>1. PICK n : n = Len(queue) + 1
  OBVIOUS
<1>2. n \in Nat /\ Position' = Position \cup {n} /\ \A i \in Position : i \in Nat /\ i < n
  BY <1>1, FetchQueue, QueueTypes DEF Position
<1>3. \A i \in Position : /\ queue'[i] = queue[i] /\ queue[i] # p
                          /\ Available(i)' = Available(i) /\ Pending(i)' = Pending(i)
  BY <1>1, FetchQueue
<1>4. /\ queue'[n] = p
      /\ \A o \in Available(n)' : ~Gone(o)
      /\ \A o \in Pending(n)' : Gone(o)
  BY <1>1, FetchQueue DEF Gone
<1>5. UNCHANGED <<available, age, taken, so>> /\ \A o : Gone(o)' = Gone(o)
  BY DEF Fetch, Gone
<1>6. /\ \A q \in Op : pc'[q] = IF q = p THEN "apply" ELSE pc[q]
      /\ \A q \in Op : waited'[q] = IF q = p THEN 0 ELSE waited[q]
  BY DEF Fetch, Goto, Types
<1>7. (\A i \in Position : Wait(i)' = Wait(i) /\ Wait(i) \in Nat) /\ Wait(n)' = 0
  BY <1>3, <1>4, <1>6, QueueTypes DEF Wait
<1>8. \A o : Doomed(o)' = Doomed(o)
  BY <1>2, <1>3, <1>4, <1>5 DEF Doomed
<1>9. \A q \in Op : Taking(q)' => Taking(q) /\ q # p /\ waited'[q] = waited[q]
  BY <1>6 DEF Taking
<1>10. \A q : Took(q)' = Took(q)
  BY <1>5 DEF Took
<1>11. Times'
  <2>1. \A q \in Op : Busy(q)' => waited'[q] <= Patience
    BY <1>6, BusyKinds DEF Locks, Times, Busy
  <2>2. \A i, j \in Position' : i < j => Wait(j)' <= Wait(i)'
    BY <1>2, <1>7 DEF Locks, Times
  <2>3. \A q \in Buyer, i \in Position' : Taking(q)' => Wait(i)' <= waited'[q]
    BY <1>2, <1>7, <1>9, BusyKinds DEF Locks, Times, Types
  <2> QED
    BY <2>1, <2>2, <2>3 DEF Times
<1>12. Answers'
  <2>1. \A i \in Position' : \A o \in Available(i)' : Gone(o)' => Young(o, Wait(i))'
    BY <1>2, <1>3, <1>4, <1>5, <1>7 DEF Locks, Answers, Young
  <2>2. \A i, j \in Position' : i < j => \A o \in Available(i)' \cap Pending(j)' : Young(o, Wait(i))'
    BY <1>2, <1>3, <1>4, <1>5, <1>7 DEF Locks, Answers, Young
  <2>3. \A i, j \in Position' : i < j => \A o \in Pending(i)' \cap Available(j)' : ~Gone(o)'
    BY <1>2, <1>3, <1>4, <1>5 DEF Locks, Answers
  <2>4. \A i, j, k \in Position' : i < j /\ j < k => Pending(i)' \cap Available(j)' \cap Pending(k)' = {}
    BY <1>2, <1>3, <1>4, <1>5 DEF Locks, Answers
  <2> QED
    BY <2>1, <2>2, <2>3, <2>4 DEF Answers
<1>13. Offers'
  <2> SUFFICES ASSUME NEW q \in Buyer, pc'[q] = "acquire",
                      NEW o \in available \cap InScope(q), Doomed(o)
               PROVE  Young(o, waited[q]) /\ waited'[q] = waited[q]
    BY <1>5, <1>8, BuyerScope DEF Offers, Young
  <2>1. q \in Op /\ pc[q] = "acquire" /\ waited'[q] = waited[q]
    BY <1>6, BusyKinds
  <2> QED
    BY <2>1 DEF Locks, Offers
<1>14. Held'
  BY <1>5, <1>8, <1>9, <1>10, BusyKinds DEF Locks, Held
<1> QED
  BY <1>11, <1>12, <1>13, <1>14 DEF Locks

\* The first answer is applied.  It unlocks what it calls pending, which
\* nobody holds and no later answer is wrong about.
LEMMA LocksApply ==
  ASSUME InTime, Types, Calls, Queued, Locks, NEW p \in Op, Apply(p)
  PROVE  Locks'
<1> USE DEF manager, debounce, fetching, operators
<1>1. /\ 1 \in Position /\ queue[1] = p
      /\ Len(queue') = Len(queue) - 1
      /\ \A k \in 1..(Len(queue) - 1) :
           /\ k + 1 \in Position
           /\ queue'[k] = queue[k + 1] /\ queue[k + 1] # p
           /\ Available(k)' = Available(k + 1) /\ Pending(k)' = Pending(k + 1)
  <2>1. PICK r \in Position :
           /\ r = 1 \/ "overtake" \in Env
           /\ queue[r] = p
           /\ Len(queue') = Len(queue) - 1
           /\ \A k \in 1..(Len(queue) - 1) :
                LET h == IF k < r THEN k ELSE k + 1
                IN /\ h \in Position /\ h # r
                   /\ queue'[k] = queue[h] /\ queue[h] # p
                   /\ Available(k)' = Available(h) /\ Pending(k)' = Pending(h)
    BY ApplyQueue
  <2>2. r = 1
    BY <2>1 DEF InTime
  <2>3. \A k \in 1..(Len(queue) - 1) : ~(k < 1)
    BY QueueTypes
  <2> QED
    BY <2>1, <2>2, <2>3
<1>2. /\ \A k \in Position' : k \in Int /\ k + 1 \in Position /\ 1 < k + 1
      /\ \A i, j \in Position' : i < j => i + 1 < j + 1
  BY <1>1, QueueTypes DEF Position
<1>3. \A k \in Position' : /\ queue'[k] = queue[k + 1] /\ queue[k + 1] # p
                           /\ Available(k)' = Available(k + 1) /\ Pending(k)' = Pending(k + 1)
  BY <1>1, QueueTypes DEF Position
<1>4. UNCHANGED <<taken, so>> /\ \A o : Gone(o)' = Gone(o)
  BY DEF Apply, Gone
<1>5. \A q \in Op : q # p => pc'[q] = pc[q] /\ waited'[q] = waited[q]
  BY DEF Apply, Goto, Types
<1>6. /\ p \in Buyer => pc'[p] = "acquire" /\ waited'[p] = waited[p]
      /\ p \notin Buyer => ~Busy(p)'
  <2>1. CASE p \in Buyer
    BY <2>1, Kinds DEF Apply, Goto, Types
  <2>2. CASE p \in Flusher /\ p \notin Buyer
    BY <2>2, Kinds DEF Apply, Goto, Types, Busy
  <2>3. CASE p \notin Flusher /\ p \notin Buyer
    BY <2>3, Kinds DEF Apply, Goto, Types, Busy
  <2> QED
    BY <2>1, <2>2, <2>3
<1>7. /\ \A o \in Output : o \notin Pending(1) => age'[o] = age[o]
      /\ available' = (available \ InScope(p)) \cup Available(1)
  BY <1>1 DEF Apply, setOutputs, Available, Pending
<1>8. /\ Pending(1) \subseteq InScope(p) /\ Available(1) \subseteq InScope(p)
      /\ Available(1) \cap Pending(1) = {}
  BY <1>1 DEF Queued
<1>9. (\A k \in Position' : Wait(k)' = Wait(k + 1)) /\ Wait(1) = waited[p]
  BY <1>1, <1>2, <1>3, <1>5, QueueTypes DEF Wait
<1>10. \A o : Doomed(o)' => Doomed(o)
  BY <1>2, <1>3, <1>4 DEF Doomed
<1>11. \A q \in Op : q # p => Taking(q)' = Taking(q)
  BY <1>5 DEF Taking
<1>12. (\A q : Took(q)' = Took(q)) /\ (p \in Buyer => Took(p) = {})
  <2>1. p \in Buyer => taken[p] = <<>>
    BY DEF Apply, Calls, Early
  <2> QED
    BY <1>4, <2>1 DEF Took, ToSet
<1>13. Times'
  <2>1. \A q \in Op : Busy(q)' => waited'[q] <= Patience
    <3>1. pc[p] = "apply"
      BY DEF Apply
    <3> QED
      BY <1>5, <1>6, <3>1 DEF Locks, Times, Busy
  <2>2. \A i, j \in Position' : i < j => Wait(j)' <= Wait(i)'
    BY <1>2, <1>9 DEF Locks, Times
  <2>3. \A q \in Buyer, i \in Position' : Taking(q)' => Wait(i)' <= waited'[q]
    BY <1>1, <1>2, <1>5, <1>6, <1>9, <1>11, BusyKinds DEF Locks, Times
  <2> QED
    BY <2>1, <2>2, <2>3 DEF Times
<1>15. Answers'
  <2>1. ASSUME NEW i \in Position', NEW o \in Available(i)', Gone(o)
        PROVE  age'[o] >= 0 /\ age'[o] <= Wait(i)' + Patience
    <3>1. o \notin Pending(1) /\ Young(o, Wait(i + 1)) /\ o \in Output
      BY <1>1, <1>2, <1>3, <2>1, QueueTypes DEF Locks, Answers
    <3> QED
      BY <1>7, <1>9, <3>1 DEF Young
  <2>2. ASSUME NEW i \in Position', NEW j \in Position', i < j, NEW o \in Available(i)' \cap Pending(j)'
        PROVE  age'[o] >= 0 /\ age'[o] <= Wait(i)' + Patience
    <3>1. o \notin Pending(1) /\ Young(o, Wait(i + 1)) /\ o \in Output
      BY <1>1, <1>2, <1>3, <2>2, QueueTypes DEF Locks, Answers
    <3> QED
      BY <1>7, <1>9, <3>1 DEF Young
  <2>3. \A i, j \in Position' : i < j => \A o \in Pending(i)' \cap Available(j)' : ~Gone(o)'
    BY <1>2, <1>3, <1>4 DEF Locks, Answers
  <2>4. \A i, j, k \in Position' : i < j /\ j < k => Pending(i)' \cap Available(j)' \cap Pending(k)' = {}
    BY <1>2, <1>3 DEF Locks, Answers
  <2> QED
    BY <1>4, <2>1, <2>2, <2>3, <2>4 DEF Answers, Young
<1>16. Offers'
  <2> SUFFICES ASSUME NEW q \in Buyer, pc'[q] = "acquire",
                      NEW o \in available' \cap InScope(q), Doomed(o)'
               PROVE  age'[o] >= 0 /\ age'[o] <= waited'[q] + Patience
    BY BuyerScope DEF Offers, Young
  <2>1. waited'[q] = waited[q] /\ q \in Op /\ waited[q] \in Nat /\ waited[p] \in Nat /\ Patience \in Nat
    BY <1>5, <1>6, BusyKinds DEF Types
  <2>2. CASE o \in Available(1)
    <3>1. Young(o, waited[p])
      BY <1>1, <1>2, <1>3, <1>4, <1>9, <2>2 DEF Doomed, Locks, Answers
    <3>2. waited[p] <= waited[q]
      <4>1. CASE q = p
        BY <4>1, <2>1
      <4>2. CASE q # p
        <5>1. Taking(q)
          BY <1>11, <4>2, <2>1 DEF Taking
        <5> QED
          BY <1>1, <1>9, <5>1 DEF Locks, Times
      <4> QED
        BY <4>1, <4>2
    <3>3. o \in Output /\ age'[o] = age[o] /\ age[o] \in Int
      BY <1>1, <1>7, <1>8, <2>2, QueueTypes DEF Types
    <3> QED
      BY <2>1, <3>1, <3>2, <3>3 DEF Young
  <2>3. CASE o \notin Available(1)
    <3>1. o \in available /\ o \notin InScope(p) /\ o \in Output
      BY <1>7, <2>3 DEF Types
    <3>2. q # p /\ age'[o] = age[o]
      BY <1>7, <1>8, <3>1
    <3>3. pc[q] = "acquire" /\ Doomed(o)
      BY <1>5, <1>10, <2>1, <3>2
    <3>4. Young(o, waited[q])
      BY <3>1, <3>3 DEF Locks, Offers
    <3> QED
      BY <2>1, <3>2, <3>4 DEF Young
  <2> QED
    BY <2>2, <2>3
<1>17. Held'
  <2>1. ASSUME NEW q \in Buyer, Taking(q)', NEW o \in Took(q)
        PROVE  age'[o] >= 0 /\ age'[o] <= waited'[q] /\ ~Doomed(o)'
    <3>1. q # p /\ q \in Op /\ Taking(q) /\ waited'[q] = waited[q]
      BY <1>5, <1>11, <1>12, <2>1, BusyKinds
    <3>2. age[o] >= 0 /\ age[o] <= waited[q] /\ ~Doomed(o)
      BY <3>1, <2>1 DEF Locks, Held
    <3>3. o \in Output /\ o \notin Pending(1)
      BY <1>1, <2>1, <3>2, TookIn DEF Doomed
    <3> QED
      BY <1>7, <1>10, <3>1, <3>2, <3>3
  <2>2. \A q, r \in Buyer : q # r /\ Taking(q)' /\ Taking(r)' => Took(q) \cap Took(r) = {}
    BY <1>11, <1>12, BusyKinds DEF Locks, Held
  <2> QED
    BY <1>12, <2>1, <2>2 DEF Held
<1> QED
  BY <1>13, <1>15, <1>16, <1>17 DEF Locks

\* A Buyer selects: what has no lock left is neither gone nor held, and no
\* lock that is still needed has expired.
LEMMA LocksTake ==
  ASSUME InTime, Types, Queued, Queued', Locks,
         NEW p \in Buyer, pc[p] = "acquire", NEW place \in {"acquire", "send", "over"}, Goto(p, place),
         UNCHANGED <<available, queue, answer, so>>,
         NEW S \in SUBSET available, S \subseteq InScope(p),
         \A o \in S : cleanupExpiredLocks[o] = Unlocked,
         Lock(S) \/ (S = {} /\ age' = age),
         \A q \in Op : q # p \/ place # "over" => waited'[q] = waited[q],
         \A q \in Buyer : q # p => Took(q)' = Took(q),
         place # "over" => Took(p)' \subseteq Took(p) \cup S
  PROVE  Locks'
<1>1. Position' = Position
      /\ \A i \in Position : Available(i)' = Available(i) /\ Pending(i)' = Pending(i)
  BY DEF Position, Available, Pending
<1>2. \A o : Gone(o)' = Gone(o)
  BY DEF Gone
<1>3. \A o : Doomed(o)' = Doomed(o)
  BY <1>1, <1>2 DEF Doomed
<1>4. \A q \in Op : pc'[q] = IF q = p THEN place ELSE pc[q]
  BY DEF Goto, Types
<1>5. \A q \in Op : Busy(q)' => Busy(q) /\ waited'[q] = waited[q]
  BY <1>4, BusyKinds DEF Busy
<1>6. \A q \in Op : Taking(q)' => Taking(q) /\ waited'[q] = waited[q] /\ (q = p => place # "over")
  BY <1>4, BusyKinds DEF Taking
<1>7. \A i \in Position : Wait(i)' = Wait(i) /\ Wait(i) \in Nat /\ Wait(i) <= Patience
  <2> SUFFICES ASSUME NEW i \in Position
               PROVE  Wait(i)' = Wait(i) /\ Wait(i) \in Nat /\ Wait(i) <= Patience
    OBVIOUS
  <2>1. queue[i] \in Op /\ Busy(queue[i]) /\ pc[queue[i]] = "apply"
    BY BusyKinds
  <2> QED
    BY <2>1, QueueTypes DEF Wait, Locks, Times
<1>8. ASSUME NEW o \in Output, age[o] >= 0, age[o] <= Patience + Patience
      PROVE  /\ cleanupExpiredLocks[o] # Unlocked /\ o \notin S
             /\ age'[o] = age[o]
  <2>1. age[o] \in Int /\ Patience \in Nat /\ Expiry \in Nat /\ Patience + Patience <= Expiry
    BY BusyKinds DEF Types, InTime
  <2>2. cleanupExpiredLocks[o] = age[o] /\ cleanupExpiredLocks[o] # Unlocked
    BY <1>8, <2>1 DEF cleanupExpiredLocks, Unlocked
  <2> QED
    BY <2>2 DEF Lock
<1>9. ASSUME NEW o \in S PROVE age'[o] = 0 /\ o \in Output
  BY DEF Lock, Types
<1>10. ASSUME NEW o \in Output, NEW n \in Nat, n <= Patience, Young(o, n)
       PROVE  o \notin S /\ age'[o] >= 0 /\ age'[o] <= n + Patience
  <2>1. age[o] \in Int /\ Patience \in Nat
    BY BusyKinds DEF Types
  <2>2. age[o] >= 0 /\ age[o] <= n + Patience /\ age[o] <= Patience + Patience
    BY <1>10, <2>1 DEF Young
  <2> QED
    BY <1>8, <2>2
<1>11. waited[p] \in Nat /\ waited[p] <= Patience /\ p \in Op
  BY BusyKinds DEF Types, Locks, Times, Busy
<1>12. \A o \in S : ~Doomed(o)
  BY <1>10, <1>11 DEF Locks, Offers, Types
<1>13. Times'
  BY <1>1, <1>5, <1>6, <1>7, BusyKinds DEF Locks, Times
<1>14. Answers'
  <2>1. ASSUME NEW i \in Position, NEW o \in Available(i), Young(o, Wait(i))
        PROVE  age'[o] >= 0 /\ age'[o] <= Wait(i)' + Patience
    <3>1. o \in Output
      BY QueueTypes
    <3> QED
      BY <1>7, <1>10, <2>1, <3>1
  <2> QED
    BY <1>1, <1>2, <2>1 DEF Locks, Answers, Young
<1>15. Offers'
  <2> SUFFICES ASSUME NEW q \in Buyer, pc'[q] = "acquire",
                      NEW o \in available \cap InScope(q), Doomed(o)
               PROVE  age'[o] >= 0 /\ age'[o] <= waited'[q] + Patience
    BY <1>3, BuyerScope DEF Offers, Young
  <2>1. q \in Op /\ pc[q] = "acquire" /\ waited'[q] = waited[q] /\ waited[q] \in Nat
        /\ waited[q] <= Patience
    <3>1. q \in Op /\ Taking(q)'
      BY BusyKinds DEF Taking
    <3>2. pc[q] = "acquire"
      BY <1>4, <3>1
    <3> QED
      BY <1>6, <3>1, <3>2 DEF Types, Locks, Times, Busy
  <2>2. Young(o, waited[q]) /\ o \in Output
    BY <2>1 DEF Locks, Offers, Types
  <2> QED
    BY <1>10, <2>1, <2>2
<1>16. Held'
  <2>1. ASSUME NEW q \in Buyer, Taking(q), NEW o \in Took(q)
        PROVE  /\ o \notin S /\ age'[o] = age[o] /\ age[o] >= 0
               /\ age[o] <= waited[q] /\ ~Doomed(o)
    <3>1. age[o] >= 0 /\ age[o] <= waited[q] /\ ~Doomed(o) /\ o \in Output
      BY <2>1, TookIn DEF Locks, Held
    <3>2. waited[q] <= Patience /\ waited[q] \in Nat /\ age[o] \in Int /\ Patience \in Nat
      BY <2>1, <3>1, BusyKinds DEF Locks, Times, Types
    <3>3. age[o] <= Patience + Patience
      BY <3>1, <3>2
    <3> QED
      BY <1>8, <3>1, <3>3
  <2>2. ASSUME NEW q \in Buyer, Taking(q)', NEW o \in Took(q)'
        PROVE  age'[o] >= 0 /\ age'[o] <= waited'[q] /\ ~Doomed(o)
    <3>1. q \in Op /\ Taking(q) /\ waited'[q] = waited[q]
      BY <1>6, <2>2, BusyKinds
    <3>2. CASE o \in S
      <4>1. q = p
        <5>1. CASE q # p
          BY <2>1, <2>2, <3>1, <3>2, <5>1
        <5> QED
          BY <5>1
      <4> QED
        BY <1>9, <1>11, <1>12, <3>1, <3>2, <4>1
    <3>3. CASE o \notin S
      <4>1. o \in Took(q)
        BY <1>6, <2>2, <3>1, <3>3
      <4> QED
        BY <2>1, <3>1, <4>1
    <3> QED
      BY <3>2, <3>3
  <2>3. ASSUME NEW q \in Buyer, NEW r \in Buyer, q # r, Taking(q)', Taking(r)'
        PROVE  Took(q)' \cap Took(r)' = {}
    <3>1. Taking(q) /\ Taking(r) /\ q \in Op /\ r \in Op
      BY <1>6, <2>3, BusyKinds
    <3>2. Took(q) \cap Took(r) = {}
      BY <2>3, <3>1 DEF Locks, Held
    <3>3. Took(q) \cap S = {} /\ Took(r) \cap S = {}
      BY <2>1, <3>1
    <3>4. /\ Took(q)' \subseteq Took(q) \cup (IF q = p THEN S ELSE {})
          /\ Took(r)' \subseteq Took(r) \cup (IF r = p THEN S ELSE {})
      BY <1>6, <2>3, <3>1
    <3> QED
      BY <2>3, <3>2, <3>3, <3>4
  <2> QED
    BY <1>3, <2>2, <2>3 DEF Held
<1> QED
  BY <1>13, <1>14, <1>15, <1>16 DEF Locks

\* A transaction is accepted while its outputs are locked.
LEMMA LocksAccept ==
  ASSUME Types, Queued, Queued', Locks, NEW p \in Buyer, Accept(p)
  PROVE  Locks'
<1> USE DEF manager, debounce, fetching, operators
<1>1. Position' = Position
      /\ \A i \in Position : Available(i)' = Available(i) /\ Pending(i)' = Pending(i)
  BY DEF Position, Available, Pending, Accept
<1>2. \A o \in Output : Gone(o)' => Gone(o) \/ o \in Took(p)
  BY DEF Gone, Accept, Took, Types
<1>3. \A o \in Output : Doomed(o)' => Doomed(o) \/ o \in Took(p)
  BY <1>1, <1>2 DEF Doomed
<1>4. pc[p] = "send" /\ p \in Op /\ \A q \in Op : pc'[q] = IF q = p THEN "reply" ELSE pc[q]
  BY BusyKinds DEF Goto, Types, Accept
<1>5. \A q \in Op : q # p => waited'[q] = waited[q]
  BY DEF Accept, EndCall, Types
<1>6. \A q \in Op : Busy(q)' => q # p /\ Busy(q) /\ pc'[q] = pc[q] /\ waited'[q] = waited[q]
  BY <1>4, <1>5 DEF Busy
<1>7. \A q \in Op : Taking(q)' => q # p /\ Taking(q) /\ waited'[q] = waited[q]
  BY <1>4, <1>5 DEF Taking
<1>8. \A i \in Position : Wait(i)' = Wait(i) /\ Wait(i) \in Nat
  <2>1. UNCHANGED queue
    BY DEF Accept
  <2> QED
    BY <1>4, <1>5, <2>1, QueueTypes, BusyKinds DEF Wait
<1>9. UNCHANGED <<age, available, taken>> /\ \A q : Took(q)' = Took(q)
  BY DEF Accept, Took
<1>10. \A o \in Took(p) : /\ o \in Output /\ ~Doomed(o)
                          /\ \A n \in Nat : Young(o, n)
  <2> SUFFICES ASSUME NEW o \in Took(p), NEW n \in Nat
               PROVE  o \in Output /\ ~Doomed(o) /\ Young(o, n)
    OBVIOUS
  <2>1. Taking(p) /\ Busy(p)
    BY <1>4 DEF Taking, Busy
  <2>2. age[o] >= 0 /\ age[o] <= waited[p] /\ ~Doomed(o) /\ o \in Output
    BY <2>1, TookIn DEF Locks, Held
  <2>3. waited[p] <= Patience /\ waited[p] \in Nat /\ Patience \in Nat /\ age[o] \in Int
    BY <1>4, <2>1, <2>2, BusyKinds DEF Locks, Times, Types
  <2> QED
    BY <2>2, <2>3 DEF Young
<1>11. Times'
  BY <1>1, <1>6, <1>7, <1>8, BusyKinds DEF Locks, Times
<1>12. Answers'
  <2>1. \A i \in Position : \A o \in Available(i) : Gone(o)' => Young(o, Wait(i))
    BY <1>2, <1>8, <1>10, QueueTypes DEF Locks, Answers
  <2>2. \A i, j \in Position : i < j => \A o \in Pending(i) \cap Available(j) : ~Gone(o)'
    BY <1>2, <1>10, QueueTypes DEF Locks, Answers, Doomed
  <2> QED
    BY <1>1, <1>8, <1>9, <2>1, <2>2 DEF Locks, Answers, Young
<1>13. Offers'
  <2> SUFFICES ASSUME NEW q \in Buyer, pc'[q] = "acquire",
                      NEW o \in available \cap InScope(q), Doomed(o)'
               PROVE  Young(o, waited[q]) /\ waited'[q] = waited[q]
    BY <1>9, BuyerScope DEF Offers, Young
  <2>1. q \in Op /\ pc[q] = "acquire" /\ waited'[q] = waited[q] /\ waited[q] \in Nat /\ o \in Output
    BY <1>4, <1>5, BusyKinds DEF Types
  <2> QED
    BY <1>3, <1>10, <2>1 DEF Locks, Offers
<1>14. Held'
  <2>1. ASSUME NEW q \in Buyer, Taking(q)', NEW o \in Took(q)
        PROVE  age[o] >= 0 /\ age[o] <= waited'[q] /\ ~Doomed(o)'
    <3>1. q \in Op /\ q # p /\ Taking(q) /\ waited'[q] = waited[q]
      BY <1>7, <2>1, BusyKinds
    <3>2. Taking(p)
      BY <1>4 DEF Taking
    <3>3. o \notin Took(p) /\ o \in Output /\ age[o] >= 0 /\ age[o] <= waited[q] /\ ~Doomed(o)
      BY <2>1, <3>1, <3>2, TookIn DEF Locks, Held
    <3> QED
      BY <1>3, <3>1, <3>3
  <2>2. \A q, r \in Buyer : q # r /\ Taking(q)' /\ Taking(r)' => Took(q) \cap Took(r) = {}
    BY <1>7, BusyKinds DEF Locks, Held
  <2> QED
    BY <1>9, <2>1, <2>2 DEF Held
<1> QED
  BY <1>11, <1>12, <1>13, <1>14 DEF Locks

\* A tick ages a lock and what it is compared with alike.
LEMMA LocksTick ==
  ASSUME InTime, Types, Queued, Locks, Tick
  PROVE  Locks'
<1>1. Position' = Position
      /\ \A i \in Position : Available(i)' = Available(i) /\ Pending(i)' = Pending(i)
  BY DEF Position, Available, Pending, Tick
<1>2. \A o : Gone(o)' = Gone(o) /\ Doomed(o)' = Doomed(o)
  BY <1>1 DEF Gone, Doomed, Tick, operators
<1>3. \A q : Busy(q)' = Busy(q) /\ Taking(q)' = Taking(q) /\ Took(q)' = Took(q)
  BY DEF Busy, Taking, Took, Tick
<1>4. \A q \in Op : Busy(q) => waited[q] < Patience /\ waited'[q] = waited[q] + 1
  BY DEF Tick, InTime
<1>5. \A i \in Position : Wait(i)' = Wait(i) + 1 /\ Wait(i) \in Nat /\ Wait(i) < Patience
  BY <1>4, QueueTypes, BusyKinds DEF Wait, Tick
<1>6. ASSUME NEW o \in Output, NEW n \in Nat, n < Patience, Young(o, n)
      PROVE  age'[o] >= 0 /\ age'[o] <= n + 1 + Patience
  <2>1. age[o] \in Int /\ Patience \in Nat /\ Expiry \in Nat /\ Patience + Patience <= Expiry
    BY BusyKinds DEF Types, InTime
  <2>2. age'[o] = age[o] + 1
    BY <1>6, <2>1 DEF Young, Tick
  <2> QED
    BY <1>6, <2>1, <2>2 DEF Young
<1>7. Times'
  <2>1. \A q \in Op : Busy(q)' => waited'[q] <= Patience
    BY <1>3, <1>4, BusyKinds DEF Types
  <2>2. \A q \in Buyer, i \in Position : Taking(q)' => Wait(i)' <= waited'[q]
    <3> SUFFICES ASSUME NEW q \in Buyer, NEW i \in Position, Taking(q) PROVE Wait(i)' <= waited'[q]
      BY <1>3
    <3>1. Wait(i) <= waited[q] /\ waited[q] \in Nat /\ waited'[q] = waited[q] + 1
      BY <1>4, BusyKinds DEF Locks, Times, Types
    <3> QED
      BY <1>5, <3>1
  <2>3. \A i, j \in Position : i < j => Wait(j)' <= Wait(i)'
    BY <1>5 DEF Locks, Times
  <2> QED
    BY <1>1, <2>1, <2>2, <2>3 DEF Times
<1>8. Answers'
  <2>1. ASSUME NEW i \in Position, NEW o \in Available(i), Young(o, Wait(i))
        PROVE  age'[o] >= 0 /\ age'[o] <= Wait(i)' + Patience
    <3>1. o \in Output
      BY QueueTypes
    <3> QED
      BY <1>5, <1>6, <2>1, <3>1
  <2> QED
    BY <1>1, <1>2, <2>1 DEF Locks, Answers, Young
<1>9. Offers'
  <2> SUFFICES ASSUME NEW q \in Buyer, pc[q] = "acquire",
                      NEW o \in available \cap InScope(q), Doomed(o)
               PROVE  age'[o] >= 0 /\ age'[o] <= waited'[q] + Patience
    BY <1>2, BuyerScope DEF Offers, Young, Tick
  <2>1. waited[q] \in Nat /\ waited[q] < Patience /\ waited'[q] = waited[q] + 1
    BY <1>4, BusyKinds DEF Busy, Types
  <2>2. Young(o, waited[q]) /\ o \in Output
    BY DEF Locks, Offers, Types
  <2> QED
    BY <1>6, <2>1, <2>2
<1>10. Held'
  <2>1. ASSUME NEW q \in Buyer, Taking(q), NEW o \in Took(q)
        PROVE  age'[o] >= 0 /\ age'[o] <= waited'[q] /\ ~Doomed(o)
    <3>1. age[o] >= 0 /\ age[o] <= waited[q] /\ ~Doomed(o) /\ o \in Output
      BY <2>1, TookIn DEF Locks, Held
    <3>2. waited[q] \in Nat /\ waited[q] < Patience /\ waited'[q] = waited[q] + 1 /\ age[o] \in Int
      BY <1>4, <2>1, <3>1, BusyKinds DEF Types
    <3>3. age'[o] = age[o] + 1
      <4>1. age[o] \in 0..Expiry
        BY <3>1, <3>2, BusyKinds DEF InTime
      <4> QED
        BY <3>1, <4>1 DEF Tick
    <3> QED
      BY <3>1, <3>2, <3>3
  <2> QED
    BY <1>2, <1>3, <2>1 DEF Locks, Held
<1> QED
  BY <1>7, <1>8, <1>9, <1>10 DEF Locks

\* What a Buyer may select is of a token it asked for.
LEMMA SelectsInScope ==
  ASSUME Types, Calls, NEW p \in Buyer, pc[p] = "acquire", NEW S,
         \/ p \in Spender /\ S \subseteq getUnlockedOutputs(NextToken(p))
         \/ p \in Consolidator /\ S \subseteq available
  PROVE  S \subseteq InScope(p)
<1>1. CASE p \in Spender /\ S \subseteq getUnlockedOutputs(NextToken(p))
  <2>1. Len(taken[p]) < Len(Wants[p]) /\ taken[p] \in Seq(Output) /\ Wants[p] \in Seq(Token)
    BY <1>1, TokenOutputsAssumption DEF Calls, Types
  <2>2. Len(taken[p]) + 1 \in 1..Len(Wants[p])
    BY <2>1
  <2>3. NextToken(p) \in ToSet(Wants[p]) /\ NextToken(p) \in Token
    BY <2>1, <2>2, ElementsIn DEF NextToken
  <2>4. NextToken(p) \in Scope(p)
    BY <1>1, <2>3, Kinds DEF Scope
  <2> QED
    BY <1>1, <2>4 DEF getUnlockedOutputs, InScope, Types
<1>2. CASE p \in Consolidator /\ S \subseteq available
  BY <1>2, Kinds, TokenOutputsAssumption DEF Scope, InScope, Types
<1> QED
  BY <1>1, <1>2

LEMMA LocksStep ==
  InTime /\ Types /\ Calls /\ Queued /\ Queued' /\ Locks /\ [Next]_vars => Locks'
<1> SUFFICES ASSUME InTime, Types, Calls, Queued, Queued', Locks, [Next]_vars
             PROVE  Locks'
  OBVIOUS
<1> USE DEF manager, debounce, fetching, operators
<1>1. ASSUME NEW p \in Op, NEW place \in Places \ {"apply", "acquire", "send"}, Goto(p, place),
             UNCHANGED <<available, age, queue, answer, taken>>,
             \A o \in Output : Gone(o)' => Gone(o),
             \A q \in Op : q # p => waited'[q] = waited[q]
      PROVE  Locks'
  <2>1. \A q \in Op : pc'[q] = IF q = p THEN place ELSE pc[q]
    BY <1>1 DEF Goto, Types
  <2>2. \A q \in Op : Busy(q)' => pc'[q] = pc[q] /\ waited'[q] = waited[q]
    BY <1>1, <2>1 DEF Busy
  <2> QED
    BY <1>1, <2>2, LocksFrame
<1>2. ASSUME NEW p \in Op, ConsolidateStart(p) \/ Returns(p) \/ FlushStart(p) \/ FlushEmits(p)
      PROVE  Locks'
  <2>1. \E place \in Places \ {"apply", "acquire", "send"} : Goto(p, place)
    BY <1>2 DEF ConsolidateStart, Returns, FlushStart, FlushEmits, Places
  <2>2. UNCHANGED <<available, age, queue, answer, taken, waited, so>>
    BY <1>2 DEF ConsolidateStart, Returns, FlushStart, FlushEmits
  <2>3. \A o \in Output : Gone(o)' => Gone(o)
    BY <2>2 DEF Gone
  <2> QED
    BY <1>1, <2>1, <2>2, <2>3
<1>3. ASSUME NEW p \in Op, Trouble(p) PROVE Locks'
  <2>1. \E place \in Places \ {"apply", "acquire", "send"} : Goto(p, place)
    BY <1>3 DEF Trouble, FetchFails, MetadataFails, SendFails, Fails, Places
  <2>2. UNCHANGED <<available, age, queue, answer, taken, so>>
        /\ \A q \in Op : q # p => waited'[q] = waited[q]
    BY <1>3 DEF Trouble, FetchFails, MetadataFails, SendFails, EndCall, Types
  <2>3. \A o \in Output : Gone(o)' => Gone(o)
    BY <2>2 DEF Gone
  <2> QED
    BY <1>1, <2>1, <2>2, <2>3
<1>4. ASSUME UNCHANGED <<available, age, queue, answer, taken, waited, pc>>,
             \A o \in Output : Gone(o)' => Gone(o)
      PROVE  Locks'
  BY <1>4, LocksFrame
<1>5. ASSUME NEW p \in Buyer, Finalize(p) \/ Return(p) PROVE Locks'
  <2>1. \A o \in Took(p) : Gone(o)
    BY <1>5, TookIn DEF Finalize, Return, Calls, Gone
  <2>2. \A o \in Output : Gone(o)' => Gone(o)
    BY <1>5, <2>1 DEF Finalize, Return, Gone, Took
  <2> QED
    BY <1>4, <1>5, <2>2 DEF Finalize, Return
<1>6. ASSUME NEW o \in Incoming, Receive(o) PROVE Locks'
  <2>1. \A x \in Output : Gone(x)' => Gone(x)
    BY <1>6 DEF Receive, Gone, Types
  <2> QED
    BY <1>4, <1>6, <2>1 DEF Receive
<1>7. ASSUME NEW x \in Tx, scheduleTokenSync(x) PROVE Locks'
  BY <1>4, <1>7 DEF scheduleTokenSync, Gone
<1>8. CASE UNCHANGED vars
  BY <1>4, <1>8 DEF vars, Gone
<1>9. ASSUME NEW p \in Op, AcquireOutputs(p) PROVE Locks'
  <2>1. p \in Spender /\ p \in Buyer /\ pc[p] = "acquire"
    BY <1>9, Kinds DEF AcquireOutputs
  <2>2. PICK o \in getUnlockedOutputs(NextToken(p)) :
          Lock({o}) /\ taken' = [taken EXCEPT ![p] = Append(@, o)]
    BY <1>9 DEF AcquireOutputs
  <2>3. {o} \in SUBSET available /\ \A x \in {o} : cleanupExpiredLocks[x] = Unlocked
    BY <2>2 DEF getUnlockedOutputs
  <2>4. {o} \subseteq InScope(p)
    BY <2>1, <2>2, SelectsInScope
  <2>5. taken[p] \in Seq(Output) /\ o \in Output
    BY <2>1, <2>3 DEF Types
  <2>6. \A q \in Buyer : q # p => Took(q)' = Took(q)
    BY <2>2 DEF Took, Types
  <2>7. Took(p)' = Took(p) \cup {o}
    <3>1. taken'[p] = Append(taken[p], o)
      BY <2>1, <2>2 DEF Types
    <3> QED
      BY <2>5, <3>1, ElementsAppend DEF Took
  <2>8. UNCHANGED <<available, queue, answer, so, waited>>
    BY <1>9 DEF AcquireOutputs
  <2>9. \E place \in {"acquire", "send", "over"} : Goto(p, place)
    BY <1>9 DEF AcquireOutputs
  <2> QED
    BY <2>1, <2>2, <2>3, <2>4, <2>6, <2>7, <2>8, <2>9, LocksTake
<1>10. ASSUME NEW p \in Op, Insufficient(p) PROVE Locks'
  <2>1. /\ p \in Buyer /\ pc[p] = "acquire" /\ Goto(p, "over") /\ Lock({})
        /\ UNCHANGED <<available, queue, answer, so, taken>>
        /\ \A q \in Op : q # p => waited'[q] = waited[q]
    BY <1>10, Kinds DEF Insufficient, Types
  <2>2. \A q \in Buyer : Took(q)' = Took(q)
    BY <2>1 DEF Took
  <2>3. {} \in SUBSET available /\ {} \subseteq InScope(p)
        /\ \A x \in {} : cleanupExpiredLocks[x] = Unlocked
    OBVIOUS
  <2> QED
    BY <2>1, <2>2, <2>3, LocksTake
<1>11. ASSUME NEW p \in Op, AcquireBatch(p) PROVE Locks'
  <2>1. p \in Consolidator /\ p \in Buyer /\ pc[p] = "acquire"
        /\ UNCHANGED <<available, queue, answer, so>>
    BY <1>11, Kinds DEF AcquireBatch
  <2>2. PICK S \in SUBSET available :
          /\ IsBatch(S)
          /\ IF Eligible = {} THEN UNCHANGED age ELSE Lock(S)
          /\ taken' = [taken EXCEPT ![p] = SetToSeq(S)]
          /\ Goto(p, IF S = {} THEN "over" ELSE "send")
          /\ waited' = IF S = {} THEN [waited EXCEPT ![p] = 0] ELSE waited
    BY <1>11 DEF AcquireBatch
  <2>3. S \subseteq UNION {getUnlockedOutputs(t) : t \in Eligible}
    BY <2>2 DEF IsBatch
  <2>4. \A x \in S : cleanupExpiredLocks[x] = Unlocked
    BY <2>3 DEF getUnlockedOutputs
  <2>5. Lock(S) \/ (S = {} /\ age' = age)
    BY <2>2, <2>3
  <2>6. S \subseteq InScope(p)
    BY <2>1, SelectsInScope
  <2>7. \A q \in Buyer : q # p => Took(q)' = Took(q)
    BY <2>2 DEF Took, Types
  <2>8. Took(p)' \subseteq S
    <3>1. IsFiniteSet(S)
      BY FS_Subset, TokenOutputsAssumption DEF Types
    <3>2. taken'[p] = SetToSeq(S)
      BY <2>1, <2>2 DEF Types
    <3> QED
      BY <3>1, <3>2, SetToSeqIn DEF Took
  <2>9. CASE S = {}
    <3>1. Goto(p, "over") /\ \A q \in Op : q # p => waited'[q] = waited[q]
      BY <2>2, <2>9 DEF Types
    <3> QED
      BY <2>1, <2>4, <2>5, <2>6, <2>7, <3>1, LocksTake
  <2>10. CASE S # {}
    <3>1. Goto(p, "send") /\ waited' = waited
      BY <2>2, <2>10
    <3> QED
      BY <2>1, <2>4, <2>5, <2>6, <2>7, <2>8, <3>1, LocksTake
  <2> QED
    BY <2>9, <2>10
<1>12. ASSUME NEW p \in Op, Fetch(p) \/ Apply(p) PROVE Locks'
  BY <1>12, LocksFetch, LocksApply
<1>13. ASSUME NEW p \in Buyer, Accept(p) PROVE Locks'
  BY <1>13, LocksAccept
<1>14. CASE Tick
  BY <1>14, LocksTick
<1> QED
  BY <1>2, <1>3, <1>5, <1>6, <1>7, <1>8, <1>9, <1>10, <1>11, <1>12, <1>13, <1>14
     DEF Next, Step

(***************************************************************************)
(* The answers in the queue tell of one return at most and no more than a  *)
(* lock's life late, whatever is asked for and by whom.                    *)
(***************************************************************************)
THEOREM AnswersAreInTime == InTime => (Spec => [](Types /\ Calls /\ Queued /\ Locks))
<1> SUFFICES ASSUME InTime PROVE Spec => [](Types /\ Calls /\ Queued /\ Locks)
  OBVIOUS
<1>1. Init => Types /\ Calls /\ Queued /\ Locks
  BY TypesInit, CallsInit, QueuedInit, LocksInit
<1>2. Types /\ Calls /\ Queued /\ Locks /\ [Next]_vars => (Types /\ Calls /\ Queued /\ Locks)'
  BY TypesStep, CallsStep, QueuedStep, LocksStep
<1> QED
  BY <1>1, <1>2, PTL DEF Spec

(***************************************************************************)
(* No output is in two transactions of this wallet, if answers are applied *)
(* in order and a lock lives twice as long as an operation takes.          *)
(***************************************************************************)
THEOREM OneTransactionEach == InTime => (Spec => []OneTransactionPerOutput)
<1> SUFFICES ASSUME InTime PROVE Spec => []OneTransactionPerOutput
  OBVIOUS
<1>1. Types /\ Calls /\ Queued /\ Locks => OneTransactionPerOutput
  <2> SUFFICES ASSUME Types, Calls, Queued, Locks,
                      NEW p \in Buyer, NEW q \in Buyer, p # q, Holds(p), Holds(q)
               PROVE  Took(p) \cap Took(q) = {}
    BY DEF OneTransactionPerOutput, Took
  <2>1. /\ Taking(p) \/ Spends(p)
        /\ Taking(q) \/ Spends(q)
    BY DEF Holds, Taking, Spends
  <2>2. \A r \in Buyer : Taking(r) => \A o \in Took(r) : ~Gone(o)
    BY DEF Locks, Held, Doomed
  <2>3. \A r \in Buyer : Spends(r) => \A o \in Took(r) : Gone(o)
    BY DEF Calls, Spends, Gone
  <2>4. Taking(p) /\ Taking(q) => Took(p) \cap Took(q) = {}
    BY DEF Locks, Held
  <2>5. Spends(p) /\ Spends(q) => Took(p) \cap Took(q) = {}
    BY DEF Calls
  <2> QED
    BY <2>1, <2>2, <2>3, <2>4, <2>5
<1> QED
  BY <1>1, AnswersAreInTime, PTL

-----------------------------------------------------------------------------
(***************************************************************************)
(* Events, and what the answers know of them.                              *)
(***************************************************************************)
Told == news \cup pendingTxs \cup announced \cup UNION {flush[f].txs : f \in Flusher}

Events ==
  /\ \A x \in Told : x \in Buyer => call[x] = "final"
  /\ \A x \in Told : x \in Incoming => so[x] # "absent"
  /\ \A x \in pendingTxs : TokensOf(x) \subseteq pendingIds
  /\ \A f \in Flusher : \A x \in flush[f].txs : TokensOf(x) \subseteq flush[f].ids

\* What is settled stays so, and an output comes back from a returned
\* transaction only.
Stays ==
  /\ \A x \in Buyer : call[x] \in {"final", "returned"} =>
       call'[x] = call[x] /\ taken'[x] = taken[x]
  /\ \A o \in Output : so[o] # "absent" => so'[o] # "absent"
  /\ \A o \in Output : so'[o] = "available" =>
       so[o] \in {"available", "absent"} \/ o \in Returned'

LEMMA Settled == Types /\ Calls /\ [Next]_vars => Stays
<1> SUFFICES ASSUME Types, Calls, [Next]_vars PROVE Stays
  OBVIOUS
<1> USE DEF manager, debounce, fetching, operators
<1>1. ASSUME UNCHANGED <<call, taken, so>> PROVE Stays
  BY <1>1 DEF Stays
<1>2. ASSUME NEW p \in Op,
             ConsolidateStart(p) \/ Fetch(p) \/ Apply(p) \/ Insufficient(p) \/ Returns(p)
               \/ FlushStart(p) \/ FlushEmits(p) \/ FetchFails(p) \/ MetadataFails(p)
      PROVE  Stays
  BY <1>1, <1>2 DEF ConsolidateStart, Fetch, Apply, Insufficient, Returns, FlushStart, FlushEmits,
                    FetchFails, MetadataFails
<1>3. ASSUME NEW p \in Op, AcquireOutputs(p) \/ AcquireBatch(p) PROVE Stays
  <2>1. p \in Buyer /\ pc[p] = "acquire" /\ UNCHANGED <<call, so>>
    BY <1>3, Kinds DEF AcquireOutputs, AcquireBatch
  <2>2. \A q \in Buyer : q # p => taken'[q] = taken[q]
    BY <1>3 DEF AcquireOutputs, AcquireBatch, Types
  <2>3. call[p] = "none"
    BY <2>1 DEF Calls, Late
  <2> QED
    BY <2>1, <2>2, <2>3 DEF Stays
<1>4. ASSUME NEW p \in Op, SendFails(p) PROVE Stays
  <2>1. p \in Buyer /\ pc[p] = "send" /\ UNCHANGED <<taken, so>> /\ call' = [call EXCEPT ![p] = "refused"]
    BY <1>4, Kinds DEF SendFails, EndCall, Types, Place, Places
  <2>2. call[p] = "none"
    BY <2>1 DEF Calls, Late
  <2> QED
    BY <2>1, <2>2 DEF Stays, Types
<1>5. ASSUME NEW p \in Buyer, Accept(p) PROVE Stays
  <2>1. pc[p] = "send" /\ UNCHANGED taken /\ call' = [call EXCEPT ![p] = "accepted"]
        /\ so' = [o \in Output |-> IF o \in ToSet(taken[p]) THEN "pending" ELSE so[o]]
    BY <1>5 DEF Accept, EndCall
  <2>2. call[p] = "none"
    BY <2>1 DEF Calls, Late
  <2> QED
    BY <2>1, <2>2 DEF Stays, Types
<1>6. ASSUME NEW p \in Buyer, Finalize(p) PROVE Stays
  <2>1. call[p] = "accepted" /\ UNCHANGED taken /\ call' = [call EXCEPT ![p] = "final"]
        /\ so' = [o \in Output |-> IF o \in ToSet(taken[p]) THEN "spent" ELSE so[o]]
    BY <1>6 DEF Finalize
  <2> QED
    BY <2>1 DEF Stays, Types
<1>7. ASSUME NEW p \in Buyer, Return(p) PROVE Stays
  <2>1. call[p] = "accepted" /\ UNCHANGED taken /\ call' = [call EXCEPT ![p] = "returned"]
        /\ so' = [o \in Output |-> IF o \in ToSet(taken[p]) THEN "available" ELSE so[o]]
    BY <1>7 DEF Return
  <2>2. call'[p] = "returned"
    BY <2>1 DEF Types
  <2>3. ToSet(taken'[p]) \subseteq Returned'
    BY <2>2 DEF Returned
  <2> QED
    BY <2>1, <2>3 DEF Stays, Types
<1>8. ASSUME NEW o \in Incoming, Receive(o) PROVE Stays
  <2>1. UNCHANGED <<call, taken>> /\ so[o] = "absent" /\ so' = [so EXCEPT ![o] = "available"]
    BY <1>8 DEF Receive
  <2> QED
    BY <2>1 DEF Stays, Types
<1>9. ASSUME NEW x \in Tx, scheduleTokenSync(x) PROVE Stays
  BY <1>1, <1>9 DEF scheduleTokenSync
<1>10. CASE Tick
  BY <1>1, <1>10 DEF Tick
<1>11. CASE UNCHANGED vars
  BY <1>1, <1>11 DEF vars
<1> QED
  BY <1>2, <1>3, <1>4, <1>5, <1>6, <1>7, <1>8, <1>9, <1>10, <1>11 DEF Next, Step, Trouble

LEMMA EventsInit == Init => Events
BY DEF Init, Events, Told, NoFlush

LEMMA EventsFrame ==
  ASSUME Types, Calls, Events, [Next]_vars,
         \A x \in Told' : x \in Buyer /\ x \notin Told => call'[x] = "final",
         \A x \in Told' : x \in Incoming /\ x \notin Told => so'[x] # "absent",
         \A x \in pendingTxs' : x \in Told => TokensOf(x) \subseteq pendingIds',
         \A f \in Flusher : \A x \in flush'[f].txs : x \in Told => TokensOf(x) \subseteq flush'[f].ids,
         pendingTxs' \subseteq Told, \A f \in Flusher : flush'[f].txs \subseteq Told
  PROVE  Events'
<1>1. /\ \A x \in Told' : x \in Buyer => call'[x] = "final"
      /\ \A x \in Told' : x \in Incoming => so'[x] # "absent"
  BY Settled, TokenOutputsAssumption DEF Stays, Events
<1>2. \A x \in Told : TokensOf(x)' = TokensOf(x)
  <2> SUFFICES ASSUME NEW x \in Told PROVE TokensOf(x)' = TokensOf(x)
    OBVIOUS
  <2>1. CASE x \in Incoming
    BY <2>1 DEF TokensOf
  <2>2. CASE x \notin Incoming
    <3>1. x \in Buyer
      BY <2>2 DEF Told, Types, Tx
    <3>2. taken'[x] = taken[x]
      BY <3>1, Settled DEF Stays, Events
    <3> QED
      BY <2>2, <3>2 DEF TokensOf
  <2> QED
    BY <2>1, <2>2
<1>3. /\ \A x \in pendingTxs' : TokensOf(x)' \subseteq pendingIds'
      /\ \A f \in Flusher : \A x \in flush'[f].txs : TokensOf(x)' \subseteq flush'[f].ids
  BY <1>2
<1> QED
  BY <1>1, <1>3 DEF Events

LEMMA EventsStep == Types /\ Calls /\ Events /\ [Next]_vars => Events'
<1> SUFFICES ASSUME Types, Calls, Events, [Next]_vars PROVE Events'
  OBVIOUS
<1> USE DEF manager, debounce, fetching, operators
<1>1. /\ pendingTxs \subseteq Told /\ news \subseteq Told /\ announced \subseteq Told
      /\ \A f \in Flusher : flush[f].txs \subseteq Told
  BY DEF Told
<1>2. ASSUME UNCHANGED <<pendingTxs, pendingIds, flush, announced>>,
             \A x \in news' \ news : /\ x \in Buyer => call'[x] = "final"
                                     /\ x \in Incoming => so'[x] # "absent"
      PROVE  Events'
  <2>1. \A x \in Told' : x \in Told \/ x \in news' \ news
    BY <1>2 DEF Told
  <2> QED
    BY <1>1, <1>2, <2>1, EventsFrame DEF Events
<1>3. ASSUME NEW p \in Op,
             ConsolidateStart(p) \/ Fetch(p) \/ Apply(p) \/ AcquireOutputs(p) \/ Insufficient(p)
               \/ AcquireBatch(p) \/ Returns(p) \/ SendFails(p)
      PROVE  Events'
  BY <1>2, <1>3 DEF ConsolidateStart, Fetch, Apply, AcquireOutputs, Insufficient, AcquireBatch,
                    Returns, SendFails
<1>4. ASSUME NEW p \in Buyer, Accept(p) \/ Return(p) PROVE Events'
  BY <1>2, <1>4 DEF Accept, Return
<1>5. ASSUME NEW p \in Buyer, Finalize(p) PROVE Events'
  <2>1. UNCHANGED <<pendingTxs, pendingIds, flush, announced>> /\ news' \ news \subseteq {p}
        /\ call' = [call EXCEPT ![p] = "final"]
    BY <1>5 DEF Finalize
  <2>2. call'[p] = "final" /\ p \notin Incoming
    BY <2>1, Kinds DEF Types
  <2> QED
    BY <1>2, <2>1, <2>2
<1>6. ASSUME NEW o \in Incoming, Receive(o) PROVE Events'
  <2>1. UNCHANGED <<pendingTxs, pendingIds, flush, announced>> /\ news' \ news \subseteq {o}
        /\ so' = [so EXCEPT ![o] = "available"]
    BY <1>6 DEF Receive
  <2>2. so'[o] # "absent" /\ o \notin Buyer
    BY <2>1, Kinds, TokenOutputsAssumption DEF Types
  <2> QED
    BY <1>2, <2>1, <2>2
<1>7. ASSUME NEW x \in Tx, scheduleTokenSync(x) PROVE Events'
  <2>1. /\ x \in Told /\ UNCHANGED <<flush, announced>> /\ news' = news \ {x}
        /\ pendingIds' = pendingIds \cup TokensOf(x) /\ pendingTxs' = pendingTxs \cup {x}
    BY <1>1, <1>7 DEF scheduleTokenSync
  <2>2. Told' \subseteq Told
    BY <2>1 DEF Told
  <2> QED
    BY <1>1, <2>1, <2>2, EventsFrame DEF Events
<1>8. ASSUME NEW p \in Op, FlushStart(p) PROVE Events'
  <2>1. p \in Flusher /\ UNCHANGED <<announced, news>> /\ pendingTxs' = {} /\ pendingIds' = {}
        /\ flush' = [flush EXCEPT ![p] = [ids |-> pendingIds, txs |-> pendingTxs]]
    BY <1>8 DEF FlushStart
  <2>2. \A f \in Flusher : flush'[f] = IF f = p THEN [ids |-> pendingIds, txs |-> pendingTxs] ELSE flush[f]
    BY <2>1 DEF Types
  <2>3. Told' \subseteq Told
    BY <2>1, <2>2 DEF Told
  <2> QED
    BY <1>1, <2>1, <2>2, <2>3, EventsFrame DEF Events
<1>9. ASSUME NEW p \in Op, FlushEmits(p) PROVE Events'
  <2>1. p \in Flusher
    BY <1>9, Kinds DEF FlushEmits, Types, Place, Places
  <2>2. /\ UNCHANGED <<pendingTxs, pendingIds, news>>
        /\ announced' = announced \cup flush[p].txs
        /\ flush' = [flush EXCEPT ![p] = NoFlush]
    BY <1>9 DEF FlushEmits
  <2>3. \A f \in Flusher : flush'[f] = IF f = p THEN NoFlush ELSE flush[f]
    BY <2>1, <2>2 DEF Types
  <2>4. Told' \subseteq Told
    BY <2>1, <2>2, <2>3 DEF Told, NoFlush
  <2>5. NoFlush.txs = {}
    BY DEF NoFlush
  <2> QED
    BY <1>1, <2>2, <2>3, <2>4, <2>5, EventsFrame DEF Events
<1>10. ASSUME NEW p \in Op, FetchFails(p) \/ MetadataFails(p) PROVE Events'
  <2>1. CASE p \in Flusher
    <3>1. /\ UNCHANGED <<announced, news>>
          /\ pendingIds' = pendingIds \cup flush[p].ids
          /\ pendingTxs' = pendingTxs \cup flush[p].txs
          /\ flush' = [flush EXCEPT ![p] = NoFlush]
      BY <1>10, <2>1 DEF FetchFails, MetadataFails, Fails
    <3>2. \A f \in Flusher : flush'[f] = IF f = p THEN NoFlush ELSE flush[f]
      BY <2>1, <3>1 DEF Types
    <3>3. Told' \subseteq Told
      BY <2>1, <3>1, <3>2 DEF Told, NoFlush
    <3>4. NoFlush.txs = {}
      BY DEF NoFlush
    <3> QED
      BY <1>1, <2>1, <3>1, <3>2, <3>3, <3>4, EventsFrame DEF Events
  <2>2. CASE p \notin Flusher
    BY <1>2, <1>10, <2>2 DEF FetchFails, MetadataFails, Fails
  <2> QED
    BY <2>1, <2>2
<1>11. CASE Tick
  BY <1>2, <1>11 DEF Tick
<1>12. CASE UNCHANGED vars
  BY <1>2, <1>12 DEF vars
<1> QED
  BY <1>3, <1>4, <1>5, <1>6, <1>7, <1>8, <1>9, <1>10, <1>11, <1>12 DEF Next, Step, Trouble

-----------------------------------------------------------------------------
(***************************************************************************)
(* A flush makes known what it is about: its own answer knows of it, and   *)
(* so does every answer behind its own.                                    *)
(***************************************************************************)
\* A receipt that still shows at the operators.
Shows(x) == x \in Incoming /\ x \notin Returned /\ so[x] = "available"

\* The i-th answer knows of the transaction, as far as it asks for it.
KnowsOf(x, i) ==
  /\ x \in Buyer => Took(x) \cap Available(i) = {}
  /\ Shows(x) => \A q \in Op : queue[i] = q /\ x \in InScope(q) => x \in Available(i)

Known(x) ==
  /\ x \in Buyer => Took(x) \cap available = {}
  /\ Shows(x) => x \in available
  /\ \A i \in Position : KnowsOf(x, i)

Announced ==
  /\ \A x \in announced : Known(x)
  /\ \A f \in Flusher : pc[f] = "balance" => \A x \in flush[f].txs : Known(x)
  /\ \A f \in Flusher, i, j \in Position :
       queue[i] = f /\ i <= j => \A x \in flush[f].txs : KnowsOf(x, j)

LEMMA AnnouncedInit == Init => Announced
<1> SUFFICES ASSUME Init PROVE Announced
  OBVIOUS
<1>1. Position = {} /\ announced = {} /\ \A p \in Op : pc[p] = "idle"
  BY DEF Init, Position
<1>2. Flusher \subseteq Op
  BY DEF Op
<1> QED
  BY <1>1, <1>2 DEF Announced

\* What has been told of changes no more, but for receipts that are spent.
LEMMA ToldStays ==
  ASSUME Types, Calls, Events, [Next]_vars
  PROVE  \A x \in Told : /\ x \in Buyer => Took(x)' = Took(x) /\ \A o \in Took(x) : so[o] = "spent"
                         /\ Shows(x)' => Shows(x)
<1> SUFFICES ASSUME NEW x \in Told
             PROVE  /\ x \in Buyer => Took(x)' = Took(x) /\ \A o \in Took(x) : so[o] = "spent"
                    /\ Shows(x)' => Shows(x)
  OBVIOUS
<1>1. x \in Buyer => Took(x)' = Took(x) /\ \A o \in Took(x) : so[o] = "spent"
  BY Settled DEF Stays, Events, Took, Calls
<1>2. Returned \subseteq Returned'
  BY Settled DEF Stays, Returned
<1>3. ASSUME Shows(x)' PROVE Shows(x)
  <2>1. x \in Incoming /\ x \notin Returned /\ x \notin Returned' /\ so'[x] = "available"
    BY <1>2, <1>3 DEF Shows
  <2>2. x \in Output /\ so[x] # "absent"
    BY <2>1, TokenOutputsAssumption DEF Events
  <2>3. so[x] = "available"
    BY <2>1, <2>2, Settled DEF Stays
  <2> QED
    BY <2>1, <2>3 DEF Shows
<1> QED
  BY <1>1, <1>3

\* A step that gives no answer, applies none and ends no flush.
LEMMA AnnouncedFrame ==
  ASSUME Types, Calls, Queued', Events, Announced, [Next]_vars,
         UNCHANGED <<available, queue, answer, announced>>,
         \A f \in Flusher : pc'[f] \in {"apply", "balance"} => pc'[f] = pc[f] /\ flush'[f] = flush[f]
  PROVE  Announced'
<1>1. Position' = Position /\ \A i \in Position : Available(i)' = Available(i)
  BY DEF Position, Available
<1>2. \A i \in Position, q \in Op : queue[i] = q => pc'[q] = "apply" /\ InScope(q)' = InScope(q)
  BY <1>1, ScopeSame DEF Queued
<1>3. \A x \in Told, i \in Position : KnowsOf(x, i) => KnowsOf(x, i)'
  BY <1>1, <1>2, ToldStays DEF KnowsOf
<1>4. \A x \in Told : Known(x) => Known(x)'
  BY <1>1, <1>3, ToldStays DEF Known
<1>5. announced \subseteq Told /\ \A f \in Flusher : flush[f].txs \subseteq Told
  BY DEF Told
<1>6. \A x \in announced' : Known(x)'
  BY <1>4, <1>5 DEF Announced
<1>7. \A f \in Flusher : pc'[f] = "balance" => \A x \in flush'[f].txs : Known(x)'
  BY <1>4, <1>5 DEF Announced
<1>8. ASSUME NEW f \in Flusher, NEW i \in Position, NEW j \in Position, queue[i] = f, i <= j,
             NEW x \in flush'[f].txs
      PROVE  KnowsOf(x, j)'
  <2>1. flush'[f] = flush[f]
    BY <1>2, <1>8 DEF Op
  <2> QED
    BY <1>3, <1>5, <1>8, <2>1 DEF Announced
<1> QED
  BY <1>1, <1>6, <1>7, <1>8 DEF Announced

\* A new answer knows of all that has been told.
LEMMA AnnouncedFetch ==
  ASSUME Types, Calls, Queued, Events, Announced, [Next]_vars, NEW p \in Op, Fetch(p)
  PROVE  Announced'
<1> USE DEF manager, debounce, fetching, operators
<1>1. PICK n : n = Len(queue) + 1
  OBVIOUS
<1>2. n \in Nat /\ Position' = Position \cup {n} /\ \A i \in Position : i \in Nat /\ i < n
  BY <1>1, FetchQueue, QueueTypes DEF Position
<1>3. \A i \in Position : /\ queue'[i] = queue[i] /\ queue[i] # p
                          /\ Available(i)' = Available(i)
  BY <1>1, FetchQueue
<1>4. queue'[n] = p /\ Available(n)' = {o \in InScope(p) : so[o] = "available"}
  BY <1>1, FetchQueue
<1>5. UNCHANGED <<available, announced, flush, so, taken, call>>
  BY DEF Fetch
<1>6. \A q : InScope(q)' = InScope(q)
  BY <1>5, ScopeSame
<1>7. \A x : Shows(x)' = Shows(x) /\ Took(x)' = Took(x)
  BY <1>5 DEF Shows, Returned, Took
<1>8. \A x \in Told : KnowsOf(x, n)'
  <2> SUFFICES ASSUME NEW x \in Told PROVE KnowsOf(x, n)'
    OBVIOUS
  <2>1. x \in Buyer => Took(x) \cap Available(n)' = {}
    BY <1>4, ToldStays
  <2>2. Shows(x) => \A q \in Op : p = q /\ x \in InScope(q) => x \in Available(n)'
    BY <1>4 DEF Shows
  <2> QED
    BY <1>4, <1>6, <1>7, <2>1, <2>2 DEF KnowsOf
<1>9. \A x, i : i \in Position /\ KnowsOf(x, i) => KnowsOf(x, i)'
  BY <1>3, <1>6, <1>7 DEF KnowsOf
<1>10. \A x \in Told : Known(x) => Known(x)'
  BY <1>2, <1>5, <1>7, <1>8, <1>9 DEF Known
<1>11. announced \subseteq Told /\ \A f \in Flusher : flush[f].txs \subseteq Told
  BY DEF Told
<1>12. \A f \in Flusher : pc'[f] = "balance" => pc[f] = "balance"
  BY DEF Fetch, Goto, Types, Op
<1>13. /\ \A x \in announced' : Known(x)'
       /\ \A f \in Flusher : pc'[f] = "balance" => \A x \in flush'[f].txs : Known(x)'
  BY <1>5, <1>10, <1>11, <1>12 DEF Announced
<1>14. ASSUME NEW f \in Flusher, NEW i \in Position', NEW j \in Position', queue'[i] = f, i <= j,
              NEW x \in flush[f].txs
       PROVE  KnowsOf(x, j)'
  <2>1. CASE j = n
    BY <1>8, <1>11, <2>1
  <2>2. CASE j # n
    <3>1. i \in Position /\ j \in Position
      BY <1>2, <1>14, <2>2
    <3> QED
      BY <1>3, <1>9, <1>14, <3>1 DEF Announced
  <2> QED
    BY <2>1, <2>2
<1> QED
  BY <1>5, <1>13, <1>14 DEF Announced

\* The first answer is applied: what it knows of stays known, and what its
\* own flush is about becomes known.
LEMMA AnnouncedApply ==
  ASSUME "overtake" \notin Env, Types, Queued, Events, Announced, NEW p \in Op, Apply(p)
  PROVE  Announced'
<1> USE DEF manager, debounce, fetching, operators
<1>1. /\ 1 \in Position /\ queue[1] = p
      /\ Len(queue') = Len(queue) - 1
      /\ \A k \in 1..(Len(queue) - 1) :
           /\ k + 1 \in Position
           /\ queue'[k] = queue[k + 1] /\ queue[k + 1] # p
           /\ Available(k)' = Available(k + 1)
  <2>1. PICK r \in Position :
           /\ r = 1 \/ "overtake" \in Env
           /\ queue[r] = p
           /\ Len(queue') = Len(queue) - 1
           /\ \A k \in 1..(Len(queue) - 1) :
                LET h == IF k < r THEN k ELSE k + 1
                IN /\ h \in Position /\ h # r
                   /\ queue'[k] = queue[h] /\ queue[h] # p
                   /\ Available(k)' = Available(h) /\ Pending(k)' = Pending(h)
    BY ApplyQueue
  <2>2. \A k \in 1..(Len(queue) - 1) : ~(k < 1)
    BY QueueTypes
  <2> QED
    BY <2>1, <2>2
<1>2. /\ \A k \in Position' : k \in Int /\ k + 1 \in Position /\ 1 < k + 1
      /\ \A i, j \in Position' : i <= j => i + 1 <= j + 1
      /\ \A i \in Position : i \in Int /\ 1 <= i
  BY <1>1, QueueTypes DEF Position
<1>3. \A k \in Position' : /\ queue'[k] = queue[k + 1] /\ queue[k + 1] # p
                           /\ Available(k)' = Available(k + 1)
  BY <1>1, QueueTypes DEF Position
<1>4. UNCHANGED <<announced, flush, so, taken, call>>
  BY DEF Apply
<1>5. \A q : InScope(q)' = InScope(q)
  BY <1>4, ScopeSame
<1>6. \A x : Shows(x)' = Shows(x) /\ Took(x)' = Took(x)
  BY <1>4 DEF Shows, Returned, Took
<1>7. available' = (available \ InScope(p)) \cup Available(1)
  BY <1>1 DEF Apply, setOutputs, Available
<1>8. \A x, k : k \in Position' /\ KnowsOf(x, k + 1) => KnowsOf(x, k)'
  BY <1>3, <1>5, <1>6 DEF KnowsOf
<1>9. \A x : Known(x) => Known(x)'
  <2> SUFFICES ASSUME NEW x, Known(x) PROVE Known(x)'
    OBVIOUS
  <2>1. KnowsOf(x, 1) /\ \A k \in Position' : KnowsOf(x, k)'
    BY <1>1, <1>2, <1>8 DEF Known
  <2>2. x \in Buyer => Took(x) \cap available' = {}
    BY <1>7, <2>1 DEF Known, KnowsOf
  <2>3. Shows(x) => x \in available'
    BY <1>1, <1>7, <2>1 DEF Known, KnowsOf
  <2> QED
    BY <1>6, <2>1, <2>2, <2>3 DEF Known
<1>10. p \in Flusher => \A x \in flush[p].txs : Known(x)'
  <2> SUFFICES ASSUME p \in Flusher, NEW x \in flush[p].txs PROVE Known(x)'
    OBVIOUS
  <2>1. \A i \in Position : KnowsOf(x, i)
    BY <1>1, <1>2 DEF Announced
  <2>2. \A k \in Position' : KnowsOf(x, k)'
    BY <1>2, <1>8, <2>1
  <2>3. TokensOf(x) \subseteq flush[p].ids /\ x \in Tx
    BY DEF Events, Types
  <2>4. \A o \in Output : TokenOf[o] \in TokensOf(x) => o \in InScope(p)
    BY <2>3, Kinds DEF InScope, Scope
  <2>5. x \in Buyer => Took(x) \subseteq InScope(p)
    <3> SUFFICES ASSUME x \in Buyer PROVE Took(x) \subseteq InScope(p)
      OBVIOUS
    <3>1. TokensOf(x) = {TokenOf[o] : o \in Took(x)}
      BY Kinds DEF TokensOf, Took
    <3> QED
      BY <2>4, <3>1, TookIn
  <2>6. x \in Incoming => x \in InScope(p)
    BY <2>4, TokenOutputsAssumption DEF TokensOf
  <2>7. x \in Buyer => Took(x) \cap available' = {}
    BY <1>1, <1>7, <2>1, <2>5 DEF KnowsOf
  <2>8. Shows(x) => x \in available'
    BY <1>1, <1>7, <2>1, <2>6 DEF KnowsOf, Shows
  <2> QED
    BY <1>6, <2>2, <2>7, <2>8 DEF Known
<1>11. \A f \in Flusher : pc'[f] = "balance" => pc[f] = "balance" \/ f = p
  BY DEF Apply, Goto, Types, Op
<1>12. /\ \A x \in announced' : Known(x)'
       /\ \A f \in Flusher : pc'[f] = "balance" => \A x \in flush'[f].txs : Known(x)'
  BY <1>4, <1>9, <1>10, <1>11 DEF Announced
<1>13. ASSUME NEW f \in Flusher, NEW i \in Position', NEW j \in Position', queue'[i] = f, i <= j,
              NEW x \in flush[f].txs
       PROVE  KnowsOf(x, j)'
  <2>1. i + 1 \in Position /\ j + 1 \in Position /\ queue[i + 1] = f /\ i + 1 <= j + 1
    BY <1>2, <1>3, <1>13
  <2>2. KnowsOf(x, j + 1)
    BY <2>1 DEF Announced
  <2> QED
    BY <1>8, <2>2
<1> QED
  BY <1>4, <1>12, <1>13 DEF Announced

\* A flush announces what it made known.
LEMMA AnnouncedEmits ==
  ASSUME Types, Queued, Queued', Announced, NEW p \in Op, FlushEmits(p)
  PROVE  Announced'
<1> USE DEF manager, debounce, fetching, operators
<1>1. p \in Flusher /\ pc[p] = "balance"
  BY Kinds DEF FlushEmits, Types, Place, Places
<1>2. /\ UNCHANGED <<available, queue, answer, so, taken, call>>
      /\ announced' = announced \cup flush[p].txs
      /\ \A f \in Flusher : f # p => pc'[f] = pc[f] /\ flush'[f] = flush[f]
      /\ pc'[p] = "idle"
  BY <1>1 DEF FlushEmits, Goto, Types, Op
<1>3. Position' = Position /\ \A i \in Position : Available(i)' = Available(i)
  BY <1>2 DEF Position, Available
<1>4. \A i \in Position, q \in Op : queue[i] = q => q # p /\ InScope(q)' = InScope(q)
  <2> SUFFICES ASSUME NEW i \in Position, NEW q \in Op, queue[i] = q
               PROVE  q # p /\ InScope(q)' = InScope(q)
    OBVIOUS
  <2>1. q # p
    BY <1>1 DEF Queued
  <2> QED
    BY <1>2, <2>1, ScopeSame
<1>5. \A x : Shows(x)' = Shows(x) /\ Took(x)' = Took(x)
  BY <1>2 DEF Shows, Returned, Took
<1>6. \A x, i : i \in Position /\ KnowsOf(x, i) => KnowsOf(x, i)'
  BY <1>2, <1>3, <1>4, <1>5 DEF KnowsOf
<1>7. \A x : Known(x) => Known(x)'
  BY <1>2, <1>3, <1>5, <1>6 DEF Known
<1>8. \A x \in announced' : Known(x)'
  BY <1>1, <1>2, <1>7 DEF Announced
<1>9. \A f \in Flusher : pc'[f] = "balance" => \A x \in flush'[f].txs : Known(x)'
  BY <1>2, <1>7 DEF Announced
<1>10. \A f \in Flusher, i, j \in Position :
         queue'[i] = f /\ i <= j => \A x \in flush'[f].txs : KnowsOf(x, j)'
  BY <1>2, <1>4, <1>6 DEF Announced, Op
<1> QED
  BY <1>3, <1>8, <1>9, <1>10 DEF Announced

LEMMA AnnouncedStep ==
  "overtake" \notin Env /\ Types /\ Calls /\ Queued /\ Queued' /\ Events /\ Announced /\ [Next]_vars
    => Announced'
<1> SUFFICES ASSUME "overtake" \notin Env, Types, Calls, Queued, Queued', Events, Announced, [Next]_vars
             PROVE  Announced'
  OBVIOUS
<1> USE DEF manager, debounce, fetching, operators
<1>1. ASSUME UNCHANGED <<available, queue, answer, announced>>,
             NEW p \in Op, NEW place \in Places \ {"apply", "balance"}, Goto(p, place),
             \A f \in Flusher : f # p => flush'[f] = flush[f]
      PROVE  Announced'
  <2>1. \A f \in Flusher : pc'[f] = IF f = p THEN place ELSE pc[f]
    BY <1>1 DEF Goto, Types, Op
  <2> QED
    BY <1>1, <2>1, AnnouncedFrame
<1>2. ASSUME NEW p \in Op,
             ConsolidateStart(p) \/ AcquireOutputs(p) \/ Insufficient(p) \/ AcquireBatch(p)
               \/ Returns(p) \/ FlushStart(p)
      PROVE  Announced'
  <2>1. \E place \in Places \ {"apply", "balance"} : Goto(p, place)
    BY <1>2 DEF ConsolidateStart, AcquireOutputs, Insufficient, AcquireBatch, Returns, FlushStart,
                Places
  <2>2. UNCHANGED <<available, queue, answer, announced>>
    BY <1>2 DEF ConsolidateStart, AcquireOutputs, Insufficient, AcquireBatch, Returns, FlushStart
  <2>3. \A f \in Flusher : f # p => flush'[f] = flush[f]
    BY <1>2 DEF ConsolidateStart, AcquireOutputs, Insufficient, AcquireBatch, Returns, FlushStart,
                Types
  <2> QED
    BY <1>1, <2>1, <2>2, <2>3
<1>3. ASSUME NEW p \in Op, Trouble(p) PROVE Announced'
  <2>1. \E place \in Places \ {"apply", "balance"} : Goto(p, place)
    BY <1>3 DEF Trouble, FetchFails, MetadataFails, SendFails, Fails, Places
  <2>2. UNCHANGED <<available, queue, answer, announced>>
    BY <1>3 DEF Trouble, FetchFails, MetadataFails, SendFails
  <2>3. \A f \in Flusher : f # p => flush'[f] = flush[f]
    BY <1>3 DEF Trouble, FetchFails, MetadataFails, SendFails, Fails, Types
  <2> QED
    BY <1>1, <2>1, <2>2, <2>3
<1>4. ASSUME NEW p \in Buyer, Accept(p) PROVE Announced'
  <2>1. p \in Op /\ Goto(p, "reply") /\ UNCHANGED <<available, queue, answer, announced, flush>>
    BY <1>4 DEF Accept, Op
  <2> QED
    BY <1>1, <2>1 DEF Places
<1>5. ASSUME UNCHANGED <<available, queue, answer, announced, flush, pc>> PROVE Announced'
  BY <1>5, AnnouncedFrame
<1>6. ASSUME NEW p \in Buyer, Finalize(p) \/ Return(p) PROVE Announced'
  BY <1>5, <1>6 DEF Finalize, Return
<1>7. ASSUME NEW o \in Incoming, Receive(o) PROVE Announced'
  BY <1>5, <1>7 DEF Receive
<1>8. ASSUME NEW x \in Tx, scheduleTokenSync(x) PROVE Announced'
  BY <1>5, <1>8 DEF scheduleTokenSync
<1>9. CASE Tick
  BY <1>5, <1>9 DEF Tick
<1>10. CASE UNCHANGED vars
  BY <1>5, <1>10 DEF vars
<1>11. ASSUME NEW p \in Op, Fetch(p) \/ Apply(p) \/ FlushEmits(p) PROVE Announced'
  BY <1>11, AnnouncedFetch, AnnouncedApply, AnnouncedEmits
<1> QED
  BY <1>2, <1>3, <1>4, <1>6, <1>7, <1>8, <1>9, <1>10, <1>11 DEF Next, Step

(***************************************************************************)
(* What a TokenBalanceUpdate has told of shows in what the manager offers  *)
(* from then on, if answers are applied in the order they were given:      *)
(* whatever part of the tokens each sync asks for, however late it is.     *)
(***************************************************************************)
THEOREM AnnouncedStaysKnown == "overtake" \notin Env => (Spec => []AnnouncedIsKnown)
<1> SUFFICES ASSUME "overtake" \notin Env PROVE Spec => []AnnouncedIsKnown
  OBVIOUS
<1> DEFINE Inv == Types /\ Calls /\ Queued /\ Events /\ Announced
<1>1. Init => Inv
  BY TypesInit, CallsInit, QueuedInit, EventsInit, AnnouncedInit
<1>2. Inv /\ [Next]_vars => Inv'
  BY TypesStep, CallsStep, QueuedStep, EventsStep, AnnouncedStep
<1>3. Inv => AnnouncedIsKnown
  <2> SUFFICES ASSUME Inv PROVE AnnouncedIsKnown
    OBVIOUS
  <2>1. \A p \in announced \cap Buyer : ToSet(taken[p]) \cap available = {}
    BY DEF Announced, Known, Took
  <2>2. \A o \in (announced \cap Incoming) \ Returned : so[o] = "available" => o \in available
    BY DEF Announced, Known, Shows
  <2> QED
    BY <2>1, <2>2 DEF AnnouncedIsKnown
<1> HIDE DEF Inv
<1> QED
  BY <1>1, <1>2, <1>3, PTL DEF Spec

=============================================================================
