---------------------------- MODULE TokenOutputs ----------------------------
(***************************************************************************)
(* TokenOutputManager and the wallet operations that use it.  The manager  *)
(* keeps what the last answers of query_token_outputs said and, apart from *)
(* it, local locks that stop two transactions of one wallet from spending  *)
(* one output.  Nothing releases a lock: an answer that calls the output   *)
(* pending removes it, or it expires.                                      *)
(*                                                                         *)
(*   Spender       transferTokens, batchTransferTokens and the task of one *)
(*                 token of fulfillSparkInvoice                            *)
(*   Consolidator  optimizeTokenOutputs                                    *)
(*   Flusher       flushTokenSync; two of them may overlap                 *)
(*   Syncer        syncTokenOutputs of everything, for getBalance or a new *)
(*                 stream                                                  *)
(*                                                                         *)
(* Each operation fetches without the mutex and then applies the answer,   *)
(* so answers can be old, and can be applied in another order.  A Spender  *)
(* sends an amount any one output covers, so its selection takes any one.  *)
(***************************************************************************)
EXTENDS Integers, FiniteSets, Sequences, SequencesExt

CONSTANTS
  Output, Token,
  TokenOf,       \* the token of each output
  Spender, Consolidator, Flusher, Syncer,
  Wants,         \* the tokens a Spender sends one output of, in order
  FullSync,      \* Spenders that sync every token first (fulfillSparkInvoice)
  Incoming,      \* outputs this wallet will receive
  Expiry,        \* ticks a local lock lives, lockExpiryMs
  Patience,      \* bound: ticks from a fetch to what it leads to
  Threshold,     \* minOutputsThreshold
  MaxOutputs,    \* MAX_TOKEN_OUTPUTS_TX
  Env            \* what else may happen, see TokenMoves

TokenMoves == {"overtake",   \* an answer is applied after a later one
               "slow",       \* an operation takes longer than Patience
               "return",     \* the operators drop an accepted transaction
               "syncFails",  \* a query fails
               "sendFails"}  \* a transaction fails before it is accepted

Buyer == Spender \cup Consolidator
Op == Buyer \cup Flusher \cup Syncer
Tx == Buyer \cup Incoming

ASSUME TokenOutputsAssumption ==
  /\ IsFiniteSet(Output) /\ TokenOf \in [Output -> Token]
  /\ Wants \in [Spender -> Seq(Token)]
  /\ \A p \in Spender : Wants[p] # <<>>
  /\ FullSync \subseteq Spender
  /\ Incoming \subseteq Output
  /\ Expiry \in Nat /\ Patience \in Nat /\ Threshold \in Nat /\ MaxOutputs \in Nat
  /\ Spender \cap Consolidator = {} /\ Flusher \cap Buyer = {}
  /\ Syncer \cap (Buyer \cup Flusher) = {} /\ Incoming \cap Buyer = {}
  /\ Env \subseteq TokenMoves

VARIABLES
  available,      \* availableOutputs
  serverPending,  \* serverPendingMap
  age,            \* localPendingMap: ticks since lockedAt, or Unlocked
  optimizing,     \* tokenOptimizationInProgress
  pendingIds,     \* tokenSyncPendingIds
  pendingTxs,     \* tokenSyncPendingTransactions
  timer,          \* is tokenSyncDebounceTimer set?
  announced,      \* transactions a TokenBalanceUpdate has told of
  pc,             \* the await each operation is at
  answer,         \* the answer it has fetched
  queue,          \* the operations that have one, the oldest first
  waited,         \* ticks since it fetched
  taken,          \* the outputs a Buyer has acquired
  flush,          \* the ids and transactions a flush is about
  so,             \* the operators' state of each output
  call,           \* what became of a Buyer's transaction
  news            \* events the stream has not delivered

manager == <<available, serverPending, age>>
debounce == <<pendingIds, pendingTxs, timer, flush>>
fetching == <<answer, queue, waited>>
operators == <<so, call, news>>
vars == <<manager, optimizing, debounce, announced, pc, fetching, taken, operators>>

Unlocked == -1
NoAnswer == [available |-> {}, pending |-> {}]
NoFlush == [ids |-> {}, txs |-> {}]

Init ==
  /\ available = Output \ Incoming
  /\ serverPending = {}
  /\ age = [o \in Output |-> Unlocked]
  /\ optimizing = FALSE
  /\ pendingIds = {} /\ pendingTxs = {} /\ timer = FALSE
  /\ announced = {}
  /\ pc = [p \in Op |-> "idle"]
  /\ answer = [p \in Op |-> NoAnswer]
  /\ queue = <<>>
  /\ waited = [p \in Op |-> 0]
  /\ taken = [p \in Buyer |-> <<>>]
  /\ flush = [p \in Flusher |-> NoFlush]
  /\ so = [o \in Output |-> IF o \in Incoming THEN "absent" ELSE "available"]
  /\ call = [p \in Buyer |-> "none"]
  /\ news = {}

\* The tokens a sync of this operation asks for; all of them when it names none.
Scope(p) ==
  IF p \in Spender \ FullSync THEN ToSet(Wants[p])
  ELSE IF p \in Flusher /\ flush[p].ids # {} THEN flush[p].ids
  ELSE Token
InScope(p) == {o \in Output : TokenOf[o] \in Scope(p)}

TokensOf(x) == IF x \in Incoming THEN {TokenOf[x]} ELSE {TokenOf[o] : o \in ToSet(taken[x])}

-----------------------------------------------------------------------------
(***************************************************************************)
(* syncTokenOutputs: a fetch without the mutex, then setOutputs.           *)
(***************************************************************************)
Goto(p, place) == pc' = [pc EXCEPT ![p] = place]

\* optimizeTokenOutputs returns when another is in progress.
ConsolidateStart(p) ==
  /\ p \in Consolidator
  /\ pc[p] = "idle"
  /\ Goto(p, IF optimizing THEN "over" ELSE "fetch")
  /\ optimizing' = TRUE
  /\ UNCHANGED <<manager, debounce, announced, fetching, taken, operators>>

Fetching(p) == pc[p] = (IF p \in Spender \cup Syncer THEN "idle" ELSE "fetch")

Fetch(p) ==
  /\ Fetching(p)
  /\ answer' = [answer EXCEPT ![p] =
       [available |-> {o \in InScope(p) : so[o] = "available"},
        pending |-> {o \in InScope(p) : so[o] = "pending"}]]
  /\ queue' = Append(queue, p)
  /\ waited' = [waited EXCEPT ![p] = 0]
  /\ Goto(p, "apply")
  /\ UNCHANGED <<manager, optimizing, debounce, announced, taken, operators>>

\* Mutant of Fails: a flush that fails forgets what it was about.
FailsForgetfully(p) ==
  /\ Goto(p, IF p \in Flusher THEN "idle" ELSE "over")
  /\ optimizing' = (optimizing /\ p \notin Consolidator)
  /\ flush' = IF p \in Flusher THEN [flush EXCEPT ![p] = NoFlush] ELSE flush
  /\ UNCHANGED <<pendingIds, pendingTxs, timer>>

\* What the failure of an operation leaves: optimizeTokenOutputs lowers its
\* flag, flushTokenSync keeps what it was about, and sets no timer.
Fails(p) ==
  /\ Goto(p, IF p \in Flusher THEN "idle" ELSE "over")
  /\ optimizing' = (optimizing /\ p \notin Consolidator)
  /\ IF p \in Flusher
     THEN /\ pendingIds' = pendingIds \cup flush[p].ids
          /\ pendingTxs' = pendingTxs \cup flush[p].txs
          /\ flush' = [flush EXCEPT ![p] = NoFlush]
          /\ UNCHANGED timer
     ELSE UNCHANGED debounce

FetchFails(p) ==
  /\ "syncFails" \in Env
  /\ Fetching(p)
  /\ Fails(p)
  /\ UNCHANGED <<manager, announced, fetching, taken, operators>>

\* Mutant of setOutputs: the answer is added to what was known.
setOutputsMerged(p) ==
  /\ available' = available \cup answer[p].available
  /\ serverPending' = serverPending \cup answer[p].pending
  /\ age' = [o \in Output |-> IF o \in answer[p].pending THEN Unlocked ELSE age[o]]

\* The outputs of the tokens asked for are replaced; an output that is pending
\* at the operators loses its local lock, whatever its token.
setOutputs(p) ==
  /\ available' = (available \ InScope(p)) \cup answer[p].available
  /\ serverPending' = (serverPending \ InScope(p)) \cup answer[p].pending
  /\ age' = [o \in Output |-> IF o \in answer[p].pending THEN Unlocked ELSE age[o]]

Apply(p) ==
  /\ pc[p] = "apply"
  /\ setOutputs(p)
  /\ answer' = [answer EXCEPT ![p] = NoAnswer]
  /\ \E i \in 1..Len(queue) :
       /\ queue[i] = p
       /\ i = 1 \/ "overtake" \in Env
       /\ queue' = RemoveAt(queue, i)
  /\ waited' = IF p \in Buyer THEN waited ELSE [waited EXCEPT ![p] = 0]
  /\ Goto(p, CASE p \in Buyer -> "acquire" [] p \in Flusher -> "balance" [] OTHER -> "over")
  /\ UNCHANGED <<optimizing, debounce, announced, taken, operators>>

-----------------------------------------------------------------------------
(***************************************************************************)
(* acquireOutputs and acquireOutputsBatch: expired locks go, and only then *)
(* does the selection see what is available and not locked.                *)
(***************************************************************************)
\* Mutant of cleanupExpiredLocks: a lock lives one tick only.
cleanupEarly == [o \in Output |-> IF age[o] > 0 THEN Unlocked ELSE age[o]]

cleanupExpiredLocks == [o \in Output |-> IF age[o] > Expiry THEN Unlocked ELSE age[o]]

getUnlockedOutputs(t) == {o \in available : TokenOf[o] = t /\ cleanupExpiredLocks[o] = Unlocked}

Lock(outputs) ==
  age' = [o \in Output |-> IF o \in outputs THEN 0 ELSE cleanupExpiredLocks[o]]

\* The token a Spender acquires next; a batch acquires them one after the other.
NextToken(p) == Wants[p][Len(taken[p]) + 1]

AcquireOutputs(p) ==
  /\ p \in Spender
  /\ pc[p] = "acquire"
  /\ \E o \in getUnlockedOutputs(NextToken(p)) :
       /\ Lock({o})
       /\ taken' = [taken EXCEPT ![p] = Append(@, o)]
  /\ Goto(p, IF Len(taken[p]) + 1 = Len(Wants[p]) THEN "send" ELSE "acquire")
  /\ UNCHANGED <<available, serverPending, optimizing, debounce, announced, fetching, operators>>

\* selectTokenOutputs throws; what a batch has locked for other tokens stays so.
Insufficient(p) ==
  /\ p \in Spender
  /\ pc[p] = "acquire"
  /\ getUnlockedOutputs(NextToken(p)) = {}
  /\ Lock({})
  /\ waited' = [waited EXCEPT ![p] = 0]
  /\ Goto(p, "over")
  /\ UNCHANGED <<available, serverPending, optimizing, debounce, announced, answer, queue,
                 taken, operators>>

\* Tokens with more outputs than the threshold, locked ones counted; of each, as
\* many unlocked outputs as the transaction has room for.
Eligible == {t \in Token : Cardinality({o \in available : TokenOf[o] = t}) > Threshold}

IsBatch(outputs) ==
  LET Part(t) == {o \in outputs : TokenOf[o] = t}
      InPart == {t \in Eligible : Part(t) \notin {{}, getUnlockedOutputs(t)}}
  IN /\ outputs \subseteq UNION {getUnlockedOutputs(t) : t \in Eligible}
     /\ Cardinality(outputs) <= MaxOutputs
     /\ Cardinality(InPart) <= 1
     /\ Cardinality(outputs) < MaxOutputs =>
          \A t \in Eligible : Part(t) = getUnlockedOutputs(t)

AcquireBatch(p) ==
  /\ p \in Consolidator
  /\ pc[p] = "acquire"
  /\ \E outputs \in SUBSET available :
       /\ IsBatch(outputs)
       /\ IF Eligible = {} THEN UNCHANGED age ELSE Lock(outputs)
       /\ taken' = [taken EXCEPT ![p] = SetToSeq(outputs)]
       /\ Goto(p, IF outputs = {} THEN "over" ELSE "send")
       /\ optimizing' = (outputs # {})
       /\ waited' = IF outputs = {} THEN [waited EXCEPT ![p] = 0] ELSE waited
  /\ UNCHANGED <<available, serverPending, debounce, announced, answer, queue, operators>>

-----------------------------------------------------------------------------
(***************************************************************************)
(* tokenTransfer, and the operators.  A transaction is accepted when all   *)
(* its outputs are available; they are pending from then on.  Its repeats  *)
(* are the same transaction, and a lost reply changes nothing here: no     *)
(* outcome of a transaction touches the locks.                             *)
(***************************************************************************)
EndCall(p, outcome) ==
  /\ call' = [call EXCEPT ![p] = outcome]
  /\ waited' = [waited EXCEPT ![p] = 0]

Accept(p) ==
  /\ pc[p] = "send"
  /\ \A o \in ToSet(taken[p]) : so[o] = "available"
  /\ so' = [o \in Output |-> IF o \in ToSet(taken[p]) THEN "pending" ELSE so[o]]
  /\ EndCall(p, "accepted")
  /\ Goto(p, "reply")
  /\ UNCHANGED <<manager, optimizing, debounce, announced, answer, queue, taken, news>>

\* Validation or a signature fails and nothing is sent, or the operators refuse.
SendFails(p) ==
  /\ pc[p] = "send"
  /\ "sendFails" \in Env \/ \E o \in ToSet(taken[p]) : so[o] # "available"
  /\ EndCall(p, "refused")
  /\ Goto(p, "reply")
  /\ UNCHANGED <<manager, optimizing, debounce, announced, answer, queue, taken, so, news>>

Returns(p) ==
  /\ pc[p] = "reply"
  /\ Goto(p, "over")
  /\ optimizing' = (optimizing /\ p \notin Consolidator)
  /\ UNCHANGED <<manager, debounce, announced, fetching, taken, operators>>

Finalize(p) ==
  /\ call[p] = "accepted"
  /\ so' = [o \in Output |-> IF o \in ToSet(taken[p]) THEN "spent" ELSE so[o]]
  /\ call' = [call EXCEPT ![p] = "final"]
  /\ news' = news \cup {p}
  /\ UNCHANGED <<manager, optimizing, debounce, announced, pc, fetching, taken>>

Return(p) ==
  /\ "return" \in Env
  /\ call[p] = "accepted"
  /\ so' = [o \in Output |-> IF o \in ToSet(taken[p]) THEN "available" ELSE so[o]]
  /\ call' = [call EXCEPT ![p] = "returned"]
  /\ UNCHANGED <<manager, optimizing, debounce, announced, pc, fetching, taken, news>>

Receive(o) ==
  /\ so[o] = "absent"
  /\ so' = [so EXCEPT ![o] = "available"]
  /\ news' = news \cup {o}
  /\ UNCHANGED <<manager, optimizing, debounce, announced, pc, fetching, taken, call>>

-----------------------------------------------------------------------------
(***************************************************************************)
(* Events of token transactions: scheduleTokenSync and flushTokenSync.     *)
(***************************************************************************)
scheduleTokenSync(x) ==
  /\ x \in news
  /\ news' = news \ {x}
  /\ pendingIds' = pendingIds \cup TokensOf(x)
  /\ pendingTxs' = pendingTxs \cup {x}
  /\ timer' = TRUE
  /\ UNCHANGED <<manager, optimizing, flush, announced, pc, fetching, taken, so, call>>

FlushStart(p) ==
  /\ p \in Flusher
  /\ pc[p] = "idle"
  /\ timer
  /\ flush' = [flush EXCEPT ![p] = [ids |-> pendingIds, txs |-> pendingTxs]]
  /\ pendingIds' = {} /\ pendingTxs' = {} /\ timer' = FALSE
  /\ Goto(p, "fetch")
  /\ UNCHANGED <<manager, optimizing, announced, fetching, taken, operators>>

FlushEmits(p) ==
  /\ pc[p] = "balance"
  /\ announced' = announced \cup flush[p].txs
  /\ flush' = [flush EXCEPT ![p] = NoFlush]
  /\ Goto(p, "idle")
  /\ UNCHANGED <<manager, optimizing, pendingIds, pendingTxs, timer, fetching, taken, operators>>

\* getTokenBalanceMap asks for the metadata of new tokens.
MetadataFails(p) ==
  /\ "syncFails" \in Env
  /\ pc[p] = "balance"
  /\ Fails(p)
  /\ UNCHANGED <<manager, announced, fetching, taken, operators>>

\* Time passes.  Unless Env says "slow", no operation is so late that a lock it
\* holds, or one its answer does not know of, expires.
Busy(p) == pc[p] \in {"apply", "acquire", "send"}
Tick ==
  /\ \E o \in Output : age[o] \in 0..Expiry
  /\ "slow" \in Env \/ \A p \in Op : Busy(p) => waited[p] < Patience
  /\ age' = [o \in Output |-> IF age[o] \in 0..Expiry THEN age[o] + 1 ELSE age[o]]
  /\ waited' = [p \in Op |-> IF Busy(p) /\ waited[p] < Patience THEN waited[p] + 1 ELSE waited[p]]
  /\ UNCHANGED <<available, serverPending, optimizing, debounce, announced, pc, answer, queue,
                 taken, operators>>

Step(p) ==
  \/ ConsolidateStart(p) \/ Fetch(p) \/ Apply(p) \/ AcquireOutputs(p) \/ Insufficient(p)
  \/ AcquireBatch(p) \/ Returns(p) \/ FlushStart(p) \/ FlushEmits(p)

Trouble(p) == FetchFails(p) \/ MetadataFails(p) \/ SendFails(p)

Next ==
  \/ \E p \in Op : Step(p) \/ Trouble(p)
  \/ \E p \in Buyer : Accept(p) \/ Finalize(p) \/ Return(p)
  \/ \E o \in Incoming : Receive(o)
  \/ \E x \in Tx : scheduleTokenSync(x)
  \/ Tick

Spec == Init /\ [][Next]_vars

-----------------------------------------------------------------------------
(***************************************************************************)
(* "It's purely meant to prevent concurrent transactions from spending the *)
(* same outputs" (TokenOutputManager.localPendingMap).  The lock alone     *)
(* does not: it is given up when the operators are seen to hold the        *)
(* output, and then only the last answer keeps the output from a second    *)
(* transaction.  Premise: answers are applied in the order they were       *)
(* given, and a lock lives twice as long as any operation takes.           *)
(***************************************************************************)
Holds(p) ==
  \/ pc[p] \in {"acquire", "send"}
  \/ call[p] \in {"accepted", "final"}
OneTransactionPerOutput ==
  \A p, q \in Buyer :
    p # q /\ Holds(p) /\ Holds(q) => ToSet(taken[p]) \cap ToSet(taken[q]) = {}

(***************************************************************************)
(* A transaction the wallet has announced shows in what it offers: never   *)
(* again an output it spent, and always the output it brought, unless that *)
(* was spent or returned since.  Debounced, filtered and overlapping syncs *)
(* lead to what one full sync would.  Premise: as above.                   *)
(***************************************************************************)
Returned == UNION {ToSet(taken[p]) : p \in {q \in Buyer : call[q] = "returned"}}
AnnouncedIsKnown ==
  /\ \A p \in announced \cap Buyer : ToSet(taken[p]) \cap available = {}
  /\ \A o \in (announced \cap Incoming) \ Returned : so[o] = "available" => o \in available

(***************************************************************************)
(* No event is forgotten: what the stream delivered is announced, waits    *)
(* for a flush, or is in one.  (It may wait for long: a flush that fails   *)
(* puts it back and sets no timer.)                                        *)
(***************************************************************************)
Delivered == ({p \in Buyer : call[p] = "final"} \cup {o \in Incoming : so[o] # "absent"}) \ news
NewsIsKept ==
  \A x \in Delivered :
    \/ x \in announced \cup pendingTxs
    \/ \E f \in Flusher : pc[f] # "idle" /\ x \in flush[f].txs
=============================================================================
