----------------------------- MODULE EventStream -----------------------------
(***************************************************************************)
(* How a wallet comes to claim the transfers others send it.  On most      *)
(* platforms setupBackgroundStream connects to the coordinator's stream of *)
(* events for ever: it claims everything that is pending, claimTransfers,  *)
(* and then what each event tells of.  On React Native                     *)
(* startPeriodicClaimTransfers claims everything pending every 10 seconds. *)
(* The list of pending transfers comes in pages of a fixed size, from an   *)
(* offset, and shrinks while it is being read.                             *)
(***************************************************************************)
EXTENDS TransferClaim, Sequences

CONSTANTS
  Kind,          \* of each transfer: "transfer", "self" or "counterSwap"
  PageSize,      \* PENDING_TRANSFERS_BATCH_SIZE
  MaxBatches,    \* MAX_FALLBACK_CLAIM_BATCHES
  Mode           \* ways it may run: "stream", "periodic"

StreamMoves == {"fetchFails",   \* a query or a connection fails
                "unsynced",     \* the operators' time is not known
                "others"}       \* another instance, or operation, claims

ASSUME EventStreamAssumption ==
  /\ Kind \in [Transfer -> {"transfer", "self", "counterSwap"}]
  /\ PageSize \in Nat \ {0} /\ MaxBatches \in Nat
  /\ Mode \subseteq {"stream", "periodic"}
  /\ Env \subseteq ClaimMoves \cup StreamMoves

VARIABLES
  mode,
  order,       \* the transfers in the order they were created
  pc,          \* where the loop is
  filtered,    \* does this pass leave out counter swaps?
  snapshot,    \* how many transfers existed when the pass began
  offset, batch,
  page,        \* how many transfers the page fetched has, and
  todo,        \* the places in order of those still to be claimed
  progress,    \* was one of the page claimed?
  claimed,     \* ids the attempt's pass has claimed (the others are its locals)
  up,          \* the stream: "closed", "open", "silent" (it delivers no more) or "ended"
  inbox,       \* events the stream has delivered
  beating,     \* heartbeatListenerEnabled
  armed,       \* is the heartbeat timer running?
  missed       \* transfers whose claim failed, or that nothing told of

server == <<claimVars, order>>
locals == <<snapshot, offset, batch, page, todo, progress>>
pass == <<filtered, locals, claimed>>
stream == <<up, inbox, beating, armed>>
vars == <<mode, server, pc, cleaned, pass, stream, missed>>

NoSnapshot == -1

Init ==
  /\ mode \in Mode
  /\ ClaimInit
  /\ order = <<>>
  /\ pc = IF mode = "stream" THEN "subscribe" ELSE "pass"
  /\ filtered = FALSE
  /\ snapshot = NoSnapshot
  /\ offset = 0 /\ batch = 0 /\ page = 0 /\ todo = {}
  /\ progress = FALSE /\ claimed = {}
  /\ up = "closed" /\ inbox = <<>> /\ beating = FALSE /\ armed = FALSE
  /\ missed = {}

Goto(place) == pc' = place

-----------------------------------------------------------------------------
(***************************************************************************)
(* External: a transfer is created, becomes claimable when its sender has  *)
(* tweaked its keys, and is pending until someone claims it.               *)
(***************************************************************************)
Created(x) ==
  /\ status[x] = "absent"
  /\ status' = [status EXCEPT ![x] = "created"]
  /\ order' = Append(order, x)
  /\ UNCHANGED <<mode, outcome, pc, cleaned, pass, stream, missed>>

Claimable == {x \in Transfer : status[x] = "claimable"}
Listening == up = "open"

BecomesClaimable(x) ==
  /\ status[x] = "created"
  /\ status' = [status EXCEPT ![x] = "claimable"]
  /\ inbox' = IF Listening THEN Append(inbox, x) ELSE inbox
  /\ missed' = IF Listening THEN missed ELSE missed \cup {x}
  /\ UNCHANGED <<mode, outcome, order, pc, cleaned, pass, up, beating, armed>>

\* What it does to a pass under way is known to nobody.
OthersClaim(x) ==
  /\ "others" \in Env \/ Kind[x] # "transfer"
  /\ x \in Claimable
  /\ status' = [status EXCEPT ![x] = "completed"]
  /\ missed' = IF pc \in {"fetch", "claim"} THEN missed \cup Claimable ELSE missed
  /\ UNCHANGED <<mode, outcome, order, pc, cleaned, pass, stream>>

-----------------------------------------------------------------------------
(***************************************************************************)
(* claimTransfers: one pass over what is pending.                          *)
(***************************************************************************)
Listed == IF snapshot = NoSnapshot THEN Len(order) ELSE snapshot
Pending == {i \in 1..Listed : status[order[i]] # "completed"}
Rank(i) == Cardinality({j \in Pending : j < i})

PageLength ==
  LET left == Cardinality(Pending) - offset
  IN  IF left < 0 THEN 0 ELSE IF left < PageSize THEN left ELSE PageSize

\* Mutant of Locals: the pass begins at the place its snapshot ends.
LocalsFromSnapshot(n) ==
  /\ snapshot' = n /\ offset' = n
  /\ batch' = 0 /\ page' = 0 /\ todo' = {}
  /\ progress' = FALSE

\* Its variables at the first page, and after the last.
Locals(n) ==
  /\ snapshot' = n
  /\ offset' = 0 /\ batch' = 0 /\ page' = 0 /\ todo' = {}
  /\ progress' = FALSE

PassStart ==
  /\ pc = "pass"
  /\ \E n \in {Len(order)} \cup (IF "unsynced" \in Env THEN {NoSnapshot} ELSE {}) :
       Locals(n)
  /\ claimed' = {}
  \* What is claimable now is for this pass to find.
  /\ missed' = missed \ Claimable
  /\ Goto("fetch")
  /\ UNCHANGED <<mode, server, cleaned, filtered, stream>>

\* queryPendingTransfers, and partitionClaimablePendingTransfers.
FetchPage ==
  /\ pc = "fetch"
  /\ page' = PageLength
  /\ todo' = {i \in Pending : /\ Rank(i) \in offset..(offset + PageSize - 1)
                              /\ status[order[i]] = "claimable"
                              /\ ~(filtered /\ Kind[order[i]] = "counterSwap")}
  /\ batch' = IF snapshot = NoSnapshot THEN batch + 1 ELSE batch
  /\ progress' = FALSE
  /\ Goto("claim")
  /\ UNCHANGED <<mode, server, cleaned, filtered, snapshot, offset, claimed, stream, missed>>

IsNext(i) == i \in todo /\ \A j \in todo : i <= j

ClaimNext(i) ==
  /\ pc = "claim"
  /\ IsNext(i)
  /\ ClaimReturns(order[i])
  /\ progress' = TRUE
  /\ claimed' = claimed \cup {order[i]}
  /\ todo' = todo \ {i}
  /\ UNCHANGED <<mode, order, pc, cleaned, filtered, snapshot, offset, batch, page, stream, missed>>

ClaimNextRetries(i) ==
  /\ pc = "claim"
  /\ IsNext(i)
  /\ ClaimRetries(order[i])
  /\ UNCHANGED <<mode, order, pc, cleaned, pass, stream, missed>>

\* The pass goes on.  A claim that fails although the operators made it takes
\* its transfer off the list, and the page may count as one without progress.
ClaimNextFails(i) ==
  /\ pc = "claim"
  /\ IsNext(i)
  /\ ClaimGivesUp(order[i])
  /\ missed' = missed \cup (IF status'[order[i]] = "completed" THEN Claimable ELSE {order[i]})
  /\ todo' = todo \ {i}
  /\ UNCHANGED <<mode, order, pc, cleaned, filtered, snapshot, offset, batch, page, progress,
                 claimed, stream>>

\* Mutant of LastPage: a page of which nothing was claimed is the last.
LastPageIdle ==
  \/ page < PageSize \/ ~progress
  \/ snapshot = NoSnapshot /\ batch >= MaxBatches

\* The last page was short, or without a snapshot there were too many.
LastPage ==
  \/ page < PageSize
  \/ snapshot = NoSnapshot /\ batch >= MaxBatches

\* Mutant of NextPage: the offset moves on although the list has shrunk.
NextPageOnward ==
  /\ pc = "claim"
  /\ todo = {}
  /\ ~LastPage
  /\ offset' = offset + page
  /\ Goto("fetch")
  /\ UNCHANGED <<mode, server, cleaned, filtered, snapshot, batch, page, todo, progress, claimed,
                 stream, missed>>

\* Mutant of NextPage: the offset stays when nothing was claimed.
NextPageStays ==
  /\ pc = "claim"
  /\ todo = {}
  /\ ~LastPage
  /\ offset' = IF progress THEN 0 ELSE offset
  /\ Goto("fetch")
  /\ UNCHANGED <<mode, server, cleaned, filtered, snapshot, batch, page, todo, progress, claimed,
                 stream, missed>>

NextPage ==
  /\ pc = "claim"
  /\ todo = {}
  /\ ~LastPage
  /\ offset' = IF progress THEN 0 ELSE offset + page
  /\ Goto("fetch")
  /\ UNCHANGED <<mode, server, cleaned, filtered, snapshot, batch, page, todo, progress, claimed,
                 stream, missed>>

PassEnds ==
  /\ pc = "claim"
  /\ todo = {}
  /\ LastPage
  \* What a page more would have had.
  /\ missed' = IF page < PageSize THEN missed ELSE missed \cup Claimable
  /\ Locals(NoSnapshot)
  /\ claimed' = IF mode = "stream" THEN claimed ELSE {}
  /\ Goto(IF mode = "stream" THEN "tokens" ELSE "rest")
  /\ UNCHANGED <<mode, server, cleaned, filtered, stream>>

-----------------------------------------------------------------------------
(***************************************************************************)
(* startPeriodicClaimTransfers: while a pass runs no other is started.     *)
(***************************************************************************)
Tick ==
  /\ pc = "rest"
  /\ ~cleaned
  /\ filtered' = TRUE
  /\ Goto("pass")
  /\ UNCHANGED <<mode, server, cleaned, locals, claimed, stream, missed>>

PeriodicEnds ==
  /\ pc = "rest"
  /\ cleaned
  /\ Goto("over")
  /\ UNCHANGED <<mode, server, cleaned, pass, stream, missed>>

-----------------------------------------------------------------------------
(***************************************************************************)
(* setupBackgroundStream: one attempt.  The subscription is a generator of *)
(* the gRPC library: the call is made when it is first iterated, after the *)
(* pass.                                                                   *)
(***************************************************************************)
Subscribe ==
  /\ pc = "subscribe"
  /\ Goto(IF cleaned THEN "over" ELSE "pass")
  /\ UNCHANGED <<mode, server, cleaned, pass, stream, missed>>

\* syncTokenOutputs, and the first iteration; the first event is "connected".
Connects ==
  /\ pc = "tokens"
  /\ ~cleaned
  /\ up' = "open"
  /\ inbox' = <<>>
  /\ Goto("listen")
  /\ UNCHANGED <<mode, server, cleaned, pass, beating, armed, missed>>

\* The end of an attempt, or of a periodic pass that throws: the timer is
\* cleared, events not handled are lost, what is claimable is for a later pass.
EndAttempt(place) ==
  /\ Goto(place)
  /\ up' = "closed" /\ beating' = FALSE /\ armed' = FALSE
  /\ missed' = missed \cup Claimable
  /\ inbox' = <<>>
  /\ Locals(NoSnapshot) /\ claimed' = {}

AttemptFails ==
  /\ \/ "fetchFails" \in Env /\ pc \in {"subscribe", "fetch", "tokens"}
     \/ cleaned /\ pc \in {"tokens", "listen"}
     \/ up = "ended" /\ pc = "listen"
  /\ EndAttempt(IF mode = "periodic" THEN "rest" ELSE IF cleaned THEN "over" ELSE "delay")
  /\ UNCHANGED <<mode, server, cleaned, filtered>>

\* The iterator ends without an error: the next attempt starts at once.
IteratorEnds ==
  /\ pc = "listen"
  /\ up = "ended" \/ cleaned
  /\ EndAttempt("subscribe")
  /\ UNCHANGED <<mode, server, cleaned, filtered>>

\* The delay ends, or cleanup() ends it.
Delayed ==
  /\ pc = "delay"
  /\ Goto(IF cleaned THEN "over" ELSE "subscribe")
  /\ UNCHANGED <<mode, server, cleaned, pass, stream, missed>>

Heartbeat ==
  /\ pc = "listen"
  /\ up = "open"
  /\ ~cleaned
  /\ beating' = TRUE /\ armed' = TRUE
  /\ UNCHANGED <<mode, server, pc, cleaned, pass, up, inbox, missed>>

\* No heartbeat for 15 s, the stream's fault or not: the attempt is aborted.
HeartbeatTimeout ==
  /\ armed
  /\ pc = "listen"
  /\ ~cleaned
  /\ EndAttempt("delay")
  /\ UNCHANGED <<mode, server, cleaned, filtered>>

\* handleStreamEvent stops the timer while it works; what it does not claim
\* itself it skips, or leaves to another operation.
Deliver ==
  /\ pc = "listen"
  /\ inbox # <<>>
  /\ ~cleaned
  /\ armed' = FALSE
  /\ Goto("handle")
  /\ UNCHANGED <<mode, server, cleaned, pass, up, inbox, beating, missed>>

\* Mutant of HandleEventReturns: the timer is not started again.
HandleEventDisarms ==
  /\ inbox' = Tail(inbox)
  /\ Goto("listen")
  /\ UNCHANGED <<mode, order, cleaned, pass, up, beating, armed>>

\* handleStreamEvent returns, and catches every error.
HandleEventReturns ==
  /\ inbox' = Tail(inbox)
  /\ armed' = (beating /\ ~cleaned)
  /\ Goto("listen")
  /\ UNCHANGED <<mode, order, cleaned, pass, up, beating>>

ToClaim(x) == x \notin claimed /\ Kind[x] = "transfer"

HandleEvent ==
  /\ pc = "handle"
  /\ IF ToClaim(Head(inbox)) THEN ClaimReturns(Head(inbox)) ELSE UNCHANGED claimVars
  /\ HandleEventReturns
  /\ UNCHANGED missed

HandleEventRetries ==
  /\ pc = "handle"
  /\ ToClaim(Head(inbox))
  /\ ClaimRetries(Head(inbox))
  /\ UNCHANGED <<mode, order, pc, cleaned, pass, stream, missed>>

HandleEventFails ==
  /\ pc = "handle"
  /\ ToClaim(Head(inbox))
  /\ ClaimGivesUp(Head(inbox))
  /\ HandleEventReturns
  /\ missed' = missed \cup ({Head(inbox)} \cap Claimable)

\* External: the stream goes silent, or ends.
StreamFails ==
  /\ up = "open"
  /\ up' \in {"silent", "ended"}
  /\ UNCHANGED <<mode, server, pc, cleaned, pass, inbox, beating, armed, missed>>

cleanup ==
  /\ ~cleaned
  /\ cleaned' = TRUE
  /\ UNCHANGED <<mode, server, pc, pass, stream, missed>>

Loop ==
  \/ PassStart \/ FetchPage
  \/ \E i \in todo : ClaimNext(i) \/ ClaimNextRetries(i) \/ ClaimNextFails(i)
  \/ NextPage \/ PassEnds
  \/ Tick \/ PeriodicEnds \/ Subscribe \/ Connects \/ IteratorEnds
  \/ Delayed \/ Deliver \/ HandleEvent \/ HandleEventRetries \/ HandleEventFails

Next ==
  \/ Loop \/ AttemptFails \/ Heartbeat \/ HeartbeatTimeout \/ StreamFails \/ cleanup
  \/ \E x \in Transfer : Created(x) \/ BecomesClaimable(x) \/ OthersClaim(x)

Spec == Init /\ [][Next]_vars

(***************************************************************************)
(* The loop is a promise chain that runs whenever it can.  Its calls have  *)
(* deadlines; a query, connection or claim that is tried for ever succeeds *)
(* at some time, and the operators' time becomes known.  A timer that is   *)
(* not cleared goes off.                                                   *)
(***************************************************************************)
FairSpec ==
  /\ Spec
  /\ WF_vars(Loop)
  /\ WF_vars(HeartbeatTimeout /\ up = "silent")
  /\ WF_vars(AttemptFails /\ (cleaned \/ up = "ended"))
  /\ SF_vars(PassStart /\ snapshot' # NoSnapshot)
  /\ \A n \in 0..Cardinality(Transfer) : SF_vars(FetchPage /\ offset = n)
  /\ \A x \in Transfer : SF_vars(\E i \in todo : ClaimNext(i) /\ order[i] = x)
  /\ SF_vars(Subscribe) /\ SF_vars(Connects)

-----------------------------------------------------------------------------
(***************************************************************************)
(* Every variable keeps its type.                                          *)
(***************************************************************************)
TypeOK ==
  /\ mode \in {"stream", "periodic"}
  /\ status \in [Transfer -> {"absent", "created", "claimable", "completed"}]
  /\ tries \in 0..(MaxAttempts - 1) /\ faults \in 0..tries
  /\ owed \subseteq Transfer
  /\ order \in Seq(Transfer)
  /\ pc \in {"subscribe", "pass", "fetch", "claim", "tokens", "listen", "handle", "delay", "rest", "over"}
  /\ cleaned \in BOOLEAN /\ filtered \in BOOLEAN /\ progress \in BOOLEAN
  /\ snapshot \in {NoSnapshot} \cup Nat /\ offset \in Nat /\ batch \in Nat
  /\ page \in Nat /\ todo \subseteq 1..Len(order) /\ claimed \subseteq Transfer
  /\ up \in {"closed", "open", "silent", "ended"} /\ inbox \in Seq(Transfer)
  /\ beating \in BOOLEAN /\ armed \in BOOLEAN
  /\ missed \subseteq Transfer

(***************************************************************************)
(* A wallet that listens, with no event to handle, or rests between passes *)
(* has claimed every transfer: reading pages of a list that the claims     *)
(* shorten leaves none out, and subscription and pass leave no other gap   *)
(* than those in missed (a claim that failed; a list that others, or a     *)
(* claim that failed late, changed during the pass; a fallback that stopped*)
(* at MaxBatches; a transfer that became claimable after the pass looked   *)
(* and before the stream was open).                                        *)
(***************************************************************************)
AtRest == \/ pc = "listen" /\ up = "open" /\ inbox = <<>>
          \/ pc = "rest"
NothingSlipsThrough ==
  AtRest /\ ~cleaned => \A x \in Claimable \ missed : Kind[x] # "transfer"

(***************************************************************************)
(* Claims of the pass and of events give their leaves (ClaimIsKept).       *)
(***************************************************************************)
ClaimsAreKept ==
  ClaimIsKept(IF pc = "handle" THEN {Head(inbox)}
              ELSE IF pc = "claim" THEN {order[i] : i \in {j \in todo : IsNext(j)}} ELSE {})

(***************************************************************************)
(* What a pass misses a later one claims: a wallet that goes on polling,   *)
(* or whose stream breaks again and again, claims every transfer that is   *)
(* claimable, whatever claims, queries and other instances do meanwhile.   *)
(***************************************************************************)
EverythingIsClaimed ==
  \A x \in Transfer :
    (Kind[x] # "counterSwap" /\ []<>(pc = "pass")) =>
      (status[x] = "claimable" ~> (status[x] = "completed" \/ cleaned))

(***************************************************************************)
(* Every attempt gets somewhere: the loop over the pages of a shrinking    *)
(* list ends, and after any failures the wallet listens, or rests, again.  *)
(* After cleanup() it stops.                                               *)
(***************************************************************************)
LoopGoesOn ==
  /\ []<>(pc \in {"listen", "rest", "over"})
  /\ cleaned ~> pc = "over"

(***************************************************************************)
(* A stream that had heartbeats and delivers nothing any more is given up, *)
(* whatever was being handled when it went silent.                         *)
(***************************************************************************)
SilentStreamIsLeft == (up = "silent" /\ beating) ~> up # "silent"
=============================================================================
