-------------------------- MODULE EventStreamProofs --------------------------
(***************************************************************************)
(* Theorems of EventStream, for any transfers, sizes of page and           *)
(* environment: no transfer slips through the pages and the stream, and    *)
(* no claim that was made goes without its leaves.                         *)
(***************************************************************************)
EXTENDS EventStream, FiniteSetTheorems, TLAPS

(***************************************************************************)
(* What holds between steps beside the types: a snapshot counts transfers  *)
(* that exist, an event is handled that was delivered, and every failed    *)
(* attempt of a claim failed for a reason of its own, because onError   *)
(* helps against the others.                                               *)
(***************************************************************************)
Shape ==
  /\ TypeOK
  /\ snapshot <= Len(order)
  /\ pc = "handle" => inbox # <<>>
  /\ faults = tries

\* What the wallet owes is for the claim under way: of the next transfer of the
\* page, or of the event being handled.
PageOwes == pc = "claim" => \A x \in owed : \E i \in todo : IsNext(i) /\ order[i] = x
EventOwes == pc = "handle" => \A x \in owed : x = Head(inbox) /\ ToClaim(x)
NobodyOwes == pc \notin {"claim", "handle"} => owed = {}
Debts == PageOwes /\ EventOwes /\ NobodyOwes

\* The stream delivers only while the attempt listens, a transfer that exists
\* has a place in the list, and what a pass has claimed is completed.
StreamInUse == pc \notin {"listen", "handle"} => up = "closed"
EachHasPlace ==
  \A x \in Transfer : status[x] # "absent" => \E i \in 1..Len(order) : order[i] = x
ClaimedIsDone == \A x \in claimed : status[x] = "completed"

\* Transfers the wallet must not leave out.
Due == {x \in Claimable : x \notin missed /\ Kind[x] = "transfer"}

\* Such a transfer is among those pending, at least n places from the first.
Beyond(x, n) == \E i \in Pending : order[i] = x /\ Rank(i) >= n

\* The claim under way was made, and its answer lost: the list is shorter now.
NextIsDone == \E i \in todo : IsNext(i) /\ status[order[i]] = "completed"

\* Before a page is fetched, what is due is on it or after it.
DueAhead == pc = "fetch" => \A x \in Due : Beyond(x, offset)

\* While a page is claimed, what is due is on it; or the page is full and the
\* next is the first again, or has it or is before it.
DueOnPage ==
  pc = "claim" => \A x \in Due :
    /\ \E i \in 1..Listed : order[i] = x
    /\ \/ \E i \in todo : order[i] = x
       \/ page = PageSize /\ (progress \/ NextIsDone \/ Beyond(x, offset + page))

\* After a pass nothing is due, and on the stream only what events tell of.
NothingDue == pc \in {"tokens", "rest"} => Due = {}
DueIsTold ==
  pc \in {"listen", "handle"} => \A x \in Due : \E i \in 1..Len(inbox) : inbox[i] = x

-----------------------------------------------------------------------------
(***************************************************************************)
(* One claim.                                                              *)
(***************************************************************************)
\* A claim of x goes on, or ends.
ClaimUnderWay(x) == ClaimReturns(x) \/ ClaimRetries(x) \/ ClaimGivesUp(x)

\* Whatever becomes of a claim, its transfer is as it was or completed, and
\* the claim owes nothing more once it has returned or was given up.
LEMMA ClaimEffect ==
  ASSUME Shape, NEW x \in Transfer, ClaimUnderWay(x)
  PROVE  /\ \/ status' = status
            \/ status[x] = "claimable" /\ status' = [status EXCEPT ![x] = "completed"]
         /\ tries' \in 0..(MaxAttempts - 1) /\ faults' = tries'
         /\ owed' \subseteq owed \cup {x}
         /\ ClaimReturns(x) => status'[x] = "completed"
         /\ ~ClaimRetries(x) => owed' = owed \ {x}
<1>0. MaxAttempts \in Nat \ {0} /\ tries \in 0..(MaxAttempts - 1) /\ faults = tries
      /\ status \in [Transfer -> {"absent", "created", "claimable", "completed"}]
  BY TransferClaimAssumption DEF TransferClaimAssumption, Shape, TypeOK
<1>1. ASSUME NEW fault \in 0..1, AttemptFailed(x, fault)
      PROVE  /\ fault = 1
             /\ \/ status' = status
                \/ status[x] = "claimable" /\ status' = [status EXCEPT ![x] = "completed"]
  BY <1>1 DEF AttemptFailed, onError
<1>2. CASE ClaimReturns(x)
  <2>1. tries' = 0 /\ faults' = 0 /\ owed' = owed \ {x}
        /\ status' = [status EXCEPT ![x] = "completed"]
        /\ status[x] \in {"claimable", "completed"}
    BY <1>2 DEF ClaimReturns, Claimed, onError
  <2>2. ~ClaimRetries(x)
    BY <2>1, <1>0 DEF ClaimRetries
  <2> QED
    BY <1>0, <2>1, <2>2
<1>3. CASE ClaimRetries(x)
  <2>1. PICK fault \in 0..1 : AttemptFailed(x, fault) /\ faults' = faults + fault
    BY <1>3 DEF ClaimRetries
  <2>2. tries + 1 < MaxAttempts /\ tries' = tries + 1 /\ owed' \subseteq owed \cup {x}
    BY <1>3 DEF ClaimRetries, Owing
  <2>3. ~ClaimReturns(x)
    BY <2>2, <1>0 DEF ClaimReturns
  <2> QED
    BY <1>0, <1>1, <1>3, <2>1, <2>2, <2>3
<1>4. CASE ClaimExhausted(x)
  <2>1. tries + 1 = MaxAttempts /\ tries' = 0 /\ faults' = 0
    BY <1>4 DEF ClaimExhausted
  <2>2. PICK fault \in 0..1 :
          /\ AttemptFailed(x, fault)
          /\ owed' = IF faults + fault = MaxAttempts THEN Owing(x) \ {x} ELSE Owing(x)
    BY <1>4 DEF ClaimExhausted
  <2>3. owed' = owed \ {x}
    BY <1>0, <1>1, <2>1, <2>2 DEF Owing
  <2>4. ~ClaimRetries(x)
    BY <2>1, <1>0 DEF ClaimRetries
  <2>5. ClaimReturns(x) => status'[x] = "completed"
    BY <1>0 DEF ClaimReturns, Claimed
  <2> QED
    BY <1>0, <1>1, <2>1, <2>2, <2>3, <2>4, <2>5
<1>5. CASE ClaimThrows(x)
  <2>1. tries' = 0 /\ faults' = 0 /\ owed' = owed \ {x}
    BY <1>5 DEF ClaimThrows
  <2>2. \/ status' = status
        \/ status[x] = "claimable" /\ status' = [status EXCEPT ![x] = "completed"]
    BY <1>5, <1>0 DEF ClaimThrows, Claimed, onError
  <2>3. ~ClaimRetries(x)
    BY <2>1, <1>0 DEF ClaimRetries
  <2>4. ClaimReturns(x) => status'[x] = "completed"
    BY <1>0 DEF ClaimReturns, Claimed
  <2> QED
    BY <1>0, <2>1, <2>2, <2>3, <2>4
<1> QED
  BY <1>2, <1>3, <1>4, <1>5 DEF ClaimUnderWay, ClaimGivesUp

\* A claim that returned or was given up is no retry.
LEMMA ReturnsOrFails ==
  ASSUME Shape, NEW x \in Transfer, ClaimReturns(x) \/ ClaimGivesUp(x)
  PROVE  owed' = owed \ {x}
<1>1. ClaimUnderWay(x)
  BY DEF ClaimUnderWay
<1>2. tries \in 0..(MaxAttempts - 1) /\ tries' = 0
  BY DEF Shape, TypeOK, ClaimReturns, ClaimGivesUp, ClaimExhausted, ClaimThrows
<1>3. ~ClaimRetries(x)
  BY <1>2 DEF ClaimRetries
<1> QED
  BY <1>1, <1>3, ClaimEffect

\* No transfer becomes claimable, or exists anew, and what is completed stays so.
StatusKept ==
  /\ \A x \in Transfer : status'[x] = "claimable" => status[x] = "claimable"
  /\ \A x \in Transfer : status[x] = "completed" => status'[x] = "completed"
  /\ \A x \in Transfer : status'[x] # "absent" => status[x] # "absent"

LEMMA ClaimKeepsStatus ==
  ASSUME Shape, NEW x \in Transfer, ClaimUnderWay(x)
  PROVE  /\ StatusKept
         /\ status' \in [Transfer -> {"absent", "created", "claimable", "completed"}]
         /\ owed' \subseteq Transfer /\ faults' \in 0..tries'
         /\ tries' \in 0..(MaxAttempts - 1) /\ faults' = tries'
<1>1. status \in [Transfer -> {"absent", "created", "claimable", "completed"}]
      /\ owed \subseteq Transfer /\ MaxAttempts \in Nat \ {0}
  BY TransferClaimAssumption DEF TransferClaimAssumption, Shape, TypeOK
<1> QED
  BY ClaimEffect, <1>1 DEF StatusKept

-----------------------------------------------------------------------------
(***************************************************************************)
(* Types and shape.                                                        *)
(***************************************************************************)
LEMMA ShapeInit == Init => Shape
<1>1. MaxAttempts \in Nat \ {0} /\ Mode \subseteq {"stream", "periodic"}
  BY TransferClaimAssumption, EventStreamAssumption
     DEF TransferClaimAssumption, EventStreamAssumption
<1>2. SUFFICES ASSUME Init PROVE Shape
  OBVIOUS
<1>3. /\ status \in [Transfer -> {"absent", "created", "claimable", "completed"}]
      /\ tries = 0 /\ faults = 0 /\ owed = {} /\ cleaned = FALSE
  BY <1>2 DEF Init, ClaimInit
<1>4. order \in Seq(Transfer) /\ inbox \in Seq(Transfer) /\ Len(order) = 0
  BY <1>2 DEF Init
<1>5. snapshot = -1 /\ todo = {} /\ pc \in {"subscribe", "pass"}
  BY <1>2 DEF Init, NoSnapshot
<1>6. /\ mode \in {"stream", "periodic"} /\ filtered = FALSE /\ progress = FALSE
      /\ offset = 0 /\ batch = 0 /\ page = 0 /\ claimed = {} /\ missed = {}
      /\ up = "closed" /\ beating = FALSE /\ armed = FALSE
  BY <1>1, <1>2 DEF Init
<1>7. TypeOK
  <2>1. /\ tries \in 0..(MaxAttempts - 1) /\ faults \in 0..tries
        /\ snapshot \in {NoSnapshot} \cup Nat
    BY <1>1, <1>3, <1>5 DEF NoSnapshot
  <2>2. /\ cleaned \in BOOLEAN /\ filtered \in BOOLEAN /\ progress \in BOOLEAN
        /\ beating \in BOOLEAN /\ armed \in BOOLEAN
    BY <1>3, <1>6
  <2>3. /\ owed \subseteq Transfer /\ todo \subseteq 1..Len(order)
        /\ claimed \subseteq Transfer /\ missed \subseteq Transfer
    BY <1>3, <1>5, <1>6
  <2> QED
    BY <1>3, <1>4, <1>5, <1>6, <2>1, <2>2, <2>3 DEF TypeOK
<1> QED
  BY <1>3, <1>4, <1>5, <1>7 DEF Shape

\* The places a page may give transfers to claim from exist.
LEMMA ListedExists == ASSUME Shape PROVE Listed \in Nat /\ Listed <= Len(order)
  BY DEF Shape, TypeOK, Listed, NoSnapshot

LEMMA PageType ==
  ASSUME Shape
  PROVE  Pending \subseteq 1..Len(order) /\ IsFiniteSet(Pending) /\ PageLength \in Nat
<1>1. Pending \subseteq 1..Len(order)
  BY ListedExists DEF Pending, Shape, TypeOK
<1>2. IsFiniteSet(Pending)
  <2>1. IsFiniteSet(1..Len(order))
    BY FS_Interval DEF Shape, TypeOK
  <2> QED
    BY <1>1, <2>1, FS_Subset
<1>3. Cardinality(Pending) \in Nat
  BY <1>2, FS_CardinalityType
<1> QED
  BY <1>1, <1>2, <1>3, EventStreamAssumption DEF EventStreamAssumption, PageLength, Shape, TypeOK

LEMMA AppendKeeps ==
  ASSUME NEW s \in Seq(Transfer), NEW x \in Transfer
  PROVE  /\ Append(s, x) \in Seq(Transfer) /\ Len(Append(s, x)) = Len(s) + 1
         /\ Len(s) \in Nat /\ Append(s, x)[Len(s) + 1] = x
         /\ \A i \in 1..Len(s) : Append(s, x)[i] = s[i]
         /\ s # <<>> => Head(Append(s, x)) = Head(s)
         /\ Append(s, x) # <<>>
  OBVIOUS

\* What the end of an attempt, or of a pass, leaves.
LEMMA EndShape ==
  ASSUME Shape, NEW place \in {"subscribe", "delay", "rest", "over"}, EndAttempt(place),
         UNCHANGED <<mode, server, cleaned, filtered>>
  PROVE  Shape'
<1>1. order' = order /\ todo' = {} /\ snapshot' = -1 /\ inbox' = <<>> /\ claimed' = {}
      /\ faults' = tries' /\ tries' = tries /\ pc' = place /\ missed' = missed \cup Claimable
  BY DEF EndAttempt, Locals, server, claimVars, outcome, Shape, NoSnapshot, Goto
<1>2. status' = status /\ owed' = owed /\ mode' = mode /\ cleaned' = cleaned /\ filtered' = filtered
      /\ offset' = 0 /\ batch' = 0 /\ page' = 0 /\ progress' = FALSE
      /\ up' = "closed" /\ beating' = FALSE /\ armed' = FALSE
  BY DEF EndAttempt, Locals, server, claimVars, outcome
<1>3. TypeOK'
  <2>1. /\ cleaned' \in BOOLEAN /\ filtered' \in BOOLEAN /\ progress' \in BOOLEAN
        /\ beating' \in BOOLEAN /\ armed' \in BOOLEAN
    BY <1>2 DEF Shape, TypeOK
  <2>2. /\ owed' \subseteq Transfer /\ todo' \subseteq 1..Len(order)
        /\ claimed' \subseteq Transfer /\ missed' \subseteq Transfer
    BY <1>1, <1>2 DEF Shape, TypeOK, Claimable
  <2>3. /\ tries' \in 0..(MaxAttempts - 1) /\ faults' \in 0..tries'
        /\ snapshot' \in {NoSnapshot} \cup Nat
    BY <1>1 DEF Shape, TypeOK, NoSnapshot
  <2>4. inbox' \in Seq(Transfer)
    BY <1>1
  <2> QED
    BY <1>1, <1>2, <2>1, <2>2, <2>3, <2>4 DEF Shape, TypeOK
<1> QED
  BY <1>1, <1>3 DEF Shape, TypeOK

LEMMA ShapeStep == Shape /\ [Next]_vars => Shape'
<1> SUFFICES ASSUME Shape, [Next]_vars PROVE Shape'
  OBVIOUS
<1> USE DEF Goto
<1>1. ASSUME NEW x \in Transfer, Created(x) PROVE Shape'
  <2>1. order' \in Seq(Transfer) /\ Len(order') = Len(order) + 1 /\ Len(order) \in Nat
    BY <1>1, AppendKeeps DEF Created, Shape, TypeOK
  <2>2. status' \in [Transfer -> {"absent", "created", "claimable", "completed"}]
    BY <1>1 DEF Created, Shape, TypeOK
  <2>3. todo' \subseteq 1..Len(order') /\ snapshot' <= Len(order')
    BY <1>1, <2>1 DEF Created, pass, locals, Shape, TypeOK, NoSnapshot
  <2>4. UNCHANGED <<mode, outcome, pc, cleaned, pass, stream, missed>>
    BY <1>1 DEF Created
  <2> QED
    BY <2>1, <2>2, <2>3, <2>4 DEF Shape, TypeOK, outcome, pass, locals, stream
<1>2. ASSUME NEW x \in Transfer, BecomesClaimable(x) PROVE Shape'
  <2>1. inbox' \in Seq(Transfer) /\ (pc = "handle" => inbox' # <<>>)
    BY <1>2, AppendKeeps DEF BecomesClaimable, Shape, TypeOK
  <2>2. status' \in [Transfer -> {"absent", "created", "claimable", "completed"}]
    BY <1>2 DEF BecomesClaimable, Shape, TypeOK
  <2>3. missed' \subseteq Transfer
    BY <1>2 DEF BecomesClaimable, Shape, TypeOK
  <2>4. UNCHANGED <<mode, outcome, order, pc, cleaned, pass, up, beating, armed>>
    BY <1>2 DEF BecomesClaimable
  <2> QED
    BY <2>1, <2>2, <2>3, <2>4 DEF Shape, TypeOK, outcome, pass, locals
<1>3. ASSUME NEW x \in Transfer, OthersClaim(x) PROVE Shape'
  <2>1. status' \in [Transfer -> {"absent", "created", "claimable", "completed"}]
    BY <1>3 DEF OthersClaim, Shape, TypeOK
  <2>2. missed' \subseteq Transfer
    BY <1>3 DEF OthersClaim, Shape, TypeOK, Claimable
  <2> QED
    BY <1>3, <2>1, <2>2 DEF OthersClaim, Shape, TypeOK, outcome, pass, locals, stream
<1>4. CASE PassStart
  <2>1. snapshot' \in {NoSnapshot} \cup Nat /\ snapshot' <= Len(order)
    BY <1>4 DEF PassStart, Locals, Shape, TypeOK, NoSnapshot
  <2>2. offset' = 0 /\ batch' = 0 /\ page' = 0 /\ todo' = {} /\ progress' = FALSE
    BY <1>4 DEF PassStart, Locals
  <2> QED
    BY <1>4, <2>1, <2>2 DEF PassStart, Shape, TypeOK, server, claimVars, outcome, stream
<1>5. CASE FetchPage
  <2>1. page' \in Nat /\ todo' \subseteq 1..Len(order)
    BY <1>5, PageType DEF FetchPage
  <2>2. batch' \in Nat
    BY <1>5 DEF FetchPage, Shape, TypeOK
  <2> QED
    BY <1>5, <2>1, <2>2 DEF FetchPage, Shape, TypeOK, server, claimVars, outcome, stream
<1>6. ASSUME NEW i \in todo, ClaimNext(i) \/ ClaimNextRetries(i) \/ ClaimNextFails(i) PROVE Shape'
  <2>1. order[i] \in Transfer
    BY DEF Shape, TypeOK
  <2>2. ClaimUnderWay(order[i])
    BY <1>6 DEF ClaimNext, ClaimNextRetries, ClaimNextFails, ClaimUnderWay
  <2>3. /\ status' \in [Transfer -> {"absent", "created", "claimable", "completed"}]
        /\ owed' \subseteq Transfer /\ faults' \in 0..tries'
        /\ tries' \in 0..(MaxAttempts - 1) /\ faults' = tries'
    BY <2>1, <2>2, ClaimKeepsStatus
  <2>4. UNCHANGED <<mode, order, pc, cleaned, filtered, snapshot, offset, batch, page, stream>>
    BY <1>6 DEF ClaimNext, ClaimNextRetries, ClaimNextFails, pass, locals
  <2>5. progress' \in BOOLEAN /\ claimed' \subseteq Transfer /\ todo' \subseteq todo
        /\ missed' \subseteq Transfer
    BY <1>6, <2>1 DEF ClaimNext, ClaimNextRetries, ClaimNextFails, pass, locals, Shape, TypeOK,
                      Claimable
  <2> QED
    BY <2>3, <2>4, <2>5 DEF Shape, TypeOK, stream
<1>7. CASE NextPage
  <2>1. offset' \in Nat
    BY <1>7 DEF NextPage, Shape, TypeOK
  <2> QED
    BY <1>7, <2>1 DEF NextPage, Shape, TypeOK, server, claimVars, outcome, stream
<1>8. CASE PassEnds
  <2>1. missed' \subseteq Transfer /\ claimed' \subseteq Transfer
    BY <1>8 DEF PassEnds, Shape, TypeOK, Claimable
  <2>2. /\ snapshot' = -1 /\ offset' = 0 /\ batch' = 0 /\ page' = 0 /\ todo' = {}
        /\ progress' = FALSE
    BY <1>8 DEF PassEnds, Locals, NoSnapshot
  <2>3. pc' \in {"tokens", "rest"}
    BY <1>8 DEF PassEnds
  <2>4. UNCHANGED <<mode, server, cleaned, filtered, stream>>
    BY <1>8 DEF PassEnds
  <2>5. /\ status' = status /\ tries' = tries /\ faults' = faults /\ owed' = owed
        /\ order' = order /\ mode' = mode /\ cleaned' = cleaned /\ filtered' = filtered
        /\ up' = up /\ inbox' = inbox /\ beating' = beating /\ armed' = armed
    BY <2>4 DEF server, claimVars, outcome, stream
  <2>6. /\ cleaned' \in BOOLEAN /\ filtered' \in BOOLEAN /\ progress' \in BOOLEAN
        /\ beating' \in BOOLEAN /\ armed' \in BOOLEAN
    BY <2>2, <2>5 DEF Shape, TypeOK
  <2>7. snapshot' \in {NoSnapshot} \cup Nat /\ snapshot' <= Len(order')
    BY <2>2, <2>5 DEF Shape, TypeOK, NoSnapshot
  <2> QED
    BY <2>1, <2>2, <2>3, <2>5, <2>6, <2>7 DEF Shape, TypeOK
<1>9. CASE Tick \/ PeriodicEnds \/ Subscribe \/ Delayed
  <2>1. pc' \in {"pass", "over", "subscribe"} /\ filtered' \in BOOLEAN
    BY <1>9 DEF Tick, PeriodicEnds, Subscribe, Delayed, pass, Shape, TypeOK
  <2>2. UNCHANGED <<mode, server, cleaned, locals, claimed, stream, missed>>
    BY <1>9 DEF Tick, PeriodicEnds, Subscribe, Delayed, pass
  <2> QED
    BY <2>1, <2>2 DEF Shape, TypeOK, server, claimVars, outcome, locals, stream
<1>10. CASE Connects
  <2>1. inbox' \in Seq(Transfer) /\ up' = "open" /\ pc' = "listen"
    BY <1>10 DEF Connects
  <2> QED
    BY <1>10, <2>1 DEF Connects, Shape, TypeOK, server, claimVars, outcome, pass, locals
<1>11. CASE AttemptFails \/ IteratorEnds \/ HeartbeatTimeout
  <2>1. PICK place \in {"subscribe", "delay", "rest", "over"} : EndAttempt(place)
    BY <1>11 DEF AttemptFails, IteratorEnds, HeartbeatTimeout
  <2> QED
    BY <1>11, <2>1, EndShape DEF AttemptFails, IteratorEnds, HeartbeatTimeout
<1>12. CASE Deliver
  BY <1>12 DEF Deliver, Shape, TypeOK, server, claimVars, outcome, pass, locals
<1>13. CASE Heartbeat \/ StreamFails
  <2>1. up' \in {"open", "silent", "ended"} /\ beating' \in BOOLEAN /\ armed' \in BOOLEAN
    BY <1>13 DEF Heartbeat, StreamFails, Shape, TypeOK
  <2>2. UNCHANGED <<mode, server, pc, cleaned, pass, inbox, missed>>
    BY <1>13 DEF Heartbeat, StreamFails
  <2> QED
    BY <2>1, <2>2 DEF Shape, TypeOK, server, claimVars, outcome, pass, locals
<1>14. CASE cleanup
  BY <1>14 DEF cleanup, Shape, TypeOK, server, claimVars, outcome, pass, locals, stream
<1>15. CASE HandleEvent \/ HandleEventRetries \/ HandleEventFails
  <2>1. Head(inbox) \in Transfer /\ Tail(inbox) \in Seq(Transfer) /\ pc = "handle"
    BY <1>15 DEF HandleEvent, HandleEventRetries, HandleEventFails, Shape, TypeOK
  <2>2. UNCHANGED claimVars \/ ClaimUnderWay(Head(inbox))
    BY <1>15 DEF HandleEvent, HandleEventRetries, HandleEventFails, ClaimUnderWay
  <2>3. /\ status' \in [Transfer -> {"absent", "created", "claimable", "completed"}]
        /\ owed' \subseteq Transfer /\ faults' \in 0..tries'
        /\ tries' \in 0..(MaxAttempts - 1) /\ faults' = tries'
    BY <2>1, <2>2, ClaimKeepsStatus DEF claimVars, outcome, Shape, TypeOK
  <2>4. UNCHANGED <<mode, order, cleaned, pass, up, beating>>
    BY <1>15 DEF HandleEvent, HandleEventRetries, HandleEventFails, HandleEventReturns, stream
  <2>5. /\ inbox' \in Seq(Transfer) /\ armed' \in BOOLEAN /\ pc' \in {"listen", "handle"}
        /\ pc' = "handle" => inbox' = inbox
    BY <1>15, <2>1 DEF HandleEvent, HandleEventRetries, HandleEventFails, HandleEventReturns, stream,
                       Shape, TypeOK
  <2>6. missed' \subseteq Transfer
    BY <1>15, <2>1 DEF HandleEvent, HandleEventRetries, HandleEventFails, Shape, TypeOK
  <2> QED
    BY <2>1, <2>3, <2>4, <2>5, <2>6 DEF Shape, TypeOK, pass, locals
<1>16. CASE UNCHANGED vars
  BY <1>16 DEF vars, Shape, TypeOK, server, claimVars, outcome, pass, locals, stream
<1> QED
  BY <1>1, <1>2, <1>3, <1>4, <1>5, <1>6, <1>7, <1>8, <1>9, <1>10, <1>11, <1>12, <1>13, <1>14,
     <1>15, <1>16 DEF Next, Loop

\* Every variable keeps its type.
THEOREM TypesKept == Spec => []TypeOK
<1>1. Shape => TypeOK
  BY DEF Shape
<1> QED
  BY ShapeInit, ShapeStep, <1>1, PTL DEF Spec

-----------------------------------------------------------------------------
(***************************************************************************)
(* Claims are kept.                                                        *)
(***************************************************************************)
\* Nobody owes anything outside a page and an event, whatever comes next.
LEMMA NoDebts == ASSUME Debts, pc \notin {"claim", "handle"}, owed' = owed PROVE Debts'
<1>1. owed' = {}
  BY DEF Debts, NobodyOwes
<1> QED
  BY <1>1 DEF Debts, PageOwes, EventOwes, NobodyOwes

\* What goes on beside a claim leaves its debt.
LEMMA DebtsBeside ==
  ASSUME Shape, Debts, owed' = owed, pc' = pc, todo' = todo, claimed' = claimed,
         \A i \in todo : order'[i] = order[i],
         pc = "handle" => Head(inbox') = Head(inbox)
  PROVE  Debts'
<1>1. PageOwes'
  BY DEF Debts, PageOwes, IsNext
<1>2. EventOwes'
  BY DEF Debts, EventOwes, ToClaim
<1>3. NobodyOwes'
  BY DEF Debts, NobodyOwes
<1> QED
  BY <1>1, <1>2, <1>3 DEF Debts

LEMMA DebtsStep == Shape /\ Debts /\ [Next]_vars => Debts'
<1> SUFFICES ASSUME Shape, Debts, [Next]_vars PROVE Debts'
  OBVIOUS
<1> USE DEF Goto
<1>1. ASSUME NEW x \in Transfer, Created(x) PROVE Debts'
  <2>1. UNCHANGED <<pc, owed, todo, claimed, inbox>> /\ order' = Append(order, x)
    BY <1>1 DEF Created, outcome, pass, locals, stream
  <2>2. \A i \in todo : order'[i] = order[i]
    BY <2>1, AppendKeeps DEF Shape, TypeOK
  <2> QED
    BY <2>1, <2>2, DebtsBeside
<1>2. ASSUME NEW x \in Transfer, BecomesClaimable(x) PROVE Debts'
  <2>1. UNCHANGED <<pc, owed, todo, claimed, order>>
    BY <1>2 DEF BecomesClaimable, outcome, pass, locals
  <2>2. pc = "handle" => Head(inbox') = Head(inbox)
    BY <1>2, AppendKeeps DEF BecomesClaimable, Shape, TypeOK
  <2> QED
    BY <2>1, <2>2, DebtsBeside
<1>3. CASE UNCHANGED <<pc, owed, todo, claimed, order, inbox>>
  BY <1>3, DebtsBeside
<1>4. ASSUME NEW x \in Transfer, OthersClaim(x) PROVE Debts'
  BY <1>4, <1>3 DEF OthersClaim, outcome, pass, locals, stream
<1>5. CASE \/ PassStart \/ FetchPage \/ Tick \/ PeriodicEnds \/ Subscribe \/ Connects
           \/ IteratorEnds \/ Delayed \/ Deliver \/ AttemptFails \/ HeartbeatTimeout
  <2>1. pc \notin {"claim", "handle"}
    BY <1>5 DEF PassStart, FetchPage, Tick, PeriodicEnds, Subscribe, Connects,
                IteratorEnds, Delayed, Deliver, AttemptFails, HeartbeatTimeout
  <2>2. UNCHANGED server
    BY <1>5 DEF PassStart, FetchPage, Tick, PeriodicEnds, Subscribe, Connects,
                IteratorEnds, Delayed, Deliver, AttemptFails, HeartbeatTimeout
  <2> QED
    BY <2>1, <2>2, NoDebts DEF server, claimVars, outcome
<1>6. CASE Heartbeat \/ StreamFails \/ cleanup \/ UNCHANGED vars
  <2>1. UNCHANGED <<pc, server, pass, inbox>>
    BY <1>6 DEF Heartbeat, StreamFails, cleanup, vars, stream
  <2> QED
    BY <2>1, <1>3 DEF server, claimVars, outcome, pass, locals
<1>7. ASSUME NEW i \in todo, ClaimNext(i) \/ ClaimNextRetries(i) \/ ClaimNextFails(i) PROVE Debts'
  <2>1. order[i] \in Transfer /\ pc = "claim" /\ pc' = pc /\ order' = order /\ IsNext(i)
    BY <1>7 DEF ClaimNext, ClaimNextRetries, ClaimNextFails, Shape, TypeOK
  <2>2. \A j \in todo : IsNext(j) => j = i
    BY <2>1 DEF IsNext, Shape, TypeOK
  <2>3. owed \subseteq {order[i]}
    BY <2>1, <2>2 DEF Debts, PageOwes
  <2>4. ClaimUnderWay(order[i])
    BY <1>7 DEF ClaimNext, ClaimNextRetries, ClaimNextFails, ClaimUnderWay
  <2>5. CASE ClaimNextRetries(i)
    <3>1. owed' \subseteq {order[i]}
      BY <2>1, <2>3, <2>4, ClaimEffect
    <3>2. todo' = todo
      BY <2>5 DEF ClaimNextRetries, pass, locals
    <3> QED
      BY <2>1, <3>1, <3>2 DEF Debts, PageOwes, EventOwes, NobodyOwes, IsNext
  <2>6. CASE ~ClaimNextRetries(i)
    <3>1. ClaimReturns(order[i]) \/ ClaimGivesUp(order[i])
      BY <1>7, <2>6 DEF ClaimNext, ClaimNextFails
    <3>2. owed' = {}
      BY <2>1, <2>3, <3>1, ReturnsOrFails
    <3> QED
      BY <2>1, <3>2 DEF Debts, PageOwes, EventOwes, NobodyOwes
  <2> QED
    BY <2>5, <2>6
<1>8. CASE NextPage \/ PassEnds
  <2>1. pc = "claim" /\ todo = {} /\ owed' = owed
    BY <1>8 DEF NextPage, PassEnds, server, claimVars, outcome
  <2>2. owed' = {}
    BY <2>1 DEF Debts, PageOwes
  <2> QED
    BY <2>2 DEF Debts, PageOwes, EventOwes, NobodyOwes
<1>9. CASE HandleEvent \/ HandleEventFails
  <2>1. pc = "handle" /\ pc' = "listen" /\ Head(inbox) \in Transfer
    BY <1>9 DEF HandleEvent, HandleEventFails, HandleEventReturns, Shape, TypeOK
  <2>2. \A x \in owed : x = Head(inbox) /\ ToClaim(x)
    BY <2>1 DEF Debts, EventOwes
  <2>3. CASE ToClaim(Head(inbox))
    <3>1. ClaimReturns(Head(inbox)) \/ ClaimGivesUp(Head(inbox))
      BY <1>9, <2>3 DEF HandleEvent, HandleEventFails
    <3>2. owed' = owed \ {Head(inbox)}
      BY <2>1, <3>1, ReturnsOrFails
    <3> QED
      BY <2>1, <2>2, <3>2 DEF Debts, PageOwes, EventOwes, NobodyOwes
  <2>4. CASE ~ToClaim(Head(inbox))
    <3>1. owed' = owed
      BY <1>9, <2>4 DEF HandleEvent, HandleEventFails, claimVars, outcome
    <3>2. owed' = {}
      BY <2>2, <2>4, <3>1
    <3> QED
      BY <3>2 DEF Debts, PageOwes, EventOwes, NobodyOwes
  <2> QED
    BY <2>3, <2>4
<1>10. CASE HandleEventRetries
  <2>1. pc = "handle" /\ pc' = "handle" /\ Head(inbox) \in Transfer
        /\ ToClaim(Head(inbox)) /\ ClaimUnderWay(Head(inbox))
    BY <1>10 DEF HandleEventRetries, ClaimUnderWay, Shape, TypeOK
  <2>2. inbox' = inbox /\ claimed' = claimed
    BY <1>10 DEF HandleEventRetries, pass, stream
  <2>3. \A x \in owed' : x = Head(inbox)
    BY <2>1, ClaimEffect DEF Debts, EventOwes
  <2>4. \A x \in owed' : x = Head(inbox') /\ ToClaim(x)'
    BY <2>1, <2>2, <2>3 DEF ToClaim
  <2> QED
    BY <2>1, <2>4 DEF Debts, PageOwes, EventOwes, NobodyOwes
<1> QED
  BY <1>1, <1>2, <1>4, <1>5, <1>6, <1>7, <1>8, <1>9, <1>10 DEF Next, Loop

\* The claim under way is the only one that owes leaves: a claim the operators
\* have made is found again by its retries, unless each of them failed for a
\* reason of its own.
THEOREM ClaimsKeepLeaves == Spec => []ClaimsAreKept
<1>1. Init => Debts
  BY DEF Init, ClaimInit, Debts, PageOwes, EventOwes, NobodyOwes
<1>2. Debts => ClaimsAreKept
  BY DEF Debts, PageOwes, EventOwes, NobodyOwes, ClaimsAreKept, ClaimIsKept
<1> QED
  BY ShapeInit, ShapeStep, DebtsStep, <1>1, <1>2, PTL DEF Spec

-----------------------------------------------------------------------------
(***************************************************************************)
(* The list, the pages and the stream.                                     *)
(***************************************************************************)
LEMMA StreamInUseStep == StreamInUse /\ [Next]_vars => StreamInUse'
<1> SUFFICES ASSUME StreamInUse, [Next]_vars PROVE StreamInUse'
  OBVIOUS
<1> USE DEF StreamInUse, Goto
<1>1. CASE UNCHANGED <<pc, up>>
  BY <1>1
<1>2. CASE \/ PassStart \/ FetchPage \/ NextPage \/ PassEnds \/ Tick \/ PeriodicEnds \/ Subscribe
           \/ Delayed
  <2>1. up' = up
    BY <1>2 DEF PassStart, FetchPage, NextPage, PassEnds, Tick, PeriodicEnds, Subscribe, Delayed,
                stream
  <2>2. pc \notin {"listen", "handle"}
    BY <1>2 DEF PassStart, FetchPage, NextPage, PassEnds, Tick, PeriodicEnds, Subscribe, Delayed
  <2> QED
    BY <2>1, <2>2
<1>3. CASE Connects \/ Deliver \/ HandleEvent \/ HandleEventFails
  BY <1>3 DEF Connects, Deliver, HandleEvent, HandleEventFails, HandleEventReturns
<1>4. CASE IteratorEnds \/ AttemptFails \/ HeartbeatTimeout
  BY <1>4 DEF IteratorEnds, AttemptFails, HeartbeatTimeout, EndAttempt
<1>5. CASE Heartbeat \/ StreamFails \/ HandleEventRetries
  BY <1>5 DEF Heartbeat, StreamFails, HandleEventRetries, stream
<1>6. CASE cleanup \/ UNCHANGED vars
  BY <1>1, <1>6 DEF cleanup, vars, stream
<1>7. ASSUME NEW x \in Transfer, Created(x) \/ BecomesClaimable(x) \/ OthersClaim(x)
      PROVE  StreamInUse'
  BY <1>1, <1>7 DEF Created, BecomesClaimable, OthersClaim, stream
<1>8. ASSUME NEW i \in todo, ClaimNext(i) \/ ClaimNextRetries(i) \/ ClaimNextFails(i)
      PROVE  StreamInUse'
  BY <1>1, <1>8 DEF ClaimNext, ClaimNextRetries, ClaimNextFails, stream
<1> QED
  BY <1>2, <1>3, <1>4, <1>5, <1>6, <1>7, <1>8 DEF Next, Loop

\* What each step does to the transfers at the operators.
LEMMA StatusStep ==
  ASSUME Shape, [Next]_vars
  PROVE  \/ \E x \in Transfer : Created(x)
         \/ \E x \in Transfer : BecomesClaimable(x)
         \/ StatusKept /\ order' = order
<1> USE DEF Goto
<1>1. ASSUME UNCHANGED <<status, order>> PROVE StatusKept /\ order' = order
  BY <1>1 DEF StatusKept
<1>2. CASE \/ PassStart \/ FetchPage \/ NextPage \/ PassEnds \/ Tick \/ PeriodicEnds \/ Subscribe
           \/ Delayed \/ Connects \/ Deliver \/ IteratorEnds \/ AttemptFails \/ HeartbeatTimeout
           \/ Heartbeat \/ StreamFails \/ cleanup
  <2>1. UNCHANGED server
    BY <1>2 DEF PassStart, FetchPage, NextPage, PassEnds, Tick, PeriodicEnds, Subscribe,
                Delayed, Connects, Deliver, IteratorEnds, AttemptFails, HeartbeatTimeout,
                Heartbeat, StreamFails, cleanup
  <2> QED
    BY <1>1, <2>1 DEF server, claimVars
<1>3. CASE UNCHANGED vars
  BY <1>1, <1>3 DEF vars, server, claimVars
<1>4. ASSUME NEW x \in Transfer, OthersClaim(x) PROVE StatusKept /\ order' = order
  BY <1>4 DEF OthersClaim, Claimable, StatusKept, Shape, TypeOK
<1>5. ASSUME NEW i \in todo, ClaimNext(i) \/ ClaimNextRetries(i) \/ ClaimNextFails(i)
      PROVE  StatusKept /\ order' = order
  <2>1. order[i] \in Transfer /\ order' = order /\ ClaimUnderWay(order[i])
    BY <1>5 DEF ClaimNext, ClaimNextRetries, ClaimNextFails, ClaimUnderWay, Shape, TypeOK
  <2> QED
    BY <2>1, ClaimKeepsStatus
<1>6. CASE HandleEvent \/ HandleEventRetries \/ HandleEventFails
  <2>1. Head(inbox) \in Transfer /\ order' = order
    BY <1>6 DEF HandleEvent, HandleEventRetries, HandleEventFails, HandleEventReturns, Shape, TypeOK
  <2>2. UNCHANGED claimVars \/ ClaimUnderWay(Head(inbox))
    BY <1>6 DEF HandleEvent, HandleEventRetries, HandleEventFails, ClaimUnderWay
  <2> QED
    BY <2>1, <2>2, <1>1, ClaimKeepsStatus DEF claimVars
<1> QED
  BY <1>2, <1>3, <1>4, <1>5, <1>6 DEF Next, Loop

LEMMA EachHasPlaceStep == Shape /\ EachHasPlace /\ [Next]_vars => EachHasPlace'
<1> SUFFICES ASSUME Shape, EachHasPlace, [Next]_vars PROVE EachHasPlace'
  OBVIOUS
<1>1. ASSUME NEW x \in Transfer, Created(x) PROVE EachHasPlace'
  <2>1. /\ order' = Append(order, x) /\ order \in Seq(Transfer)
        /\ \A y \in Transfer : y # x => status'[y] = status[y]
    BY <1>1 DEF Created, Shape, TypeOK
  <2>2. /\ Len(order') = Len(order) + 1 /\ Len(order) \in Nat /\ order'[Len(order) + 1] = x
        /\ \A i \in 1..Len(order) : order'[i] = order[i]
    BY <2>1, AppendKeeps
  <2>3. ASSUME NEW y \in Transfer, status'[y] # "absent"
        PROVE  \E i \in 1..Len(order') : order'[i] = y
    <3>1. CASE y = x
      BY <2>2, <3>1
    <3>2. CASE y # x
      <4>1. PICK i \in 1..Len(order) : order[i] = y
        BY <2>1, <2>3, <3>2 DEF EachHasPlace
      <4> QED
        BY <2>2, <4>1
    <3> QED
      BY <3>1, <3>2
  <2> QED
    BY <2>3 DEF EachHasPlace
<1>2. ASSUME NEW x \in Transfer, BecomesClaimable(x) PROVE EachHasPlace'
  BY <1>2 DEF BecomesClaimable, EachHasPlace, Shape, TypeOK
<1>3. CASE StatusKept /\ order' = order
  BY <1>3 DEF StatusKept, EachHasPlace
<1> QED
  BY <1>1, <1>2, <1>3, StatusStep

LEMMA ClaimedIsDoneStep == Shape /\ ClaimedIsDone /\ [Next]_vars => ClaimedIsDone'
<1> SUFFICES ASSUME Shape, ClaimedIsDone, [Next]_vars PROVE ClaimedIsDone'
  OBVIOUS
<1>0. claimed \subseteq Transfer
  BY DEF Shape, TypeOK
<1>1. \A x \in Transfer : status[x] = "completed" => status'[x] = "completed"
  <2>1. ASSUME NEW x \in Transfer, Created(x) \/ BecomesClaimable(x)
        PROVE  \A y \in Transfer : status[y] = "completed" => status'[y] = "completed"
    BY <2>1 DEF Created, BecomesClaimable, Shape, TypeOK
  <2> QED
    BY <2>1, StatusStep DEF StatusKept
<1>2. CASE claimed' \subseteq claimed
  BY <1>0, <1>1, <1>2 DEF ClaimedIsDone
<1>3. ASSUME NEW i \in todo, ClaimNext(i) PROVE ClaimedIsDone'
  <2>1. order[i] \in Transfer /\ ClaimUnderWay(order[i]) /\ ClaimReturns(order[i])
        /\ claimed' = claimed \cup {order[i]}
    BY <1>3 DEF ClaimNext, ClaimUnderWay, Shape, TypeOK
  <2>2. status'[order[i]] = "completed"
    BY <2>1, ClaimEffect
  <2> QED
    BY <1>0, <1>1, <2>1, <2>2 DEF ClaimedIsDone
<1>4. (\E i \in todo : ClaimNext(i)) \/ claimed' \subseteq claimed
  <2> USE DEF pass, EndAttempt
  <2>1. ASSUME NEW x \in Transfer, Created(x) \/ BecomesClaimable(x) \/ OthersClaim(x)
        PROVE  claimed' \subseteq claimed
    BY <2>1 DEF Created, BecomesClaimable, OthersClaim
  <2>2. ASSUME NEW i \in todo, ClaimNextRetries(i) \/ ClaimNextFails(i)
        PROVE  claimed' \subseteq claimed
    BY <2>2 DEF ClaimNextRetries, ClaimNextFails
  <2>3. CASE \/ PassStart \/ FetchPage \/ NextPage \/ PassEnds \/ Tick \/ PeriodicEnds \/ Subscribe
             \/ Delayed
    BY <2>3 DEF PassStart, FetchPage, NextPage, PassEnds, Tick, PeriodicEnds, Subscribe, Delayed
  <2>4. CASE \/ Connects \/ Deliver \/ IteratorEnds \/ AttemptFails \/ HeartbeatTimeout
             \/ Heartbeat \/ StreamFails \/ cleanup \/ UNCHANGED vars
    BY <2>4 DEF Connects, Deliver, IteratorEnds, AttemptFails, HeartbeatTimeout, Heartbeat,
                StreamFails, cleanup, vars
  <2>5. CASE HandleEvent \/ HandleEventRetries \/ HandleEventFails
    BY <2>5 DEF HandleEvent, HandleEventRetries, HandleEventFails, HandleEventReturns
  <2> QED
    BY <2>1, <2>2, <2>3, <2>4, <2>5 DEF Next, Loop
<1> QED
  BY <1>2, <1>3, <1>4

-----------------------------------------------------------------------------
(***************************************************************************)
(* Nothing slips through.                                                  *)
(***************************************************************************)
\* Whatever is due will be found.
Found == DueAhead /\ DueOnPage /\ NothingDue /\ DueIsTold

\* Where nothing is due, or no list nor stream is read, nothing is left out.
LEMMA NothingToFind == ASSUME Due' = {} PROVE Found'
  BY DEF Found, DueAhead, DueOnPage, NothingDue, DueIsTold

LEMMA NobodyLooks ==
  ASSUME pc' \notin {"fetch", "claim", "tokens", "rest", "listen", "handle"} PROVE Found'
  BY DEF Found, DueAhead, DueOnPage, NothingDue, DueIsTold

LEMMA RankType ==
  ASSUME Shape, NEW i \in Pending
  PROVE  /\ Rank(i) \in Nat
         /\ Cardinality(Pending) \in Nat /\ Rank(i) < Cardinality(Pending)
<1> DEFINE before == {j \in Pending : j < i}
<1>1. IsFiniteSet(Pending) /\ Pending \subseteq 1..Len(order)
  BY PageType
<1>2. before \subseteq Pending \ {i}
  BY <1>1 DEF Shape, TypeOK
<1>3. IsFiniteSet(Pending \ {i}) /\ Cardinality(Pending \ {i}) = Cardinality(Pending) - 1
      /\ Cardinality(Pending) \in Nat
  BY <1>1, FS_RemoveElement, FS_CardinalityType
<1>4. IsFiniteSet(before) /\ Cardinality(before) <= Cardinality(Pending \ {i})
  BY <1>2, <1>3, FS_Subset
<1>5. Cardinality(before) \in Nat
  BY <1>4, FS_CardinalityType
<1> QED
  BY <1>3, <1>4, <1>5 DEF Rank

\* The list may grow, and transfers become claimable: no place on it changes.
SameList ==
  /\ snapshot' = snapshot
  /\ order' = order \/ \E x \in Transfer : status[x] = "absent" /\ order' = Append(order, x)
  /\ \A x \in Transfer : status'[x] = "completed" <=> status[x] = "completed"

LEMMA SamePlaces ==
  ASSUME Shape, Shape', SameList
  PROVE  /\ Listed <= Listed'
         /\ \A i \in 1..Listed : order'[i] = order[i] /\ (i \in Pending <=> i \in Pending')
<1>1. Listed \in Nat /\ Listed <= Len(order) /\ Len(order) \in Nat
  BY ListedExists DEF Shape, TypeOK
<1>2. Len(order) <= Len(order') /\ Len(order') \in Nat
      /\ \A i \in 1..Len(order) : order'[i] = order[i]
  <2>1. order \in Seq(Transfer)
    BY DEF Shape, TypeOK
  <2>2. ASSUME NEW x \in Transfer, order' = Append(order, x)
        PROVE  /\ Len(order) <= Len(order') /\ Len(order') \in Nat
               /\ \A i \in 1..Len(order) : order'[i] = order[i]
    <3>1. Len(order') = Len(order) + 1 /\ \A i \in 1..Len(order) : order'[i] = order[i]
      BY <2>1, <2>2, AppendKeeps
    <3> QED
      BY <1>1, <3>1
  <2>3. CASE order' = order
    BY <1>1, <2>3
  <2> QED
    BY <2>2, <2>3 DEF SameList
<1>3. Listed <= Listed'
  BY <1>1, <1>2 DEF SameList, Listed
<1>4. Listed' \in Nat
  BY <1>1, <1>2 DEF SameList, Listed
<1>5. ASSUME NEW i \in 1..Listed
      PROVE  order'[i] = order[i] /\ (i \in Pending <=> i \in Pending')
  <2>1. i \in 1..Len(order) /\ i \in 1..Listed'
    BY <1>1, <1>3, <1>4
  <2>2. order[i] \in Transfer /\ order'[i] = order[i]
    BY <1>2, <2>1 DEF Shape, TypeOK
  <2>3. status'[order'[i]] = "completed" <=> status[order[i]] = "completed"
    BY <2>2 DEF SameList
  <2> QED
    BY <2>1, <2>2, <2>3 DEF Pending
<1> QED
  BY <1>3, <1>5

LEMMA BeyondKept ==
  ASSUME Shape, Shape', SameList, NEW x \in Transfer, NEW n \in Nat, Beyond(x, n)
  PROVE  \E i \in Pending' : order'[i] = x /\ Rank(i)' >= n
<1>1. PICK i \in Pending : order[i] = x /\ Rank(i) >= n
  BY DEF Beyond
<1>2. i \in 1..Listed /\ Listed \in Nat
  BY ListedExists DEF Pending
<1>3. i \in Pending' /\ order'[i] = x
  BY <1>1, <1>2, SamePlaces
<1>4. {j \in Pending : j < i} = {j \in Pending' : j < i}
  <2>1. ASSUME NEW j, j \in Pending \/ j \in Pending', j < i PROVE j \in 1..Listed
    <3>1. j \in 1..Listed \/ j \in 1..Listed'
      BY <2>1 DEF Pending
    <3>2. Listed' \in Nat
      BY ListedExists DEF Shape, TypeOK, Listed
    <3> QED
      BY <1>2, <2>1, <3>1, <3>2
  <2> QED
    BY <2>1, SamePlaces
<1>5. Rank(i)' = Rank(i)
  BY <1>4 DEF Rank
<1> QED
  BY <1>1, <1>3, <1>5

\* Steps that leave the loop where it is, and the list as it was.
LEMMA FoundBeside ==
  ASSUME Shape, Shape', SameList, Found, Due' \subseteq Due,
         UNCHANGED <<pc, offset, page, todo, progress>>,
         pc \in {"listen", "handle"} => inbox' = inbox
  PROVE  Found'
<1>0. Due' \subseteq Transfer
  BY DEF Due, Claimable
<1>1. DueAhead'
  <2>1. offset \in Nat
    BY DEF Shape, TypeOK
  <2>2. ASSUME pc' = "fetch", NEW x \in Due'
        PROVE \E i \in Pending' : order'[i] = x /\ Rank(i)' >= offset'
    <3>1. Beyond(x, offset) /\ x \in Transfer
      BY <1>0, <2>2 DEF Found, DueAhead
    <3> QED
      BY <2>1, <3>1, BeyondKept
  <2> QED
    BY <2>2 DEF DueAhead, Beyond
<1>2. DueOnPage'
  <2>1. offset + page \in Nat /\ Listed \in Nat /\ todo \subseteq 1..Len(order)
    BY ListedExists DEF Shape, TypeOK
  <2>2. \A i \in todo : order'[i] = order[i] /\ order[i] \in Transfer
    BY AppendKeeps DEF SameList, Shape, TypeOK
  <2>3. ASSUME pc' = "claim", NEW x \in Due'
        PROVE /\ \E i \in 1..Listed' : order'[i] = x
              /\ \/ \E i \in todo' : order'[i] = x
                 \/ /\ page' = PageSize
                    /\ \/ progress'
                       \/ NextIsDone'
                       \/ \E i \in Pending' : order'[i] = x /\ Rank(i)' >= offset' + page'
    <3>1. x \in Due /\ x \in Transfer /\ pc = "claim"
      BY <1>0, <2>3
    <3>2. PICK k \in 1..Listed : order[k] = x
      BY <3>1 DEF Found, DueOnPage
    <3>3. k \in 1..Listed' /\ order'[k] = x
      <4>1. Listed' \in Nat
        BY ListedExists DEF Shape, TypeOK, Listed
      <4> QED
        BY <2>1, <3>2, <4>1, SamePlaces
    <3>4. CASE \E i \in todo : order[i] = x
      BY <2>2, <3>3, <3>4
    <3>5. CASE page = PageSize /\ progress
      BY <3>3, <3>5
    <3>6. CASE page = PageSize /\ NextIsDone
      <4>1. NextIsDone'
        BY <2>2, <3>6 DEF NextIsDone, IsNext, SameList
      <4> QED
        BY <3>3, <3>6, <4>1
    <3>7. CASE page = PageSize /\ Beyond(x, offset + page)
      <4>1. \E i \in Pending' : order'[i] = x /\ Rank(i)' >= offset + page
        BY <2>1, <3>1, <3>7, BeyondKept
      <4> QED
        BY <3>3, <3>7, <4>1
    <3> QED
      BY <3>1, <3>4, <3>5, <3>6, <3>7 DEF Found, DueOnPage
  <2> QED
    BY <2>3 DEF DueOnPage, Beyond
<1>3. NothingDue' /\ DueIsTold'
  BY DEF Found, NothingDue, DueIsTold
<1> QED
  BY <1>1, <1>2, <1>3 DEF Found

LEMMA FoundByOthers ==
  ASSUME Shape, Shape', Found, StreamInUse, NEW y \in Transfer,
         Created(y) \/ BecomesClaimable(y) \/ OthersClaim(y)
  PROVE  Found'
<1>0. status \in [Transfer -> {"absent", "created", "claimable", "completed"}]
      /\ inbox \in Seq(Transfer) /\ order \in Seq(Transfer)
  BY DEF Shape, TypeOK
<1>1. UNCHANGED <<pc, snapshot, offset, page, todo, progress>>
  BY DEF Created, BecomesClaimable, OthersClaim, pass, locals
<1>2. CASE Created(y)
  <2>1. SameList /\ inbox' = inbox
    BY <1>0, <1>1, <1>2 DEF Created, SameList, stream
  <2>2. Due' \subseteq Due
    BY <1>0, <1>2 DEF Created, Due, Claimable
  <2> QED
    BY <1>1, <2>1, <2>2, FoundBeside
<1>3. CASE BecomesClaimable(y)
  <2>1. SameList
    BY <1>0, <1>1, <1>3 DEF BecomesClaimable, SameList
  <2>2. CASE Listening
    <3>1. pc \in {"listen", "handle"} /\ inbox' = Append(inbox, y) /\ missed' = missed
      BY <1>3, <2>2 DEF StreamInUse, Listening, BecomesClaimable
    <3>2. ASSUME NEW x \in Due' PROVE \E i \in 1..Len(inbox') : inbox'[i] = x
      <4>1. Len(inbox') = Len(inbox) + 1 /\ Len(inbox) \in Nat /\ inbox'[Len(inbox) + 1] = y
            /\ \A i \in 1..Len(inbox) : inbox'[i] = inbox[i]
        BY <1>0, <3>1, AppendKeeps
      <4>2. CASE x = y
        BY <4>1, <4>2
      <4>3. CASE x # y
        <5>1. x \in Due
          BY <1>0, <1>3, <3>1, <4>3 DEF BecomesClaimable, Due, Claimable
        <5>2. PICK i \in 1..Len(inbox) : inbox[i] = x
          BY <3>1, <5>1 DEF Found, DueIsTold
        <5> QED
          BY <4>1, <5>2
      <4> QED
        BY <4>2, <4>3
    <3> QED
      BY <1>1, <3>1, <3>2 DEF Found, DueAhead, DueOnPage, NothingDue, DueIsTold
  <2>3. CASE ~Listening
    <3>1. Due' \subseteq Due /\ inbox' = inbox
      BY <1>0, <1>3, <2>3 DEF BecomesClaimable, Due, Claimable
    <3> QED
      BY <1>1, <2>1, <3>1, FoundBeside
  <2> QED
    BY <2>2, <2>3
<1>4. CASE OthersClaim(y)
  <2>1. CASE pc \in {"fetch", "claim"}
    <3>1. Due' = {}
      BY <1>0, <1>4, <2>1 DEF OthersClaim, Due, Claimable
    <3> QED
      BY <3>1, NothingToFind
  <2>2. CASE pc \notin {"fetch", "claim"}
    <3>1. Due' \subseteq Due /\ inbox' = inbox
      BY <1>0, <1>4, <2>2 DEF OthersClaim, Due, Claimable, stream
    <3> QED
      BY <1>1, <2>2, <3>1 DEF Found, DueAhead, DueOnPage, NothingDue, DueIsTold
  <2> QED
    BY <2>1, <2>2
<1> QED
  BY <1>2, <1>3, <1>4

\* A pass starts with the whole list before it.
LEMMA FoundAtStart == ASSUME Shape, Shape', EachHasPlace, PassStart PROVE Found'
<1>1. pc' = "fetch" /\ offset' = 0 /\ status' = status /\ order' = order
      /\ snapshot' \in {Len(order), NoSnapshot}
  BY DEF PassStart, Goto, Locals, server, claimVars
<1>2. ASSUME NEW x \in Due' PROVE \E i \in Pending' : order'[i] = x /\ Rank(i)' >= offset'
  <2>1. x \in Transfer /\ status[x] = "claimable"
    BY <1>1, <1>2 DEF Due, Claimable
  <2>2. PICK i \in 1..Len(order) : order[i] = x
    BY <2>1 DEF EachHasPlace
  <2>3. Listed' = Len(order)
    BY <1>1 DEF Listed
  <2>4. i \in Pending'
    BY <1>1, <2>1, <2>2, <2>3 DEF Pending
  <2>5. Rank(i)' \in Nat
    <3>1. Pending' \subseteq 1..Len(order) /\ Len(order) \in Nat
      BY <2>3 DEF Pending, Shape, TypeOK
    <3>2. {j \in Pending' : j < i} \subseteq 1..Len(order)
      BY <3>1
    <3>3. IsFiniteSet(1..Len(order))
      BY <3>1, FS_Interval
    <3>4. Cardinality({j \in Pending' : j < i}) \in Nat
      BY <3>2, <3>3, FS_Subset, FS_CardinalityType
    <3> QED
      BY <3>4 DEF Rank
  <2> QED
    BY <1>1, <2>2, <2>4, <2>5
<1> QED
  BY <1>1, <1>2 DEF Found, DueAhead, DueOnPage, NothingDue, DueIsTold, Beyond

\* What is due is claimed from the page, or comes after a full one.
LEMMA FoundOnPage == ASSUME Shape, Found, FetchPage PROVE Found'
<1>1. /\ pc = "fetch" /\ pc' = "claim" /\ status' = status /\ order' = order /\ missed' = missed
      /\ snapshot' = snapshot /\ offset' = offset /\ page' = PageLength
      /\ todo' = {i \in Pending : /\ Rank(i) \in offset..(offset + PageSize - 1)
                                  /\ status[order[i]] = "claimable"
                                  /\ ~(filtered /\ Kind[order[i]] = "counterSwap")}
  BY DEF FetchPage, Goto, server, claimVars
<1>2. Due' = Due /\ Listed' = Listed /\ Pending' = Pending
  BY <1>1 DEF Due, Claimable, Listed, Pending
<1>3. ASSUME NEW i PROVE Rank(i)' = Rank(i)
  BY <1>2 DEF Rank
<1>4. offset \in Nat /\ PageSize \in Nat \ {0}
  BY EventStreamAssumption DEF EventStreamAssumption, Shape, TypeOK
<1>5. ASSUME NEW x \in Due
      PROVE  /\ \E i \in 1..Listed : order[i] = x
             /\ \/ \E i \in todo' : order[i] = x
                \/ page' = PageSize /\ \E i \in Pending : order[i] = x /\ Rank(i) >= offset + page'
  <2>1. PICK i \in Pending : order[i] = x /\ Rank(i) >= offset
    BY <1>1 DEF Found, DueAhead, Beyond
  <2>2. Rank(i) \in Nat /\ Cardinality(Pending) \in Nat /\ Rank(i) < Cardinality(Pending)
    BY RankType
  <2>3. i \in 1..Listed
    BY DEF Pending
  <2>4. CASE Rank(i) < offset + PageSize
    <3>1. status[x] = "claimable" /\ Kind[x] = "transfer"
      BY DEF Due, Claimable
    <3>2. Rank(i) \in offset..(offset + PageSize - 1)
      BY <1>4, <2>1, <2>2, <2>4
    <3>3. i \in todo'
      BY <1>1, <2>1, <3>1, <3>2
    <3> QED
      BY <2>1, <2>3, <3>3
  <2>5. CASE ~(Rank(i) < offset + PageSize)
    <3>1. PageLength = PageSize
      BY <1>4, <2>2, <2>5 DEF PageLength
    <3> QED
      BY <1>1, <1>4, <2>1, <2>2, <2>3, <2>5, <3>1
  <2> QED
    BY <2>4, <2>5
<1>6. DueOnPage'
  <2>1. ASSUME NEW x \in Due'
        PROVE /\ \E i \in 1..Listed' : order'[i] = x
              /\ \/ \E i \in todo' : order'[i] = x
                 \/ /\ page' = PageSize
                    /\ \E i \in Pending' : order'[i] = x /\ Rank(i)' >= offset' + page'
    BY <1>1, <1>2, <1>3, <1>5
  <2> QED
    BY <2>1 DEF DueOnPage, Beyond
<1> QED
  BY <1>1, <1>6 DEF Found, DueAhead, NothingDue, DueIsTold

\* A claim that returns, is tried again or is given up.
LEMMA FoundAfterClaim ==
  ASSUME Shape, Shape', Found, NEW i \in todo,
         ClaimNext(i) \/ ClaimNextRetries(i) \/ ClaimNextFails(i)
  PROVE  Found'
<1>0. status \in [Transfer -> {"absent", "created", "claimable", "completed"}]
      /\ todo \subseteq 1..Len(order) /\ order[i] \in Transfer
  BY DEF Shape, TypeOK
<1>1. /\ pc = "claim" /\ pc' = "claim" /\ order' = order /\ snapshot' = snapshot
      /\ offset' = offset /\ page' = page /\ IsNext(i) /\ ClaimUnderWay(order[i])
  BY DEF ClaimNext, ClaimNextRetries, ClaimNextFails, ClaimUnderWay, pass, locals
<1>2. /\ Listed' = Listed
      /\ \A j \in todo : IsNext(j) => j = i
  BY <1>0, <1>1 DEF Listed, IsNext
<1>3. \/ status' = status
      \/ status[order[i]] = "claimable" /\ status' = [status EXCEPT ![order[i]] = "completed"]
  BY <1>0, <1>1, ClaimEffect
<1>4. /\ \A x \in Due : \E j \in 1..Listed : order[j] = x
      /\ \A x \in Due : \/ \E j \in todo : order[j] = x
                        \/ page = PageSize /\ (progress \/ NextIsDone \/ Beyond(x, offset + page))
  BY <1>1 DEF Found, DueOnPage
\* What suffices, the list and the claims being as they are.
<1>5. ASSUME Due' \subseteq Due,
             \A x \in Due' : \/ \E j \in todo' : order[j] = x
                             \/ page = PageSize /\ (progress' \/ NextIsDone')
                             \/ page = PageSize /\ status' = status /\ Beyond(x, offset + page)
      PROVE  Found'
  <2>1. ASSUME NEW x, status' = status, Beyond(x, offset + page) PROVE Beyond(x, offset + page)'
    <3>1. Pending' = Pending
      BY <1>1, <1>2, <2>1 DEF Pending
    <3> QED
      BY <1>1, <2>1, <3>1 DEF Beyond, Rank
  <2>2. DueOnPage'
    BY <1>1, <1>2, <1>4, <1>5, <2>1 DEF DueOnPage
  <2> QED
    BY <1>1, <2>2 DEF Found, DueAhead, NothingDue, DueIsTold
<1>6. CASE ClaimNext(i)
  <2>1. /\ progress' = TRUE /\ todo' = todo \ {i} /\ missed' = missed
        /\ status'[order[i]] = "completed"
    BY <1>0, <1>1, <1>6, ClaimEffect DEF ClaimNext
  <2>2. Due' \subseteq Due /\ order[i] \notin Due'
    BY <1>0, <1>3, <2>1 DEF Due, Claimable
  <2>3. ASSUME NEW x \in Due'
        PROVE \/ \E j \in todo' : order[j] = x
              \/ page = PageSize /\ progress'
    BY <1>4, <2>1, <2>2
  <2> QED
    BY <1>5, <2>2, <2>3
<1>7. CASE ClaimNextRetries(i)
  <2>1. progress' = progress /\ todo' = todo /\ missed' = missed
    BY <1>7 DEF ClaimNextRetries, pass, locals
  <2>2. Due' \subseteq Due
    BY <1>0, <1>3, <2>1 DEF Due, Claimable
  <2>3. CASE status' = status
    <3>1. NextIsDone' <=> NextIsDone
      BY <1>1, <2>1, <2>3 DEF NextIsDone, IsNext
    <3> QED
      BY <1>4, <1>5, <2>1, <2>2, <2>3, <3>1
  <2>4. CASE status' = [status EXCEPT ![order[i]] = "completed"]
    <3>1. NextIsDone'
      BY <1>0, <1>1, <2>1, <2>4 DEF NextIsDone, IsNext
    <3> QED
      BY <1>4, <1>5, <2>1, <2>2, <3>1
  <2> QED
    BY <1>3, <2>3, <2>4
<1>8. CASE ClaimNextFails(i)
  <2>1. /\ progress' = progress /\ todo' = todo \ {i}
        /\ missed' = missed \cup (IF status'[order[i]] = "completed" THEN Claimable ELSE {order[i]})
    BY <1>8 DEF ClaimNextFails
  <2>2. CASE status'[order[i]] = "completed"
    <3>1. Due' = {}
      BY <1>0, <1>3, <2>1, <2>2 DEF Due, Claimable
    <3> QED
      BY <3>1, NothingToFind
  <2>3. CASE status'[order[i]] # "completed"
    <3>1. status' = status
      BY <1>0, <1>3, <2>3
    <3>2. Due' \subseteq Due /\ order[i] \notin Due'
      BY <2>1, <2>3, <3>1 DEF Due, Claimable
    <3>3. ~NextIsDone
      BY <1>2, <2>3, <3>1 DEF NextIsDone
    <3> QED
      BY <1>4, <1>5, <2>1, <3>1, <3>2, <3>3
  <2> QED
    BY <2>2, <2>3
<1> QED
  BY <1>6, <1>7, <1>8

\* After progress the first page is read again, after none the next.
LEMMA FoundOnNextPage == ASSUME Shape, Shape', Found, NextPage PROVE Found'
<1>1. /\ pc = "claim" /\ pc' = "fetch" /\ todo = {} /\ status' = status /\ order' = order
      /\ missed' = missed /\ snapshot' = snapshot
      /\ offset' = IF progress THEN 0 ELSE offset + page
  BY DEF NextPage, Goto, server, claimVars
<1>2. Due' = Due /\ Listed' = Listed /\ Pending' = Pending
  BY <1>1 DEF Due, Claimable, Listed, Pending
<1>3. ASSUME NEW i PROVE Rank(i)' = Rank(i)
  BY <1>2 DEF Rank
<1>4. ASSUME NEW x \in Due PROVE \E i \in Pending : order[i] = x /\ Rank(i) >= offset'
  <2>1. PICK i \in 1..Listed : order[i] = x
    BY <1>1 DEF Found, DueOnPage
  <2>2. i \in Pending
    BY <2>1 DEF Due, Claimable, Pending
  <2>3. CASE progress
    BY <1>1, <2>1, <2>2, <2>3, RankType
  <2>4. CASE ~progress
    <3>1. Beyond(x, offset + page)
      BY <1>1, <2>4 DEF Found, DueOnPage, NextIsDone
    <3> QED
      BY <1>1, <2>4, <3>1 DEF Beyond
  <2> QED
    BY <2>3, <2>4
<1>5. DueAhead'
  <2>1. ASSUME NEW x \in Due' PROVE \E i \in Pending' : order'[i] = x /\ Rank(i)' >= offset'
    BY <1>1, <1>2, <1>3, <1>4
  <2> QED
    BY <2>1 DEF DueAhead, Beyond
<1> QED
  BY <1>1, <1>5 DEF Found, DueOnPage, NothingDue, DueIsTold

\* The last page is short, and all of it was claimed; or what came after it is missed.
LEMMA FoundAtEnd == ASSUME Shape, Found, PassEnds PROVE Found'
<1>1. /\ pc = "claim" /\ todo = {} /\ status' = status
      /\ missed' = IF page < PageSize THEN missed ELSE missed \cup Claimable
  BY DEF PassEnds, server, claimVars
<1>2. page < PageSize => Due = {}
  BY <1>1, EventStreamAssumption DEF EventStreamAssumption, Found, DueOnPage, Shape, TypeOK
<1>3. Due' = {}
  BY <1>1, <1>2 DEF Due, Claimable
<1> QED
  BY <1>3, NothingToFind

\* An event handled has its transfer claimed, or claimed already, or missed.
LEMMA FoundAfterEvent ==
  ASSUME Shape, Shape', Found, ClaimedIsDone, HandleEvent \/ HandleEventFails
  PROVE  Found'
<1> DEFINE y == Head(inbox)
<1>1. /\ pc = "handle" /\ pc' = "listen" /\ inbox' = Tail(inbox)
      /\ inbox \in Seq(Transfer) /\ inbox # <<>>
  BY DEF HandleEvent, HandleEventFails, HandleEventReturns, Goto, Shape, TypeOK
<1>2. /\ y \in Transfer /\ inbox[1] = y
      /\ Len(Tail(inbox)) = Len(inbox) - 1 /\ Len(inbox) \in Nat \ {0}
      /\ \A i \in 1..(Len(inbox) - 1) : Tail(inbox)[i] = inbox[i + 1]
  BY <1>1
<1>0. status \in [Transfer -> {"absent", "created", "claimable", "completed"}]
  BY DEF Shape, TypeOK
<1> HIDE DEF y
<1>3. UNCHANGED claimVars \/ ClaimUnderWay(y)
  BY DEF y, HandleEvent, HandleEventFails, ClaimUnderWay
<1>4. StatusKept
  BY <1>2, <1>3, ClaimKeepsStatus DEF StatusKept, claimVars
<1>5. Due' \subseteq Due
  <2>1. missed \subseteq missed'
    BY DEF HandleEvent, HandleEventFails
  <2> QED
    BY <1>4, <2>1 DEF StatusKept, Due, Claimable
<1>6. y \notin Due'
  <2>1. CASE HandleEvent
    <3>1. CASE ToClaim(y)
      <4>1. ClaimReturns(y)
        BY <2>1, <3>1 DEF HandleEvent, y
      <4>2. status'[y] = "completed"
        BY <1>2, <4>1, ClaimEffect DEF ClaimUnderWay
      <4> QED
        BY <4>2 DEF Due, Claimable
    <3>2. CASE ~ToClaim(y)
      <4>1. Kind[y] # "transfer" \/ status[y] = "completed"
        BY <3>2 DEF ToClaim, ClaimedIsDone
      <4> QED
        BY <1>2, <1>4, <4>1 DEF StatusKept, Due, Claimable
    <3> QED
      BY <3>1, <3>2
  <2>2. CASE HandleEventFails
    <3>1. missed' = missed \cup ({y} \cap Claimable)
      BY <2>2 DEF HandleEventFails, y
    <3> QED
      BY <1>2, <1>4, <3>1 DEF StatusKept, Due, Claimable
  <2> QED
    BY <2>1, <2>2
<1>7. ASSUME NEW x \in Due' PROVE \E i \in 1..Len(inbox') : inbox'[i] = x
  <2>1. PICK i \in 1..Len(inbox) : inbox[i] = x
    BY <1>1, <1>5 DEF Found, DueIsTold
  <2>2. i # 1
    BY <1>2, <1>6, <2>1
  <2>3. i - 1 \in 1..(Len(inbox) - 1)
    BY <1>2, <2>1, <2>2
  <2>4. Tail(inbox)[i - 1] = inbox[(i - 1) + 1] /\ (i - 1) + 1 = i
    BY <1>2, <2>3
  <2> QED
    BY <1>1, <1>2, <2>1, <2>3, <2>4
<1> QED
  BY <1>1, <1>7 DEF Found, DueAhead, DueOnPage, NothingDue, DueIsTold

LEMMA FoundStep ==
  Shape /\ Shape' /\ StreamInUse /\ EachHasPlace /\ ClaimedIsDone /\ Found /\ [Next]_vars => Found'
<1> SUFFICES ASSUME Shape, Shape', StreamInUse, EachHasPlace, ClaimedIsDone, Found, [Next]_vars
             PROVE  Found'
  OBVIOUS
<1> USE DEF Goto
<1>1. ASSUME NEW x \in Transfer, Created(x) \/ BecomesClaimable(x) \/ OthersClaim(x) PROVE Found'
  BY <1>1, FoundByOthers
<1>2. CASE UNCHANGED <<server, pc, pass, inbox, missed>>
  <2>1. SameList
    BY <1>2 DEF SameList, server, claimVars, pass, locals
  <2>2. Due' = Due
    BY <1>2 DEF Due, Claimable, server, claimVars
  <2> QED
    BY <1>2, <2>1, <2>2, FoundBeside DEF pass, locals
<1>3. CASE Heartbeat \/ StreamFails \/ cleanup \/ UNCHANGED vars
  BY <1>2, <1>3 DEF Heartbeat, StreamFails, cleanup, vars, stream
<1>4. CASE PassStart
  BY <1>4, FoundAtStart
<1>5. CASE FetchPage
  BY <1>5, FoundOnPage
<1>6. ASSUME NEW i \in todo, ClaimNext(i) \/ ClaimNextRetries(i) \/ ClaimNextFails(i) PROVE Found'
  BY <1>6, FoundAfterClaim
<1>7. CASE NextPage
  BY <1>7, FoundOnNextPage
<1>8. CASE PassEnds
  BY <1>8, FoundAtEnd
<1>9. CASE Tick \/ PeriodicEnds \/ Subscribe \/ Delayed
  BY <1>9, NobodyLooks DEF Tick, PeriodicEnds, Subscribe, Delayed
<1>10. CASE Connects
  <2>1. pc = "tokens" /\ status' = status /\ missed' = missed
    BY <1>10 DEF Connects, server, claimVars
  <2>2. Due' = {}
    BY <2>1 DEF Found, NothingDue, Due, Claimable
  <2> QED
    BY <2>2, NothingToFind
<1>11. CASE AttemptFails \/ IteratorEnds \/ HeartbeatTimeout
  <2>1. missed' = missed \cup Claimable /\ status' = status
    BY <1>11 DEF AttemptFails, IteratorEnds, HeartbeatTimeout, EndAttempt, server, claimVars
  <2>2. Due' = {}
    BY <2>1 DEF Due, Claimable
  <2> QED
    BY <2>2, NothingToFind
<1>12. CASE Deliver
  <2>1. pc = "listen" /\ pc' = "handle" /\ inbox' = inbox /\ status' = status /\ missed' = missed
    BY <1>12 DEF Deliver, server, claimVars
  <2> QED
    BY <2>1 DEF Found, DueAhead, DueOnPage, NothingDue, DueIsTold, Due, Claimable
<1>13. CASE HandleEvent \/ HandleEventFails
  BY <1>13, FoundAfterEvent
<1>14. CASE HandleEventRetries
  <2>1. /\ pc = "handle" /\ pc' = "handle" /\ inbox' = inbox /\ missed' = missed
        /\ Head(inbox) \in Transfer /\ ClaimUnderWay(Head(inbox))
    BY <1>14 DEF HandleEventRetries, ClaimUnderWay, stream, Shape, TypeOK
  <2>2. Due' \subseteq Due
    BY <2>1, ClaimKeepsStatus DEF StatusKept, Due, Claimable
  <2> QED
    BY <2>1, <2>2 DEF Found, DueAhead, DueOnPage, NothingDue, DueIsTold
<1> QED
  BY <1>1, <1>3, <1>4, <1>5, <1>6, <1>7, <1>8, <1>9, <1>10, <1>11, <1>12, <1>13, <1>14
     DEF Next, Loop

\* The inductive invariant.
Reading == Shape /\ StreamInUse /\ EachHasPlace /\ ClaimedIsDone /\ Found

\* However a list shrinks and grows while its pages are read, whatever fails,
\* ends or is tried again, and whatever others claim: a wallet that listens
\* with no event left, or rests, has claimed every transfer that is not in
\* missed, for any page size and any number of transfers.
THEOREM NoTransferIsLeftOut == Spec => []NothingSlipsThrough
<1>1. Init => Reading
  <2>1. ASSUME Init PROVE Found /\ StreamInUse /\ EachHasPlace /\ ClaimedIsDone
    <3>1. Due = {}
      BY <2>1 DEF Init, ClaimInit, Due, Claimable
    <3> QED
      BY <2>1, <3>1 DEF Init, ClaimInit, Found, DueAhead, DueOnPage, NothingDue, DueIsTold,
                        StreamInUse, EachHasPlace, ClaimedIsDone
  <2> QED
    BY <2>1, ShapeInit DEF Reading
<1>2. Reading /\ [Next]_vars => Reading'
  BY ShapeStep, StreamInUseStep, EachHasPlaceStep, ClaimedIsDoneStep, FoundStep DEF Reading
<1>3. Reading => NothingSlipsThrough
  <2> SUFFICES ASSUME Reading, AtRest, NEW x \in Claimable \ missed PROVE Kind[x] # "transfer"
    BY DEF NothingSlipsThrough
  <2>1. Due = {}
    BY DEF Reading, Found, NothingDue, DueIsTold, AtRest
  <2> QED
    BY <2>1 DEF Due
<1> QED
  BY <1>1, <1>2, <1>3, PTL DEF Spec

=============================================================================
