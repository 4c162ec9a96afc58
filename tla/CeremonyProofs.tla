--------------------------- MODULE CeremonyProofs ---------------------------
(***************************************************************************)
(* Theorems of Ceremony, for any commands, participants, nonces, keys and  *)
(* threshold, any number of commands that run at a time, and any prime P:  *)
(* the shares of the participants add up because what invertScalar and     *)
(* lagrangeCoefficientAtZero compute is Lagrange's interpolation in the    *)
(* field of the integers modulo P.                                         *)
(***************************************************************************)
EXTENDS Ceremony, FiniteSetTheorems, TLAPS

\* A proposal is the record the commands write; what its key and its signature
\* are, the state of the files does not depend on.
IsProposal(q) ==
  q = [by |-> q.by, key |-> q.key, signers |-> q.signers, status |-> q.status, z |-> q.z,
       claim |-> q.claim, result |-> q.result]

\* What is known of a proposal that has been in the file, given where the
\* commands are and who has signed what.
Proper(q, at, sg) ==
  /\ IsProposal(q)
  /\ q.by \in Proposer /\ at[q.by] = "over"
  /\ q.signers \in Seq(Signer)
  /\ q.status \in {"collecting", "aggregated"}
  /\ q.result \in BOOLEAN
  /\ \A i, j \in 1..Len(q.signers) : IndexOf[q.signers[i]] = IndexOf[q.signers[j]] => i = j
  /\ \A i \in 1..Len(q.signers) :
       at[q.signers[i]] = "over" /\ <<q.by, IndexOf[q.signers[i]]>> \in sg
  /\ q.status = "aggregated" => Len(q.signers) >= Threshold

Fresh(c, k) == [NoFile EXCEPT !.by = c, !.key = k, !.status = "collecting"]

Executing == {"claim", "recordClaim", "pay", "recordResult"}

\* Where a command may be, and what it holds there.
Right(c, place, h, at, sg) ==
  /\ place \in {"idle", "write", "over"} \cup Executing
  /\ place = "write" => c \notin Executor
  /\ place \in Executing => c \in Executor
  /\ c \in Proposer /\ place = "write" => \E k : h = Fresh(c, k)
  /\ c \in Signer /\ place = "write" => Proper(h, at, sg) /\ MaySign(c, h)
  /\ place \in Executing =>
       Proper(h, at, sg) /\ h.status = "aggregated" /\ (place = "pay" => ~h.result)

Control ==
  /\ pc = [c \in Command |-> pc[c]] /\ held = [c \in Command |-> held[c]]
  /\ \A c \in Command : Right(c, pc[c], held[c], pc, signed)

InFile == file = NoFile \/ Proper(file, pc, signed)

SignersOf(v, sg) == {x \in sg : x[1] = v}
Paid ==
  /\ payments \in [Proposer -> Nat]
  /\ \A v \in Proposer : payments[v] > 0 =>
       pc[v] = "over" /\ Cardinality(SignersOf(v, signed)) >= Threshold

Signatures == SUBSET (Proposer \X (1..(P - 1)))

(***************************************************************************)
(* The inductive invariant: whatever the order of the commands, a proposal *)
(* that any of them holds was signed by the signers it names, each another *)
(* participant, and one that is aggregated has enough of them.             *)
(***************************************************************************)
Files == signed \in Signatures /\ Control /\ InFile /\ Paid

\* What EXCEPT makes of a proposal, field by field.
LEMMA WithSigners ==
  ASSUME NEW q, IsProposal(q), NEW signers
  PROVE  [q EXCEPT !.signers = signers]
           = [by |-> q.by, key |-> q.key, signers |-> signers, status |-> q.status, z |-> q.z,
              claim |-> q.claim, result |-> q.result]
BY DEF IsProposal

LEMMA WithStatusAndZ ==
  ASSUME NEW q, IsProposal(q), NEW status, NEW z
  PROVE  [q EXCEPT !.status = status, !.z = z]
           = [by |-> q.by, key |-> q.key, signers |-> q.signers, status |-> status, z |-> z,
              claim |-> q.claim, result |-> q.result]
<1> DEFINE r == [q EXCEPT !.status = status]
<1>1. r = [by |-> q.by, key |-> q.key, signers |-> q.signers, status |-> status, z |-> q.z,
           claim |-> q.claim, result |-> q.result]
  BY DEF IsProposal
<1>2. [q EXCEPT !.status = status, !.z = z] = [r EXCEPT !.z = z]
  OBVIOUS
<1> HIDE DEF r
<1>3. [r EXCEPT !.z = z]
        = [by |-> r.by, key |-> r.key, signers |-> r.signers, status |-> r.status, z |-> z,
           claim |-> r.claim, result |-> r.result]
  BY <1>1
<1> QED
  BY <1>1, <1>2, <1>3

LEMMA FreshRecord ==
  ASSUME NEW c, NEW k
  PROVE  Fresh(c, k) = [by |-> c, key |-> k, signers |-> <<>>, status |-> "collecting", z |-> 0,
                        claim |-> FALSE, result |-> FALSE]
<1> DEFINE r == [NoFile EXCEPT !.by = c]
           s == [r EXCEPT !.key = k]
<1>0. \A q : IsProposal(q) =>
        /\ [q EXCEPT !.by = c]
             = [by |-> c, key |-> q.key, signers |-> q.signers, status |-> q.status, z |-> q.z,
                claim |-> q.claim, result |-> q.result]
        /\ [q EXCEPT !.key = k]
             = [by |-> q.by, key |-> k, signers |-> q.signers, status |-> q.status, z |-> q.z,
                claim |-> q.claim, result |-> q.result]
        /\ [q EXCEPT !.status = "collecting"]
             = [by |-> q.by, key |-> q.key, signers |-> q.signers, status |-> "collecting",
                z |-> q.z, claim |-> q.claim, result |-> q.result]
  BY DEF IsProposal
<1>1. /\ IsProposal(NoFile) /\ NoFile.signers = <<>> /\ NoFile.z = 0
      /\ NoFile.claim = FALSE /\ NoFile.result = FALSE
  BY DEF NoFile, IsProposal
<1>2. /\ IsProposal(r) /\ r.by = c /\ r.signers = <<>> /\ r.z = 0
      /\ r.claim = FALSE /\ r.result = FALSE
  BY <1>0, <1>1 DEF IsProposal
<1>3. Fresh(c, k) = [s EXCEPT !.status = "collecting"]
  BY DEF Fresh
<1> HIDE DEF r
<1>4. /\ IsProposal(s) /\ s.by = c /\ s.key = k /\ s.signers = <<>> /\ s.z = 0
      /\ s.claim = FALSE /\ s.result = FALSE
  BY <1>0, <1>2 DEF IsProposal
<1> HIDE DEF s
<1> QED
  BY <1>0, <1>3, <1>4

\* A step moves one command, at most, and takes back no signature.
Onward == signed \subseteq signed' /\ \A c \in Command : pc[c] = "over" => pc'[c] = "over"

\* What is known of a proposal stays known.
LEMMA ProperStays ==
  ASSUME Onward
  PROVE  \A q : Proper(q, pc, signed) => Proper(q, pc', signed')
<1> SUFFICES ASSUME NEW q, Proper(q, pc, signed) PROVE Proper(q, pc', signed')
  OBVIOUS
<1>1. \A i \in 1..Len(q.signers) : q.signers[i] \in Command
  BY DEF Proper, Command
<1>2. q.by \in Command
  BY DEF Proper, Command
<1> QED
  BY <1>1, <1>2 DEF Proper, Onward

\* The commands that do not move stay in the right.
LEMMA Moves ==
  ASSUME Control, signed \subseteq signed', NEW c \in Command, pc[c] # "over",
         NEW there, Goto(c, there),
         NEW h, held' = [held EXCEPT ![c] = h],
         Right(c, there, h, pc', signed')
  PROVE  Control' /\ Onward
<1>1. /\ pc' = [d \in Command |-> pc'[d]] /\ pc'[c] = there
      /\ \A d \in Command \ {c} : pc'[d] = pc[d]
  BY DEF Control, Goto
<1>2. /\ held' = [d \in Command |-> held'[d]] /\ held'[c] = h
      /\ \A d \in Command \ {c} : held'[d] = held[d]
  BY DEF Control
<1>3. Onward
  BY <1>1 DEF Onward
<1>4. ASSUME NEW d \in Command, d # c PROVE Right(d, pc'[d], held'[d], pc', signed')
  <2>1. Right(d, pc[d], held[d], pc, signed) /\ pc'[d] = pc[d] /\ held'[d] = held[d]
    BY <1>1, <1>2, <1>4 DEF Control
  <2> QED
    BY <1>3, <2>1, ProperStays DEF Right
<1> QED
  BY <1>1, <1>2, <1>3, <1>4 DEF Control

\* A command that ends is in the right, whatever it held.
LEMMA EndsRight ==
  ASSUME Control, signed \subseteq signed', NEW c \in Command, pc[c] # "over", Ends(c)
  PROVE  Control' /\ Onward
<1>1. Right(c, "over", NoFile, pc', signed')
  BY DEF Right, Executing
<1> QED
  BY <1>1, Moves DEF Ends

\* So does one that moves with what it held.
LEMMA Stays ==
  ASSUME Control, UNCHANGED <<held, signed>>, NEW c \in Command, pc[c] # "over",
         NEW there, Goto(c, there), Right(c, there, held[c], pc', signed')
  PROVE  Control' /\ Onward
<1>1. held' = [held EXCEPT ![c] = held[c]]
  BY DEF Control
<1> QED
  BY <1>1, Moves

\* The signers of a proposal are finitely many.
LEMMA SignersFinite ==
  ASSUME NEW v \in Proposer, NEW sg \in Signatures
  PROVE  IsFiniteSet(SignersOf(v, sg))
<1>0. 1 \in Int /\ P - 1 \in Int
  BY ThresholdScalarsAssumption
<1>1. IsFiniteSet({v}) /\ IsFiniteSet(1..(P - 1))
  BY <1>0, FS_Singleton, FS_Interval
<1>2. IsFiniteSet({v} \X (1..(P - 1)))
  BY <1>1, FS_Product
<1>3. SignersOf(v, sg) \in SUBSET ({v} \X (1..(P - 1)))
  BY DEF SignersOf, Signatures
<1> QED
  BY <1>2, <1>3, FS_Subset

\* More signatures authorize what fewer did.
LEMMA PaidStays ==
  ASSUME Paid, signed' \in Signatures, Onward, UNCHANGED payments
  PROVE  Paid'
<1> SUFFICES ASSUME NEW v \in Proposer, payments[v] > 0
             PROVE  pc'[v] = "over" /\ Cardinality(SignersOf(v, signed')) >= Threshold
  BY DEF Paid
<1>1. pc[v] = "over" /\ Cardinality(SignersOf(v, signed)) >= Threshold
  BY DEF Paid
<1>2. SignersOf(v, signed) \in SUBSET SignersOf(v, signed')
  BY DEF SignersOf, Onward
<1>3. Cardinality(SignersOf(v, signed)) <= Cardinality(SignersOf(v, signed'))
  BY <1>2, SignersFinite, FS_Subset
<1>4. /\ Cardinality(SignersOf(v, signed)) \in Nat
      /\ Cardinality(SignersOf(v, signed')) \in Nat
  BY <1>2, SignersFinite, FS_CardinalityType, FS_Subset
<1>5. Threshold \in Nat
  BY CeremonyAssumption
<1> QED
  BY <1>1, <1>3, <1>4, <1>5 DEF Onward, Command

\* Enough signers of an aggregated proposal authorize it.
LEMMA Authorized ==
  ASSUME signed \in Signatures, NEW q, Proper(q, pc, signed), q.status = "aggregated"
  PROVE  Cardinality(SignersOf(q.by, signed)) >= Threshold
<1> DEFINE n == Len(q.signers)
           S == SignersOf(q.by, signed)
           f == [i \in 1..n |-> <<q.by, IndexOf[q.signers[i]]>>]
<1>1. q.by \in Proposer /\ q.signers \in Seq(Signer) /\ n \in Nat /\ n >= Threshold
  BY DEF Proper
<1>2. IsFiniteSet(S) /\ Cardinality(S) \in Nat
  BY <1>1, SignersFinite, FS_CardinalityType
<1>3. f \in Injection(1..n, S)
  <2>1. \A i \in 1..n : f[i] \in S
    BY DEF Proper, SignersOf
  <2>2. \A i, j \in 1..n : f[i] = f[j] => i = j
    BY DEF Proper
  <2> QED
    BY <2>1, <2>2 DEF Injection, IsInjective
<1>4. Cardinality(1..n) = n
  BY <1>1, FS_Interval
<1>5. n <= Cardinality(S)
  BY <1>2, <1>3, <1>4, FS_Injection
<1>6. Threshold \in Nat
  BY CeremonyAssumption
<1> QED
  BY <1>1, <1>2, <1>5, <1>6

\* A move of a command that is not over takes nothing back.
LEMMA GotoOnward ==
  ASSUME Control, signed \subseteq signed', NEW c \in Command, pc[c] # "over",
         NEW there, Goto(c, there)
  PROVE  Onward /\ pc'[c] = there
BY DEF Control, Goto, Onward

\* No payment and no new file: the rest stays.
LEMMA FilesStay ==
  ASSUME Files, Control', Onward, signed' \in Signatures, UNCHANGED payments,
         file' \in {file, NoFile} \/ Proper(file', pc', signed')
  PROVE  Files'
<1>1. InFile'
  BY ProperStays DEF Files, InFile
<1>2. Paid'
  BY PaidStays DEF Files
<1> QED
  BY <1>1, <1>2 DEF Files

\* The steps of a proposal.
LEMMA ProposeFiles ==
  ASSUME Files, NEW c \in Command, ProposeStart(c) \/ ProposeWrite(c)
  PROVE  Files'
<1>0. Control /\ signed \in Signatures
  BY DEF Files
<1>1. CASE ProposeStart(c)
  <2>1. /\ c \in Proposer /\ pc[c] = "idle" /\ Goto(c, "write")
        /\ UNCHANGED <<file, payments, signed>>
    BY <1>1 DEF ProposeStart, Starts, outside, ghosts
  <2>2. held' = [held EXCEPT ![c] = Fresh(c, key)]
    BY <1>1 DEF ProposeStart, Fresh
  <2>3. Right(c, "write", Fresh(c, key), pc', signed')
    BY <2>1, CeremonyAssumption DEF Right, Executing
  <2>4. Control' /\ Onward
    BY <1>0, <2>1, <2>2, <2>3, Moves
  <2> QED
    BY <1>0, <2>1, <2>4, FilesStay
<1>2. CASE ProposeWrite(c)
  <2>1. /\ c \in Proposer /\ pc[c] = "write" /\ Ends(c) /\ file' = held[c]
        /\ UNCHANGED <<payments, signed>>
    BY <1>2 DEF ProposeWrite, outside, ghosts
  <2>2. Control' /\ Onward /\ pc'[c] = "over"
    BY <1>0, <2>1, EndsRight, GotoOnward DEF Ends
  <2>3. PICK k : file' = Fresh(c, k)
    BY <1>0, <2>1 DEF Control, Right
  <2>4. Fresh(c, k) = [by |-> c, key |-> k, signers |-> <<>>, status |-> "collecting", z |-> 0,
                       claim |-> FALSE, result |-> FALSE]
    BY FreshRecord
  <2>5. Proper(Fresh(c, k), pc', signed')
    BY <2>1, <2>2, <2>4 DEF Proper, IsProposal
  <2> QED
    BY <1>0, <2>1, <2>2, <2>3, <2>5, FilesStay
<1> QED
  BY <1>1, <1>2

\* The share of a signer who may sign is that of another participant.
LEMMA ShareIsAnother ==
  ASSUME Control, NEW c \in Signer, pc[c] = "write"
  PROVE  LET q == held[c]
             w == WithShare(c)
             n == Len(held[c].signers)
         IN /\ Proper(q, pc, signed) /\ MaySign(c, q) /\ n \in Nat
            /\ w = [by |-> q.by, key |-> q.key, signers |-> Append(q.signers, c),
                    status |-> q.status, z |-> q.z, claim |-> q.claim, result |-> q.result]
            /\ w.signers \in Seq(Signer) /\ Len(w.signers) = n + 1
            /\ w.signers[n + 1] = c /\ \A i \in 1..n : w.signers[i] = q.signers[i]
            /\ \A i, j \in 1..(n + 1) : IndexOf[w.signers[i]] = IndexOf[w.signers[j]] => i = j
<1> DEFINE q == held[c]
           w == WithShare(c)
           n == Len(q.signers)
<1>1. Proper(q, pc, signed) /\ MaySign(c, q)
  BY DEF Control, Right, Command
<1>3. q.signers \in Seq(Signer) /\ n \in Nat
  BY <1>1 DEF Proper
<1>4. w = [by |-> q.by, key |-> q.key, signers |-> Append(q.signers, c), status |-> q.status,
           z |-> q.z, claim |-> q.claim, result |-> q.result]
  BY <1>1, WithSigners DEF Proper, WithShare
<1>5. /\ w.signers \in Seq(Signer) /\ Len(w.signers) = n + 1
      /\ w.signers[n + 1] = c /\ \A i \in 1..n : w.signers[i] = q.signers[i]
  BY <1>3, <1>4
<1>6. \A i \in 1..n : IndexOf[q.signers[i]] # IndexOf[c]
  BY <1>1, <1>3 DEF MaySign, IndexesOf, ToSet
<1>7. \A i, j \in 1..(n + 1) : IndexOf[w.signers[i]] = IndexOf[w.signers[j]] => i = j
  <2>1. \A i \in 1..(n + 1) : i \in 1..n \/ i = n + 1
    BY <1>3
  <2>2. \A i, j \in 1..n : IndexOf[q.signers[i]] = IndexOf[q.signers[j]] => i = j
    BY <1>1 DEF Proper
  <2> HIDE DEF w, n, q
  <2> QED
    BY <1>5, <1>6, <2>1, <2>2
<1> QED
  BY <1>1, <1>3, <1>4, <1>5, <1>7

\* The share of a signer who may sign makes a proper proposal of a proper one.
LEMMA ShareIsProper ==
  ASSUME Control, NEW c \in Signer, pc[c] = "write", pc'[c] = "over", Onward,
         <<held[c].by, IndexOf[c]>> \in signed'
  PROVE  Proper(WithShare(c), pc', signed')
<1> DEFINE q == held[c]
           w == WithShare(c)
           n == Len(q.signers)
<1>1. Proper(q, pc, signed) /\ MaySign(c, q) /\ n \in Nat
  BY ShareIsAnother
<1>2. Proper(q, pc', signed')
  BY <1>1, ProperStays
<1>4. w = [by |-> q.by, key |-> q.key, signers |-> Append(q.signers, c), status |-> q.status,
           z |-> q.z, claim |-> q.claim, result |-> q.result]
  BY ShareIsAnother
<1>5. /\ w.signers \in Seq(Signer) /\ Len(w.signers) = n + 1
      /\ w.signers[n + 1] = c /\ \A i \in 1..n : w.signers[i] = q.signers[i]
      /\ \A i, j \in 1..(n + 1) : IndexOf[w.signers[i]] = IndexOf[w.signers[j]] => i = j
  BY ShareIsAnother
<1>8. ASSUME NEW i \in 1..(n + 1)
      PROVE  pc'[w.signers[i]] = "over" /\ <<w.by, IndexOf[w.signers[i]]>> \in signed'
  <2>1. i \in 1..n \/ i = n + 1
    BY <1>1, <1>8
  <2>2. w.by = q.by
    BY <1>4
  <2>3. \A j \in 1..n : pc'[q.signers[j]] = "over" /\ <<q.by, IndexOf[q.signers[j]]>> \in signed'
    BY <1>2 DEF Proper
  <2>4. <<q.by, IndexOf[c]>> \in signed'
    OBVIOUS
  <2> HIDE DEF w, n, q
  <2> QED
    BY <1>5, <2>1, <2>2, <2>3, <2>4
<1>9. w.status = "collecting" /\ w.by = q.by /\ w.result = q.result /\ IsProposal(w)
  BY <1>1, <1>4 DEF Proper, MaySign, IsProposal
<1> QED
  BY <1>2, <1>5, <1>8, <1>9 DEF Proper

\* An aggregate changes what it says, not who signed it.
LEMMA AggregateRecord ==
  ASSUME NEW q, IsProposal(q)
  PROVE  Aggregated(q) = [by |-> q.by, key |-> q.key, signers |-> q.signers,
                          status |-> "aggregated", z |-> AggregateZ(q.signers, q.by, key),
                          claim |-> q.claim, result |-> q.result]
<1> PICK z : z = AggregateZ(q.signers, q.by, key)
  OBVIOUS
<1>1. Aggregated(q) = [q EXCEPT !.status = "aggregated", !.z = z]
  BY DEF Aggregated
<1>2. [q EXCEPT !.status = "aggregated", !.z = z]
        = [by |-> q.by, key |-> q.key, signers |-> q.signers, status |-> "aggregated", z |-> z,
           claim |-> q.claim, result |-> q.result]
  BY WithStatusAndZ
<1> QED
  BY <1>1, <1>2

LEMMA AggregateIsProper ==
  ASSUME NEW q, Proper(q, pc', signed'), Len(q.signers) >= Threshold
  PROVE  /\ Proper(Aggregated(q), pc', signed')
         /\ Aggregated(q).by = q.by /\ Aggregated(q).signers = q.signers
         /\ Aggregated(q).status = "aggregated" /\ Aggregated(q).result = q.result
         /\ Aggregated(q).key = q.key
<1>1. Aggregated(q) = [by |-> q.by, key |-> q.key, signers |-> q.signers,
                       status |-> "aggregated", z |-> AggregateZ(q.signers, q.by, key), claim |-> q.claim,
                       result |-> q.result]
  BY AggregateRecord DEF Proper
<1> QED
  BY <1>1 DEF Proper, IsProposal

\* What a sign that writes has written.
SignWrites(c) ==
  /\ signed' = signed \cup {<<held[c].by, IndexOf[c]>>}
  /\ \/ /\ Len(WithShare(c).signers) < Threshold
        /\ file' = WithShare(c) /\ used' = used
     \/ /\ Len(WithShare(c).signers) >= Threshold
        /\ Verifies(Aggregated(WithShare(c)), key)
        /\ file' = Aggregated(WithShare(c))
        /\ used' = used \cup {<<s, WithShare(c).by, ToSet(WithShare(c).signers)>> :
                                 s \in ToSet(WithShare(c).signers)}

LEMMA SignWriteCases ==
  ASSUME Control, NEW c \in Command, SignWrite(c)
  PROVE  /\ c \in Signer /\ pc[c] = "write" /\ Ends(c) /\ pc'[c] = "over"
         /\ UNCHANGED <<key, payments, history>>
         /\ SignWrites(c) \/ UNCHANGED <<file, signed, used>>
<1>1. /\ c \in Signer /\ pc[c] = "write" /\ Ends(c) /\ pc'[c] = "over"
      /\ UNCHANGED <<key, payments, history>>
  BY DEF SignWrite, outside, Ends, Goto, Control
<1>2. Proper(held[c], pc, signed)
  BY <1>1 DEF Control, Right
<1>3. /\ WithShare(c).by = held[c].by
      /\ WithShare(c).signers = Append(held[c].signers, c)
  BY <1>2, WithSigners DEF WithShare, Proper
<1>4. /\ Aggregated(WithShare(c)).by = held[c].by
      /\ Aggregated(WithShare(c)).signers = WithShare(c).signers
  <2>1. WithShare(c) = [by |-> held[c].by, key |-> held[c].key,
                        signers |-> Append(held[c].signers, c), status |-> held[c].status,
                        z |-> held[c].z, claim |-> held[c].claim, result |-> held[c].result]
    BY <1>2, WithSigners DEF WithShare, Proper
  <2>2. IsProposal(WithShare(c))
    BY <2>1 DEF IsProposal
  <2> QED
    BY <2>2, <1>3, AggregateRecord
<1>5. Len(WithShare(c).signers) \in Nat /\ Threshold \in Nat
  BY <1>1, <1>2, <1>3, CeremonyAssumption DEF Proper
<1> QED
  BY <1>1, <1>3, <1>4, <1>5 DEF SignWrite, SignWrites

\* The steps of a sign.
LEMMA SignFiles ==
  ASSUME Files, NEW c \in Command, SignRead(c) \/ SignWrite(c)
  PROVE  Files'
<1>0. Control /\ signed \in Signatures /\ InFile
  BY DEF Files
<1>1. CASE SignRead(c)
  <2>1. /\ c \in Signer /\ pc[c] = "idle" /\ file # NoFile
        /\ UNCHANGED <<file, payments, signed>>
    BY <1>1 DEF SignRead, Starts, outside, ghosts
  <2>2. CASE MaySign(c, file)
    <3>1. Goto(c, "write") /\ held' = [held EXCEPT ![c] = file]
      BY <1>1, <2>2 DEF SignRead
    <3>2. Onward
      BY <1>0, <2>1, <3>1, GotoOnward
    <3>3. Right(c, "write", file, pc', signed')
      BY <1>0, <2>1, <2>2, <3>2, ProperStays, CeremonyAssumption DEF Right, InFile, Executing
    <3>4. Control'
      BY <1>0, <2>1, <3>1, <3>3, Moves
    <3> QED
      BY <1>0, <2>1, <3>2, <3>4, FilesStay
  <2>3. CASE ~MaySign(c, file)
    <3>1. Ends(c)
      BY <1>1, <2>3 DEF SignRead
    <3> QED
      BY <1>0, <2>1, <3>1, EndsRight, FilesStay
  <2> QED
    BY <2>2, <2>3
<1>2. CASE SignWrite(c)
  <2>1. /\ c \in Signer /\ pc[c] = "write" /\ Ends(c) /\ pc'[c] = "over"
        /\ UNCHANGED <<key, payments, history>>
        /\ SignWrites(c) \/ UNCHANGED <<file, signed, used>>
    BY <1>0, <1>2, SignWriteCases
  <2>2. CASE UNCHANGED <<file, signed, used>>
    BY <1>0, <2>1, <2>2, EndsRight, FilesStay
  <2>3. CASE SignWrites(c)
    <3>1. /\ held[c].by \in Proposer /\ IndexOf[c] \in 1..(P - 1)
          /\ signed' = signed \cup {<<held[c].by, IndexOf[c]>>}
      BY <1>0, <2>1, <2>3, CeremonyAssumption DEF Control, Right, Proper, SignWrites
    <3>2. signed' \in Signatures /\ signed \subseteq signed' /\ <<held[c].by, IndexOf[c]>> \in signed'
      BY <1>0, <3>1 DEF Signatures
    <3>3. Control' /\ Onward
      BY <1>0, <2>1, <3>2, EndsRight
    <3>4. Proper(WithShare(c), pc', signed')
      BY <1>0, <2>1, <3>2, <3>3, ShareIsProper
    <3>5. Proper(file', pc', signed')
      BY <2>3, <3>4, AggregateIsProper DEF SignWrites
    <3> QED
      BY <2>1, <3>2, <3>3, <3>5, FilesStay
  <2> QED
    BY <2>1, <2>2, <2>3
<1> QED
  BY <1>1, <1>2

\* An executor holds a proposal that is aggregated.
LEMMA ExecutorHolds ==
  ASSUME Control, NEW c \in Command, pc[c] \in Executing
  PROVE  /\ c \in Executor /\ Proper(held[c], pc, signed) /\ held[c].status = "aggregated"
         /\ pc[c] = "pay" => ~held[c].result
BY DEF Control, Right

\* To record what was done changes nothing else.
SameProposal(q, r) ==
  /\ IsProposal(r)
  /\ r.by = q.by /\ r.key = q.key /\ r.signers = q.signers /\ r.status = q.status /\ r.z = q.z

LEMMA ClaimRecorded ==
  ASSUME NEW q, IsProposal(q), NEW r, r = [q EXCEPT !.claim = TRUE]
  PROVE  SameProposal(q, r) /\ r.result = q.result
<1>1. r = [by |-> q.by, key |-> q.key, signers |-> q.signers, status |-> q.status, z |-> q.z,
           claim |-> TRUE, result |-> q.result]
  BY DEF IsProposal
<1> QED
  BY <1>1 DEF SameProposal, IsProposal

LEMMA ResultRecorded ==
  ASSUME NEW q, IsProposal(q), NEW r, r = [q EXCEPT !.result = TRUE]
  PROVE  SameProposal(q, r) /\ r.result = TRUE
<1>1. r = [by |-> q.by, key |-> q.key, signers |-> q.signers, status |-> q.status, z |-> q.z,
           claim |-> q.claim, result |-> TRUE]
  BY DEF IsProposal
<1> QED
  BY <1>1 DEF SameProposal, IsProposal

LEMMA SameIsProper ==
  ASSUME NEW q, NEW at, NEW sg, Proper(q, at, sg), NEW r, SameProposal(q, r), r.result \in BOOLEAN
  PROVE  Proper(r, at, sg)
BY DEF Proper, SameProposal

LEMMA RecordIsProper ==
  ASSUME NEW q, NEW at, NEW sg, Proper(q, at, sg),
         NEW r, r = [q EXCEPT !.claim = TRUE] \/ r = [q EXCEPT !.result = TRUE]
  PROVE  Proper(r, at, sg) /\ SameProposal(q, r) /\ (q.result => r.result)
<1>1. IsProposal(q) /\ q.result \in BOOLEAN
  BY DEF Proper
<1>2. SameProposal(q, r) /\ r.result \in {q.result, TRUE}
  BY <1>1, ClaimRecorded, ResultRecorded
<1> QED
  BY <1>1, <1>2, SameIsProper

\* The first step of an execute.
LEMMA ExecuteReadFiles ==
  ASSUME Files, NEW c \in Command, ExecuteRead(c)
  PROVE  Files'
<1>0. Control /\ signed \in Signatures /\ InFile
  BY DEF Files
<1>1. /\ c \in Executor /\ pc[c] = "idle" /\ file # NoFile
      /\ UNCHANGED <<file, payments, signed>>
  BY DEF ExecuteRead, Starts, outside, ghosts
<1>2. CASE Ends(c)
  BY <1>0, <1>1, <1>2, EndsRight, FilesStay
<1>3. CASE ~Ends(c)
  <2>1. PICK place \in {"claim", "pay"} :
          /\ Goto(c, place) /\ held' = [held EXCEPT ![c] = file]
          /\ file.status = "aggregated"
          /\ place = "pay" => ~file.result
    BY <1>3 DEF ExecuteRead
  <2>2. Onward
    BY <1>0, <1>1, <2>1, GotoOnward
  <2>3. Right(c, place, file, pc', signed')
    BY <1>0, <1>1, <2>1, <2>2, ProperStays DEF Right, InFile, Executing
  <2>4. Control'
    BY <1>0, <1>1, <2>1, <2>3, Moves
  <2> QED
    BY <1>0, <1>1, <2>2, <2>4, FilesStay
<1> QED
  BY <1>2, <1>3

\* The deposit, and its record.
LEMMA ClaimFiles ==
  ASSUME Files, NEW c \in Command, ClaimDeposit(c) \/ RecordClaim(c)
  PROVE  Files'
<1>0. Control /\ signed \in Signatures /\ InFile
  BY DEF Files
<1>1. CASE ClaimDeposit(c)
  <2>1. /\ pc[c] = "claim" /\ Goto(c, "recordClaim")
        /\ UNCHANGED <<file, held, payments, signed>>
    BY <1>1 DEF ClaimDeposit, ghosts
  <2>2. Onward
    BY <1>0, <2>1, GotoOnward
  <2>3. Right(c, "recordClaim", held[c], pc', signed')
    BY <1>0, <2>1, <2>2, ExecutorHolds, ProperStays DEF Right, Executing
  <2>4. Control'
    BY <1>0, <2>1, <2>3, Stays
  <2> QED
    BY <1>0, <2>1, <2>2, <2>4, FilesStay
<1>2. CASE RecordClaim(c)
  <2>1. /\ pc[c] = "recordClaim" /\ file' = [held[c] EXCEPT !.claim = TRUE]
        /\ UNCHANGED <<payments, signed>>
    BY <1>2 DEF RecordClaim, outside, ghosts
  <2>2. Proper(held[c], pc, signed) /\ held[c].status = "aggregated" /\ c \in Executor
    BY <1>0, <2>1, ExecutorHolds DEF Executing
  <2>3. Control' /\ Onward
    <3>1. CASE Ends(c)
      BY <1>0, <2>1, <3>1, EndsRight
    <3>2. CASE ~Ends(c)
      <4>1. Goto(c, "pay") /\ ~held[c].result /\ held' = [held EXCEPT ![c].claim = TRUE]
        BY <1>2, <3>2 DEF RecordClaim
      <4>2. held' = [held EXCEPT ![c] = [held[c] EXCEPT !.claim = TRUE]]
        BY <4>1
      <4>3. Onward
        BY <1>0, <2>1, <4>1, GotoOnward
      <4>4. Proper(held[c], pc', signed')
        BY <2>2, <4>3, ProperStays
      <4>5. PICK h : h = [held[c] EXCEPT !.claim = TRUE]
        OBVIOUS
      <4>6. Proper(h, pc', signed') /\ h.status = "aggregated" /\ ~h.result
        <5>1. SameProposal(held[c], h) /\ h.result = held[c].result
          BY <2>2, <4>5, ClaimRecorded DEF Proper
        <5>2. Proper(h, pc', signed')
          BY <4>4, <4>5, RecordIsProper
        <5> QED
          BY <2>2, <4>1, <5>1, <5>2 DEF SameProposal
      <4>7. Right(c, "pay", h, pc', signed')
        BY <2>2, <4>6 DEF Right, Executing
      <4> QED
        BY <1>0, <2>1, <4>1, <4>2, <4>5, <4>7, Moves
    <3> QED
      BY <3>1, <3>2
  <2>4. Proper(file', pc', signed')
    BY <2>1, <2>2, <2>3, ProperStays, RecordIsProper
  <2> QED
    BY <1>0, <2>1, <2>3, <2>4, FilesStay
<1> QED
  BY <1>1, <1>2

\* The payment, which the signers of the proposal authorize.
LEMMA PayFiles ==
  ASSUME Files, NEW c \in Command, Pay(c)
  PROVE  Files'
<1>0. Control /\ signed \in Signatures /\ InFile /\ Paid
  BY DEF Files
<1>1. /\ pc[c] = "pay" /\ Goto(c, "recordResult") /\ UNCHANGED <<file, held, signed>>
      /\ payments' = [payments EXCEPT ![held[c].by] = @ + 1]
  BY DEF Pay, ghosts
<1>2. c \in Executor /\ Proper(held[c], pc, signed) /\ held[c].status = "aggregated"
  BY <1>0, <1>1, ExecutorHolds DEF Executing
<1>3. Onward
  BY <1>0, <1>1, GotoOnward
<1>4. Right(c, "recordResult", held[c], pc', signed')
  BY <1>1, <1>2, <1>3, ProperStays DEF Right, Executing
<1>5. Control'
  BY <1>0, <1>1, <1>4, Stays
<1>6. InFile'
  BY <1>0, <1>1, <1>3, ProperStays DEF InFile
<1>7. Paid'
  <2>1. held[c].by \in Proposer /\ pc[held[c].by] = "over"
    BY <1>2 DEF Proper
  <2>2. Cardinality(SignersOf(held[c].by, signed)) >= Threshold
    BY <1>0, <1>2, Authorized
  <2>3. payments' \in [Proposer -> Nat]
    <3>1. payments[held[c].by] + 1 \in Nat
      BY <1>0, <2>1 DEF Paid
    <3> QED
      BY <1>0, <1>1, <3>1 DEF Paid
  <2>4. ASSUME NEW v \in Proposer, payments'[v] > 0
        PROVE  pc[v] = "over" /\ Cardinality(SignersOf(v, signed)) >= Threshold
    BY <1>0, <1>1, <2>1, <2>2, <2>4 DEF Paid
  <2> QED
    BY <1>1, <1>3, <2>3, <2>4 DEF Paid, Onward, Command
<1> QED
  BY <1>0, <1>1, <1>5, <1>6, <1>7 DEF Files

\* The ends of an execute, and of any command.
LEMMA EndFiles ==
  ASSUME Files, NEW c \in Command, RecordResult(c) \/ ExecuteThrows(c) \/ Killed(c)
  PROVE  Files'
<1>0. Control /\ signed \in Signatures /\ InFile
  BY DEF Files
<1>1. CASE RecordResult(c)
  <2>1. /\ pc[c] = "recordResult" /\ Ends(c) /\ file' = [held[c] EXCEPT !.result = TRUE]
        /\ UNCHANGED <<payments, signed>>
    BY <1>1 DEF RecordResult, outside, ghosts
  <2>2. Proper(held[c], pc, signed)
    BY <1>0, <2>1, ExecutorHolds DEF Executing
  <2>3. Control' /\ Onward
    BY <1>0, <2>1, EndsRight
  <2>4. Proper(file', pc', signed')
    BY <2>1, <2>2, <2>3, ProperStays, RecordIsProper
  <2> QED
    BY <1>0, <2>1, <2>3, <2>4, FilesStay
<1>2. CASE ExecuteThrows(c)
  <2>1. pc[c] # "over" /\ Ends(c) /\ UNCHANGED <<file, payments, signed>>
    BY <1>2 DEF ExecuteThrows, outside
  <2> QED
    BY <1>0, <2>1, EndsRight, FilesStay
<1>3. CASE Killed(c)
  <2>1. pc[c] # "over" /\ Ends(c) /\ UNCHANGED <<file, payments, signed>>
    BY <1>3 DEF Killed, Running, outside
  <2> QED
    BY <1>0, <2>1, EndsRight, FilesStay
<1> QED
  BY <1>1, <1>2, <1>3

\* Every step keeps what is known of the proposals.
LEMMA FilesStep ==
  ASSUME Files, [Next]_vars
  PROVE  Files'
<1>1. CASE UNCHANGED <<file, pc, held, payments, signed>>
  BY <1>1 DEF Files, Control, InFile, Paid
<1>2. CASE runKeygen
  BY <1>1, <1>2 DEF runKeygen, outside, ghosts
<1>3. CASE UNCHANGED vars
  BY <1>1, <1>3 DEF vars, outside, ghosts
<1> QED
  BY <1>2, <1>3, ProposeFiles, SignFiles, ExecuteReadFiles, ClaimFiles, PayFiles, EndFiles
  DEF Next

LEMMA FilesInit == Init => Files
<1> SUFFICES ASSUME Init PROVE Files
  OBVIOUS
<1>1. Control
  BY DEF Init, Control, Right, Executing
<1>2. signed \in Signatures /\ InFile /\ Paid
  BY DEF Init, Signatures, InFile, Paid
<1> QED
  BY <1>1, <1>2 DEF Files

LEMMA FilesAlways == Spec => []Files
<1> QED
  BY FilesInit, FilesStep, PTL DEF Spec

(***************************************************************************)
(* Whatever commands run beside each other, are killed, or restore an      *)
(* older file, a proposal is paid only when Threshold participants have    *)
(* signed it: runExecute asks for an aggregate, and runSign makes one only *)
(* of that many shares of different participants.                          *)
(***************************************************************************)
THEOREM PaymentsAreAuthorized == Spec => []PaymentIsAuthorized
<1>1. Files => PaymentIsAuthorized
  BY DEF Files, Paid, PaymentIsAuthorized, SignersOf
<1> QED
  BY <1>1, FilesAlways, PTL

-----------------------------------------------------------------------------
(***************************************************************************)
(* Without an overlap one command runs, and holds what the file has.       *)
(***************************************************************************)
Alone ==
  "overlap" \notin history =>
    /\ \A c, d \in Running : c = d
    /\ \A c \in Running \ Proposer : held[c] = file

\* A command starts: it is the only one, or history tells.
LEMMA StartsAlone ==
  ASSUME Control, NEW c \in Command, Starts(c), NEW there, Goto(c, there),
         "overlap" \notin history',
         c \in Proposer \/ held'[c] = file' \/ there = "over"
  PROVE  Alone'
<1>1. Running = {} /\ \A d \in Command \ {c} : pc'[d] = pc[d]
  BY DEF Starts, Control, Goto
<1>2. pc'[c] = there
  BY DEF Control, Goto
<1>3. Running' \subseteq {c}
  BY <1>1 DEF Running
<1>4. there = "over" => c \notin Running'
  BY <1>2 DEF Running
<1> QED
  BY <1>3, <1>4 DEF Alone

\* A command that goes on is the only one.
LEMMA GoesOnAlone ==
  ASSUME Control, Alone, "overlap" \notin history, NEW c \in Running, NEW there, Goto(c, there),
         there = "over" \/ held'[c] = file'
  PROVE  Alone'
<1>1. Running = {c} /\ \A d \in Command \ {c} : pc'[d] = pc[d]
  BY DEF Alone, Control, Goto, Running
<1>2. pc'[c] = there
  BY DEF Control, Goto, Running
<1>3. Running' \subseteq {c}
  BY <1>1 DEF Running
<1>4. there = "over" => c \notin Running'
  BY <1>2 DEF Running
<1> QED
  BY <1>3, <1>4 DEF Alone

\* What has happened is not forgotten.
LEMMA HistoryStays ==
  ASSUME [Next]_vars
  PROVE  history \subseteq history'
BY DEF Next, vars, runKeygen, ProposeStart, ProposeWrite, SignRead, SignWrite, ExecuteRead,
       ClaimDeposit, RecordClaim, Pay, RecordResult, ExecuteThrows, Killed, Starts

LEMMA AloneStep ==
  ASSUME Files, Alone, [Next]_vars
  PROVE  Alone'
<1>0. Control /\ (pc = [c \in Command |-> pc[c]]) /\ (held = [c \in Command |-> held[c]])
  BY DEF Files, Control
<1> SUFFICES ASSUME "overlap" \notin history' PROVE Alone'
  BY DEF Alone
<1>1. "overlap" \notin history
  BY HistoryStays
<1>2. CASE UNCHANGED <<file, pc, held>>
  BY <1>1, <1>2 DEF Alone, Running
<1>3. CASE runKeygen
  BY <1>2, <1>3 DEF runKeygen
<1>4. ASSUME NEW c \in Command, ProposeStart(c) PROVE Alone'
  BY <1>0, <1>4, StartsAlone DEF ProposeStart
<1>5. ASSUME NEW c \in Command, SignRead(c) PROVE Alone'
  <2>1. Starts(c) /\ file' = file
    BY <1>5 DEF SignRead
  <2>2. \/ Goto(c, "over")
        \/ Goto(c, "write") /\ held' = [held EXCEPT ![c] = file]
    BY <1>5 DEF SignRead, Ends
  <2>3. CASE Goto(c, "over")
    BY <1>0, <2>1, <2>3, StartsAlone
  <2>4. CASE Goto(c, "write") /\ held' = [held EXCEPT ![c] = file]
    <3>1. held'[c] = file'
      BY <1>0, <2>1, <2>4
    <3> QED
      BY <1>0, <2>1, <2>4, <3>1, StartsAlone
  <2> QED
    BY <2>2, <2>3, <2>4
<1>6. ASSUME NEW c \in Command, ExecuteRead(c) PROVE Alone'
  <2>1. Starts(c) /\ file' = file
    BY <1>6 DEF ExecuteRead
  <2>2. \/ Goto(c, "over")
        \/ \E place : Goto(c, place) /\ held' = [held EXCEPT ![c] = file]
    BY <1>6 DEF ExecuteRead, Ends
  <2>3. CASE Goto(c, "over")
    BY <1>0, <2>1, <2>3, StartsAlone
  <2>4. CASE \E place : Goto(c, place) /\ held' = [held EXCEPT ![c] = file]
    <3>1. held'[c] = file'
      BY <1>0, <2>1, <2>4
    <3> QED
      BY <1>0, <2>1, <2>4, <3>1, StartsAlone
  <2> QED
    BY <2>2, <2>3, <2>4
<1>7. ASSUME NEW c \in Command, ClaimDeposit(c) PROVE Alone'
  <2>1. c \in Running /\ held'[c] = file' /\ Goto(c, "recordClaim")
    <3>1. pc[c] = "claim" /\ Goto(c, "recordClaim") /\ UNCHANGED <<file, held>>
      BY <1>7 DEF ClaimDeposit
    <3>2. c \in Running \ Proposer
      BY <1>0, <3>1, ExecutorHolds, CeremonyAssumption DEF Running, Executing
    <3> QED
      BY <1>1, <3>1, <3>2 DEF Alone
  <2> QED
    BY <1>0, <1>1, <2>1, GoesOnAlone
<1>8. ASSUME NEW c \in Command, RecordClaim(c) PROVE Alone'
  <2>1. pc[c] = "recordClaim" /\ c \in Running
    BY <1>8 DEF RecordClaim, Running
  <2>2. CASE Goto(c, "over")
    BY <1>0, <1>1, <2>1, <2>2, GoesOnAlone
  <2>3. CASE ~Goto(c, "over")
    <3>1. Goto(c, "pay") /\ held'[c] = [held[c] EXCEPT !.claim = TRUE]
      BY <1>0, <1>8, <2>3 DEF RecordClaim, Ends
    <3>2. held'[c] = file'
      BY <1>8, <3>1 DEF RecordClaim
    <3> QED
      BY <1>0, <1>1, <2>1, <3>1, <3>2, GoesOnAlone
  <2> QED
    BY <2>2, <2>3
<1>9. ASSUME NEW c \in Command, Pay(c) PROVE Alone'
  <2>1. c \in Running /\ held'[c] = file' /\ Goto(c, "recordResult")
    <3>1. pc[c] = "pay" /\ Goto(c, "recordResult") /\ UNCHANGED <<file, held>>
      BY <1>9 DEF Pay
    <3>2. c \in Running \ Proposer
      BY <1>0, <3>1, ExecutorHolds, CeremonyAssumption DEF Running, Executing
    <3> QED
      BY <1>1, <3>1, <3>2 DEF Alone
  <2> QED
    BY <1>0, <1>1, <2>1, GoesOnAlone
<1>10. ASSUME NEW c \in Command,
              ProposeWrite(c) \/ SignWrite(c) \/ RecordResult(c) \/ ExecuteThrows(c) \/ Killed(c)
       PROVE  Alone'
  <2>1. c \in Running /\ Goto(c, "over")
    BY <1>10 DEF ProposeWrite, SignWrite, RecordResult, ExecuteThrows, Killed, Running, Ends
  <2> QED
    BY <1>0, <1>1, <2>1, GoesOnAlone
<1> QED
  BY <1>2, <1>3, <1>4, <1>5, <1>6, <1>7, <1>8, <1>9, <1>10 DEF Next, vars

LEMMA AloneAlways == Spec => [](Files /\ Alone)
<1>1. Init => Alone
  BY DEF Init, Alone, Running
<1> QED
  BY <1>1, FilesInit, FilesStep, AloneStep, PTL DEF Spec

(***************************************************************************)
(* Then a payment whose command did not end before recording it is         *)
(* recorded, or about to be, or its proposal has been replaced, and never  *)
(* comes back.                                                             *)
(***************************************************************************)
Recording(v) == \E c \in Executor : pc[c] = "recordResult" /\ held[c].by = v
OnRecord(v) == file.by # v \/ file.result \/ Recording(v)
Recorded ==
  /\ unrecorded \in [Proposer -> Nat]
  /\ "overlap" \notin history => \A v \in Proposer :
       /\ payments[v] \in {unrecorded[v], unrecorded[v] + 1}
       /\ Recording(v) => payments[v] = unrecorded[v] + 1
       /\ payments[v] = unrecorded[v] + 1 => OnRecord(v)

\* A step that makes no payment, touches nobody at the record of one, and
\* leaves in the file what it had of payments.
LEMMA RecordedStays ==
  ASSUME Recorded, Paid, Control, "overlap" \notin history' => "overlap" \notin history,
         UNCHANGED <<payments, unrecorded>>,
         NEW c \in Command, NEW there, Goto(c, there),
         pc[c] # "recordResult", there # "recordResult",
         NEW h, held' = [held EXCEPT ![c] = h],
         \A v \in Proposer : payments[v] > 0 => file'.by # v \/ (file'.by = file.by /\ file'.result = file.result)
  PROVE  Recorded'
<1>1. /\ \A d \in Command \ {c} : pc'[d] = pc[d] /\ held'[d] = held[d]
      /\ pc'[c] = there
      /\ Executor \subseteq Command
  BY DEF Control, Goto, Command
<1>2. \A v : Recording(v)' <=> Recording(v)
  BY <1>1 DEF Recording
<1>3. \A v \in Proposer : payments[v] = unrecorded[v] + 1 => payments[v] > 0
  BY DEF Recorded
<1>4. \A v \in Proposer : payments[v] > 0 /\ OnRecord(v) => OnRecord(v)'
  BY <1>2 DEF OnRecord
<1> QED
  BY <1>2, <1>3, <1>4 DEF Recorded

\* An execute that ends, its payment recorded or not.
LEMMA RecordedAtEnd ==
  ASSUME Files, Alone, Recorded, "overlap" \notin history' => "overlap" \notin history,
         UNCHANGED <<payments, file>>, NEW c \in Command, pc[c] # "over", Ends(c), Forgets(c)
  PROVE  Recorded'
<1>0. /\ Control /\ Paid /\ (pc = [d \in Command |-> pc[d]])
      /\ (held = [d \in Command |-> held[d]])
  BY DEF Files, Control
<1>1. CASE pc[c] # "recordResult"
  <2>1. Goto(c, "over") /\ held' = [held EXCEPT ![c] = NoFile] /\ UNCHANGED unrecorded
    BY <1>1 DEF Ends, Forgets
  <2> QED
    BY <1>0, <1>1, <2>1, RecordedStays
<1>2. CASE pc[c] = "recordResult"
  <2> DEFINE paid == held[c].by
  <2>1. c \in Executor /\ paid \in Proposer
    BY <1>0, <1>2, ExecutorHolds DEF Executing, Proper
  <2>2. unrecorded' = [unrecorded EXCEPT ![paid] = unrecorded[paid] + 1]
    BY <1>2 DEF Forgets
  <2>3. unrecorded' \in [Proposer -> Nat]
    BY <2>1, <2>2 DEF Recorded
  <2>4. ASSUME "overlap" \notin history', NEW v \in Proposer
        PROVE  payments[v] = unrecorded'[v] \/ (v # paid /\ ~Recording(v))
    <3>1. Running = {c}
      BY <1>2, <2>4 DEF Alone, Running
    <3>2. Recording(v) => v = paid
      BY <3>1 DEF Recording, Running, Command
    <3>3. Recording(paid)
      BY <1>2, <2>1 DEF Recording
    <3>4. payments[paid] = unrecorded[paid] + 1
      BY <2>1, <2>4, <3>3 DEF Recorded
    <3> QED
      BY <2>1, <2>2, <3>2, <3>4 DEF Recorded
  <2>5. ASSUME "overlap" \notin history', NEW v \in Proposer
        PROVE  ~Recording(v)'
    <3>1. Running = {c}
      BY <1>2, <2>5 DEF Alone, Running
    <3>2. Running' = {}
      BY <1>0, <3>1 DEF Ends, Goto, Running
    <3> QED
      BY <3>2 DEF Recording, Running, Command
  <2>6. ASSUME "overlap" \notin history', NEW v \in Proposer
        PROVE  /\ payments'[v] \in {unrecorded'[v], unrecorded'[v] + 1}
               /\ payments'[v] = unrecorded'[v] + 1 => OnRecord(v)'
    <3>1. CASE payments[v] = unrecorded'[v]
      BY <2>3, <3>1
    <3>2. CASE v # paid /\ ~Recording(v)
      <4>1. unrecorded'[v] = unrecorded[v]
        BY <2>1, <2>2, <3>2 DEF Recorded
      <4>2. /\ payments[v] \in {unrecorded[v], unrecorded[v] + 1}
            /\ payments[v] = unrecorded[v] + 1 => file.by # v \/ file.result
        BY <2>6, <3>2 DEF Recorded, OnRecord
      <4> QED
        BY <4>1, <4>2 DEF OnRecord
    <3> QED
      BY <2>4, <2>6, <3>1, <3>2
  <2> QED
    BY <2>3, <2>5, <2>6 DEF Recorded
<1> QED
  BY <1>1, <1>2

LEMMA RecordedStep ==
  ASSUME Files, Alone, Recorded, [Next]_vars
  PROVE  Recorded'
<1>0. /\ Control /\ Paid /\ (pc = [c \in Command |-> pc[c]])
      /\ (held = [c \in Command |-> held[c]])
      /\ ("overlap" \notin history' => "overlap" \notin history)
  BY HistoryStays DEF Files, Control
<1>1. CASE UNCHANGED <<file, pc, held, payments, unrecorded>>
  BY <1>0, <1>1 DEF Recorded, Recording, OnRecord
<1>2. CASE runKeygen
  BY <1>1, <1>2 DEF runKeygen, outside, ghosts
<1>3. ASSUME NEW c \in Command, ProposeStart(c) PROVE Recorded'
  <2>1. /\ pc[c] = "idle" /\ Goto(c, "write") /\ UNCHANGED <<file, payments, unrecorded>>
        /\ \E h : held' = [held EXCEPT ![c] = h]
    BY <1>3 DEF ProposeStart, Starts, outside, ghosts
  <2> QED
    BY <1>0, <2>1, RecordedStays
<1>4. ASSUME NEW c \in Command, ProposeWrite(c) PROVE Recorded'
  <2>1. /\ pc[c] = "write" /\ c \in Proposer /\ Ends(c) /\ file' = held[c]
        /\ UNCHANGED <<payments, unrecorded>>
    BY <1>4 DEF ProposeWrite, outside, ghosts
  <2>2. file'.by = c
    <3>1. PICK k : held[c] = Fresh(c, k)
      BY <1>0, <2>1 DEF Control, Right
    <3>2. Fresh(c, k).by = c
      BY FreshRecord
    <3> QED
      BY <2>1, <3>1, <3>2
  <2>3. payments[c] > 0 => FALSE
    BY <1>0, <2>1 DEF Paid
  <2> QED
    BY <1>0, <2>1, <2>2, <2>3, RecordedStays DEF Ends
<1>5. ASSUME NEW c \in Command, SignRead(c) \/ ExecuteRead(c) PROVE Recorded'
  <2>1. /\ pc[c] = "idle" /\ UNCHANGED <<file, payments, unrecorded>>
        /\ \E there \in {"write", "claim", "pay", "over"} : Goto(c, there)
        /\ \E h : held' = [held EXCEPT ![c] = h]
    BY <1>5 DEF SignRead, ExecuteRead, Starts, outside, ghosts, Ends
  <2> QED
    BY <1>0, <2>1, RecordedStays
<1>6. ASSUME NEW c \in Command, SignWrite(c) PROVE Recorded'
  <2>1. /\ c \in Signer /\ pc[c] = "write" /\ Ends(c) /\ pc'[c] = "over" /\ UNCHANGED payments
        /\ SignWrites(c) \/ UNCHANGED <<file, signed, used>>
    BY <1>0, <1>6, SignWriteCases
  <2>0. UNCHANGED unrecorded
    BY <1>6 DEF SignWrite
  <2>2. ASSUME "overlap" \notin history, SignWrites(c)
        PROVE  file'.by = file.by /\ file'.result = file.result
    <3>1. held[c] = file
      BY <2>1, <2>2, CeremonyAssumption DEF Alone, Running
    <3>2. Proper(held[c], pc, signed)
      BY <1>0, <2>1 DEF Control, Right
    <3>3. WithShare(c) = [by |-> held[c].by, key |-> held[c].key,
                          signers |-> Append(held[c].signers, c), status |-> held[c].status,
                          z |-> held[c].z, claim |-> held[c].claim, result |-> held[c].result]
      BY <3>2, WithSigners DEF WithShare, Proper
    <3>4. IsProposal(WithShare(c))
      BY <3>3 DEF IsProposal
    <3>5. /\ Aggregated(WithShare(c)).by = WithShare(c).by
          /\ Aggregated(WithShare(c)).result = WithShare(c).result
      BY <3>4, AggregateRecord
    <3> QED
      BY <2>2, <3>1, <3>3, <3>5 DEF SignWrites
  <2> SUFFICES ASSUME "overlap" \notin history' PROVE Recorded'
    BY <2>0 DEF Recorded
  <2>3. file'.by = file.by /\ file'.result = file.result
    BY <1>0, <2>1, <2>2
  <2> QED
    BY <1>0, <2>0, <2>1, <2>3, RecordedStays DEF Ends
<1>7. ASSUME NEW c \in Command, ClaimDeposit(c) PROVE Recorded'
  <2>1. pc[c] = "claim" /\ Goto(c, "recordClaim") /\ UNCHANGED <<file, held, payments, unrecorded>>
    BY <1>7 DEF ClaimDeposit, ghosts
  <2>2. held' = [held EXCEPT ![c] = held[c]]
    BY <1>0, <2>1
  <2> QED
    BY <1>0, <2>1, <2>2, RecordedStays
<1>8. ASSUME NEW c \in Command, RecordClaim(c) PROVE Recorded'
  <2>0. UNCHANGED <<payments, unrecorded>>
    BY <1>8 DEF RecordClaim, outside, ghosts
  <2> SUFFICES ASSUME "overlap" \notin history' PROVE Recorded'
    BY <2>0 DEF Recorded
  <2>1. /\ pc[c] = "recordClaim" /\ file' = [held[c] EXCEPT !.claim = TRUE]
        /\ \E there \in {"pay", "over"} : Goto(c, there)
    BY <1>8 DEF RecordClaim, Ends
  <2>2. \E h : held' = [held EXCEPT ![c] = h]
    <3>1. CASE Ends(c)
      BY <3>1 DEF Ends
    <3>2. CASE ~Ends(c)
      <4>1. held' = [held EXCEPT ![c] = [held[c] EXCEPT !.claim = TRUE]]
        BY <1>8, <3>2 DEF RecordClaim
      <4> QED
        BY <4>1
    <3> QED
      BY <3>1, <3>2
  <2>3. c \in Executor /\ Proper(held[c], pc, signed)
    BY <1>0, <2>1, ExecutorHolds DEF Executing
  <2>4. held[c] = file
    BY <1>0, <2>1, <2>3, CeremonyAssumption DEF Alone, Running
  <2>5. file'.by = file.by /\ file'.result = file.result
    BY <2>1, <2>3, <2>4, ClaimRecorded DEF Proper, SameProposal
  <2> QED
    BY <1>0, <2>0, <2>1, <2>2, <2>5, RecordedStays
<1>9. ASSUME NEW c \in Command, Pay(c) PROVE Recorded'
  <2>0. UNCHANGED unrecorded
    BY <1>9 DEF Pay, ghosts
  <2> SUFFICES ASSUME "overlap" \notin history' PROVE Recorded'
    BY <2>0 DEF Recorded
  <2>1. /\ pc[c] = "pay" /\ Goto(c, "recordResult") /\ UNCHANGED <<file, held>>
        /\ payments' = [payments EXCEPT ![held[c].by] = @ + 1]
    BY <1>9 DEF Pay
  <2>2. c \in Executor /\ Proper(held[c], pc, signed) /\ ~held[c].result
    BY <1>0, <2>1, ExecutorHolds DEF Executing
  <2>3. held[c] = file /\ Running = {c}
    <3>1. c \in Running \ Proposer
      BY <2>1, <2>2, CeremonyAssumption DEF Running
    <3> QED
      BY <1>0, <3>1 DEF Alone
  <2>4. \A v : ~Recording(v)
    BY <2>1, <2>3 DEF Recording, Running, Command
  <2>5. file.by \in Proposer /\ payments[file.by] \in Nat
    BY <1>0, <2>2, <2>3 DEF Proper, Paid
  <2>6. payments[file.by] = unrecorded[file.by]
    BY <1>0, <2>2, <2>3, <2>4, <2>5 DEF Recorded, OnRecord
  <2>7. /\ payments'[file.by] = unrecorded[file.by] + 1
        /\ \A v \in Proposer \ {file.by} : payments'[v] = payments[v]
    BY <1>0, <2>1, <2>3, <2>5, <2>6 DEF Paid
  <2>8. Recording(file.by)' /\ \A v : Recording(v)' => v = file.by
    <3>1. pc'[c] = "recordResult" /\ held'[c] = file
      BY <1>0, <2>1, <2>3 DEF Goto
    <3>2. \A d \in Executor : pc'[d] = "recordResult" => d = c
      BY <1>0, <2>1, <2>3 DEF Goto, Running, Command
    <3> QED
      BY <2>2, <3>1, <3>2, <2>1 DEF Recording
  <2>9. ASSUME NEW v \in Proposer
        PROVE  /\ payments'[v] \in {unrecorded'[v], unrecorded'[v] + 1}
               /\ Recording(v)' => payments'[v] = unrecorded'[v] + 1
               /\ payments'[v] = unrecorded'[v] + 1 => OnRecord(v)'
    <3>1. CASE v = file.by
      BY <2>0, <2>7, <2>8, <3>1 DEF OnRecord
    <3>2. CASE v # file.by
      BY <1>0, <2>0, <2>1, <2>7, <2>8, <3>2 DEF Recorded, OnRecord
    <3> QED
      BY <3>1, <3>2
  <2> QED
    BY <2>0, <2>9 DEF Recorded
<1>10. ASSUME NEW c \in Command, RecordResult(c) PROVE Recorded'
  <2>1. /\ pc[c] = "recordResult" /\ file' = [held[c] EXCEPT !.result = TRUE] /\ Ends(c)
        /\ UNCHANGED <<payments, unrecorded>>
    BY <1>10 DEF RecordResult, outside, ghosts
  <2>2. Proper(held[c], pc, signed)
    BY <1>0, <2>1, ExecutorHolds DEF Executing
  <2>3. file'.result
    BY <2>1, <2>2, ResultRecorded DEF Proper
  <2>4. \A v : Recording(v)' => Recording(v)
    BY <1>0, <2>1 DEF Recording, Ends, Goto, Command
  <2>5. \A v : OnRecord(v)'
    BY <2>3 DEF OnRecord
  <2> QED
    BY <1>0, <2>1, <2>4, <2>5 DEF Recorded
<1>11. ASSUME NEW c \in Command, ExecuteThrows(c) \/ Killed(c) PROVE Recorded'
  <2>1. pc[c] # "over" /\ Ends(c) /\ Forgets(c) /\ UNCHANGED <<file, payments>>
    BY <1>11 DEF ExecuteThrows, Killed, Running, outside
  <2> QED
    BY <1>0, <2>1, RecordedAtEnd
<1> QED
  BY <1>1, <1>2, <1>3, <1>4, <1>5, <1>6, <1>7, <1>8, <1>9, <1>10, <1>11
  DEF Next, vars, outside, ghosts

(***************************************************************************)
(* When the commands run one after the other, every payment of a proposal  *)
(* but one is of an execute that ended, killed or thrown out of, between   *)
(* the payment and its record: the file an execute reads tells of every    *)
(* other payment, however many executes there are.                         *)
(***************************************************************************)
THEOREM RepeatsAreUnrecorded == Spec => []PaidAgainOnlyUnrecorded
<1>1. Init => Recorded
  BY DEF Init, Recorded, Recording, Command
<1>2. Recorded /\ Files => PaidAgainOnlyUnrecorded
  BY DEF Recorded, PaidAgainOnlyUnrecorded, Files, Paid
<1>3. Spec => []Recorded
  BY <1>1, RecordedStep, AloneAlways, PTL DEF Spec
<1> QED
  BY <1>2, <1>3, FilesAlways, PTL

(***************************************************************************)
(* A nonce that is in a signature is in the file with that signature, or   *)
(* in no file, and its signer is done.                                     *)
(***************************************************************************)
Spent ==
  "overlap" \notin history =>
    /\ \A x \in used : x[1] \in Signer /\ pc[x[1]] = "over"
    /\ \A x \in used : x[1] \in ToSet(file.signers) => file.status = "aggregated"
    /\ \A x, y \in used : x[1] = y[1] => x = y

\* What the file has of signers stays, or is forgotten.
SameSigners ==
  \/ file'.signers = file.signers /\ file'.status = file.status
  \/ file'.signers = <<>>

LEMMA SpentStays ==
  ASSUME Spent, "overlap" \notin history, UNCHANGED used, SameSigners,
         \A c \in Command : pc[c] = "over" => pc'[c] = "over"
  PROVE  Spent'
<1>1. \A x \in used : x[1] \in Signer /\ pc'[x[1]] = "over"
  BY DEF Spent, Command
<1>2. \A x \in used : x[1] \in ToSet(file'.signers) => file'.status = "aggregated"
  BY DEF Spent, SameSigners, ToSet
<1> QED
  BY <1>1, <1>2 DEF Spent

\* No step but a sign signs, and every command that is over stays so.
LEMMA QuietSigners ==
  ASSUME Files, [Next]_vars, \A c \in Command : ~SignWrite(c)
  PROVE  /\ used' = used
         /\ \A c \in Command : pc[c] = "over" => pc'[c] = "over"
         /\ \/ file' = file
            \/ \E c \in Command : ProposeWrite(c) \/ RecordClaim(c) \/ RecordResult(c)
<1>0. pc = [c \in Command |-> pc[c]]
  BY DEF Files, Control
<1>1. UNCHANGED pc \/ \E c \in Command : \E there : pc[c] # "over" /\ Goto(c, there)
  BY DEF Next, vars, runKeygen, ProposeStart, ProposeWrite, SignRead, SignWrite, ExecuteRead,
         ClaimDeposit, RecordClaim, Pay, RecordResult, ExecuteThrows, Killed, Starts, Ends, Running
<1>2. \A c \in Command : pc[c] = "over" => pc'[c] = "over"
  BY <1>0, <1>1 DEF Goto
<1>3. used' = used
  BY DEF Next, vars, ghosts, runKeygen, ProposeStart, ProposeWrite, SignRead, ExecuteRead,
         ClaimDeposit, RecordClaim, Pay, RecordResult, ExecuteThrows, Killed
<1>4. \/ file' = file
      \/ \E c \in Command : ProposeWrite(c) \/ RecordClaim(c) \/ RecordResult(c)
  BY DEF Next, vars, runKeygen, ProposeStart, SignRead, ExecuteRead, ClaimDeposit, Pay,
         ExecuteThrows, Killed
<1> QED
  BY <1>2, <1>3, <1>4

LEMMA SpentStep ==
  ASSUME Files, Alone, Spent, [Next]_vars
  PROVE  Spent'
<1>0. Control /\ InFile
  BY DEF Files
<1> SUFFICES ASSUME "overlap" \notin history' PROVE Spent'
  BY DEF Spent
<1>1. "overlap" \notin history
  BY HistoryStays
<1>2. ASSUME NEW c \in Command, SignWrite(c) PROVE Spent'
  <2>1. /\ c \in Signer /\ pc[c] = "write" /\ Goto(c, "over") /\ pc'[c] = "over"
        /\ SignWrites(c) \/ UNCHANGED <<file, signed, used>>
    BY <1>0, <1>2, SignWriteCases DEF Ends
  <2>2. \A d \in Command : pc[d] = "over" => pc'[d] = "over"
    BY <1>0, <2>1 DEF Goto, Control
  <2>3. CASE UNCHANGED <<file, signed, used>>
    BY <1>1, <2>2, <2>3, SpentStays DEF SameSigners
  <2>4. CASE SignWrites(c)
    <3> DEFINE w == WithShare(c)
               n == Len(held[c].signers)
    <3>1. held[c] = file
      BY <1>1, <2>1, CeremonyAssumption DEF Alone, Running
    <3>2. /\ Proper(held[c], pc, signed) /\ MaySign(c, held[c]) /\ n \in Nat
          /\ w = [by |-> held[c].by, key |-> held[c].key, signers |-> Append(held[c].signers, c),
                  status |-> held[c].status, z |-> held[c].z, claim |-> held[c].claim,
                  result |-> held[c].result]
          /\ w.signers \in Seq(Signer) /\ Len(w.signers) = n + 1
          /\ w.signers[n + 1] = c /\ \A i \in 1..n : w.signers[i] = held[c].signers[i]
      BY <2>1, <1>0, ShareIsAnother
    <3>3. file.status # "aggregated"
      BY <3>1, <3>2 DEF MaySign
    <3>4. \A s \in ToSet(w.signers) : s = c \/ s \in ToSet(file.signers)
      <4>1. \A i \in 1..(n + 1) : i \in 1..n \/ i = n + 1
        BY <3>2
      <4>2. DOMAIN w.signers = 1..(n + 1)
        BY <3>2
      <4>3. DOMAIN held[c].signers = 1..n
        BY <3>2 DEF Proper
      <4> QED
        BY <3>1, <3>2, <4>1, <4>2, <4>3 DEF ToSet
    <3>5. \A x \in used : x[1] \notin ToSet(w.signers)
      BY <1>1, <2>1, <3>3, <3>4 DEF Spent
    <3>6. \A s \in ToSet(w.signers) : s \in Signer /\ pc'[s] = "over"
      <4>1. \A s \in ToSet(file.signers) : s \in Signer /\ pc[s] = "over"
        <5>1. Proper(file, pc, signed)
          BY <3>1, <3>2
        <5>2. /\ file.signers \in Seq(Signer) /\ DOMAIN file.signers = 1..Len(file.signers)
              /\ \A i \in 1..Len(file.signers) : file.signers[i] \in Signer
          BY <5>1 DEF Proper
        <5>3. \A i \in 1..Len(file.signers) : pc[file.signers[i]] = "over"
          BY <5>1 DEF Proper
        <5> QED
          BY <5>2, <5>3 DEF ToSet
      <4> QED
        BY <2>1, <2>2, <3>4, <4>1 DEF Command
    <3>7. CASE file' = w /\ used' = used
      BY <1>1, <2>2, <3>5, <3>7 DEF Spent, Command
    <3>8. CASE /\ file' = Aggregated(w)
               /\ used' = used \cup {<<s, w.by, ToSet(w.signers)>> : s \in ToSet(w.signers)}
      <4>1. IsProposal(w)
        BY <3>2 DEF IsProposal
      <4>2. file'.status = "aggregated"
        BY <3>8, <4>1, AggregateRecord
      <4>3. \A x \in used' : x \in used \/ (x[1] \in ToSet(w.signers)
                                             /\ x = <<x[1], w.by, ToSet(w.signers)>>)
        BY <3>8
      <4> HIDE DEF w
      <4>4. \A x, y \in used' : x[1] = y[1] => x = y
        BY <1>1, <3>5, <4>3 DEF Spent
      <4>5. \A x \in used' : x[1] \in Signer /\ pc'[x[1]] = "over"
        BY <1>1, <2>2, <3>6, <4>3 DEF Spent, Command
      <4> QED
        BY <4>2, <4>4, <4>5 DEF Spent
    <3> QED
      BY <2>4, <3>7, <3>8 DEF SignWrites
  <2> QED
    BY <2>1, <2>3, <2>4
<1>3. ASSUME \A c \in Command : ~SignWrite(c) PROVE Spent'
  <2>1. /\ used' = used
        /\ \A c \in Command : pc[c] = "over" => pc'[c] = "over"
        /\ \/ file' = file
           \/ \E c \in Command : ProposeWrite(c) \/ RecordClaim(c) \/ RecordResult(c)
    BY <1>3, QuietSigners
  <2>2. ASSUME NEW c \in Command, ProposeWrite(c) PROVE file'.signers = <<>>
    <3>1. PICK k : file' = Fresh(c, k)
      BY <1>0, <2>2 DEF ProposeWrite, Control, Right
    <3>2. Fresh(c, k).signers = <<>>
      BY FreshRecord
    <3> QED
      BY <3>1, <3>2
  <2>3. ASSUME NEW c \in Command, RecordClaim(c) \/ RecordResult(c)
        PROVE  file'.signers = file.signers /\ file'.status = file.status
    <3>1. /\ pc[c] \in Executing
          /\ file' = [held[c] EXCEPT !.claim = TRUE] \/ file' = [held[c] EXCEPT !.result = TRUE]
      BY <2>3 DEF RecordClaim, RecordResult, Executing
    <3>2. c \in Executor /\ Proper(held[c], pc, signed)
      BY <1>0, <3>1, ExecutorHolds
    <3>3. held[c] = file
      BY <1>1, <3>1, <3>2, CeremonyAssumption DEF Alone, Running, Executing
    <3> QED
      BY <3>1, <3>2, <3>3, RecordIsProper DEF SameProposal
  <2> QED
    BY <1>1, <2>1, <2>2, <2>3, SpentStays DEF SameSigners
<1> QED
  BY <1>2, <1>3

(***************************************************************************)
(* When the commands run one after the other, however they end, a nonce is *)
(* in one signature, over one set of signers: runSign refuses a proposal   *)
(* that has its signature, and a signature that is not made is not kept.   *)
(***************************************************************************)
THEOREM NoncesSignOnce == Spec => []NonceSignsOnce
<1>1. Init => Spent
  BY DEF Init, Spent
<1>2. Spent => NonceSignsOnce
  BY DEF Spent, NonceSignsOnce
<1>3. Spec => []Spent
  BY <1>1, SpentStep, AloneAlways, PTL DEF Spec
<1> QED
  BY <1>2, <1>3, PTL

-----------------------------------------------------------------------------
(***************************************************************************)
(* Minimal counterexamples, and recursion over finite sets.                *)
(***************************************************************************)
\* A nonempty set of finite sets has a minimal member.  Every induction below over
\* a finite set is this: the least counterexample is shown not to be one.
LEMMA FiniteMin ==
  ASSUME NEW S, IsFiniteSet(S), NEW Bad, Bad \subseteq SUBSET S, Bad # {}
  PROVE \E T \in Bad : \A U \in Bad : ~ (U \subseteq T /\ U # T)
<1>1. IsWellFoundedOn(StrictSubsetOrdering(S), FiniteSubsetsOf(S)) BY FS_StrictSubsetOrderingWellFounded
<1>2. FiniteSubsetsOf(S) = SUBSET S BY FS_FiniteSubsetsOfFinite
<1>3. \E x \in Bad : \A y \in Bad : ~ (<<y, x>> \in StrictSubsetOrdering(S)) BY <1>1, <1>2, WFMin
<1> QED BY <1>3 DEF StrictSubsetOrdering

\* A nonempty set of naturals has a least element.
LEMMA LeastNat ==
  ASSUME NEW T, T \subseteq Nat, T # {}
  PROVE \E n \in T : \A m \in T : n <= m
<1> PICK k \in T : TRUE OBVIOUS
<1> DEFINE Bad == {0..m : m \in {m \in T : m <= k}}
           S == 0..k
<1>1. Bad \subseteq SUBSET S /\ S \in Bad /\ Bad # {} OBVIOUS
<1>2. IsFiniteSet(S) BY FS_Interval
<1> HIDE DEF Bad, S
<1>3. PICK X \in Bad : \A U \in Bad : ~ (U \subseteq X /\ U # X) BY <1>1, <1>2, FiniteMin
<1>4. PICK n \in T : n <= k /\ X = 0..n BY DEF Bad
<1>5. ASSUME NEW m \in T PROVE n <= m
  <2> SUFFICES ASSUME m < n PROVE FALSE OBVIOUS
  <2>1. 0..m \in Bad BY <1>4 DEF Bad
  <2>2. 0..m \subseteq X /\ n \in X /\ n \notin 0..m BY <1>4
  <2> QED BY <1>3, <2>1, <2>2
<1> QED BY <1>5

\* f is what H computes of the subsets of T, an element at a time.
Recursion(f, T, b, c, H) ==
  \A U \in SUBSET T : f[U] = IF U = {} THEN b ELSE H[<<c[U], f[U \ {c[U]}]>>]

\* A recursion over the subsets of a finite set has one solution.
LEMMA RecursionUnique ==
  ASSUME NEW D, IsFiniteSet(D), NEW b, NEW c, NEW H,
         \A U \in SUBSET D : U # {} => c[U] \in U,
         NEW T \in SUBSET D, NEW W \in SUBSET D, NEW f, NEW g,
         Recursion(f, T, b, c, H), Recursion(g, W, b, c, H)
  PROVE  \A U \in SUBSET (T \cap W) : f[U] = g[U]
<1> DEFINE Bad == {U \in SUBSET (T \cap W) : f[U] # g[U]}
<1> SUFFICES ASSUME Bad # {} PROVE FALSE OBVIOUS
<1>1. Bad \subseteq SUBSET D OBVIOUS
<1> HIDE DEF Bad
<1>2. PICK U \in Bad : \A X \in Bad : ~ (X \subseteq U /\ X # U) BY <1>1, FiniteMin
<1>3. U \in SUBSET D /\ U \subseteq T /\ U \subseteq W /\ f[U] # g[U] BY DEF Bad
<1>4. CASE U = {} BY <1>3, <1>4 DEF Recursion
<1>5. CASE U # {}
  <2>1. c[U] \in U BY <1>3, <1>5
  <2>2. U \ {c[U]} \subseteq U /\ U \ {c[U]} # U BY <2>1
  <2>3. f[U \ {c[U]}] = g[U \ {c[U]}] BY <1>2, <1>3, <2>2 DEF Bad
  <2>4. f[U] = H[<<c[U], f[U \ {c[U]}]>>] BY <1>3, <1>5 DEF Recursion
  <2>5. g[U] = H[<<c[U], g[U \ {c[U]}]>>] BY <1>3, <1>5 DEF Recursion
  <2> QED BY <1>3, <2>3, <2>4, <2>5
<1> QED BY <1>4, <1>5

\* A recursion over the subsets of a finite set has a solution.
LEMMA RecursionExists ==
  ASSUME NEW D, IsFiniteSet(D), NEW V, NEW b \in V, NEW c,
         \A U \in SUBSET D : U # {} => c[U] \in U,
         NEW H \in [D \X V -> V]
  PROVE  \E f \in [SUBSET D -> V] : Recursion(f, D, b, c, H)
<1> DEFINE Sol(T, f) == f \in [SUBSET T -> V] /\ Recursion(f, T, b, c, H)
           Bad == {T \in SUBSET D : ~ \E f : Sol(T, f)}
<1> SUFFICES ASSUME Bad # {} PROVE FALSE OBVIOUS
<1>1. Bad \subseteq SUBSET D OBVIOUS
<1> HIDE DEF Bad, Sol
<1>2. PICK T \in Bad : \A X \in Bad : ~ (X \subseteq T /\ X # T) BY <1>1, FiniteMin
<1> DEFINE F(U) == CHOOSE g : Sol(U, g)
           v(U) == F(U)[U]
           first == IF T = {} THEN b ELSE H[<<c[T], v(T \ {c[T]})>>]
           f == [U \in SUBSET T |-> IF U = T THEN first ELSE v(U)]
<1>3. \A U \in SUBSET T : U # T => Sol(U, F(U)) BY <1>1, <1>2 DEF Bad
<1>4. T \in SUBSET D BY <1>1
<1>5. \A U \in SUBSET T : U # T => v(U) \in V BY <1>3 DEF Sol
<1>6. T # {} => c[T] \in T /\ T \ {c[T]} \in SUBSET T /\ T \ {c[T]} # T BY <1>4
<1>7. first \in V
  <2>1. CASE T = {} BY <2>1
  <2>2. CASE T # {} BY <2>2, <1>4, <1>5, <1>6
  <2> QED BY <2>1, <2>2
<1>8. f \in [SUBSET T -> V] BY <1>5, <1>7
<1>9. ASSUME NEW U \in SUBSET T PROVE f[U] = IF U = {} THEN b ELSE H[<<c[U], f[U \ {c[U]}]>>]
  <2>1. CASE U = T
    <3>1. CASE T = {} BY <2>1, <3>1
    <3>2. CASE T # {} BY <2>1, <3>2, <1>6
    <3> QED BY <3>1, <3>2
  <2>2. CASE U # T
    <3>1. f[U] = v(U) BY <2>2
    <3>2. Sol(U, F(U)) BY <1>3, <2>2
    <3> HIDE DEF F
    <3>3. v(U) = IF U = {} THEN b ELSE H[<<c[U], F(U)[U \ {c[U]}]>>] BY <3>2 DEF Sol, Recursion
    <3>4. CASE U = {} BY <3>1, <3>3, <3>4
    <3>5. CASE U # {}
      <4>0. c[U] \in U BY <1>4, <3>5
      <4> DEFINE W == U \ {c[U]}
      <4>1. W \in SUBSET T /\ W # T /\ W \in SUBSET D /\ U \in SUBSET D BY <4>0, <1>4
      <4>2. Sol(W, F(W)) BY <4>1, <1>3 DEF F
      <4>3. Recursion(F(W), W, b, c, H) /\ Recursion(F(U), U, b, c, H) BY <4>2, <3>2 DEF Sol
      <4>4. W \in SUBSET (W \cap U) OBVIOUS
      <4> HIDE DEF W
      <4>5. F(W)[W] = F(U)[W] BY <4>1, <4>3, <4>4, RecursionUnique
      <4>6. f[W] = v(W) BY <4>1
      <4> QED BY <3>1, <3>3, <3>5, <4>5, <4>6 DEF W
    <3> QED BY <3>4, <3>5
  <2> QED BY <2>1, <2>2
<1>10. Sol(T, f)
  <2> HIDE DEF f
  <2> QED BY <1>8, <1>9 DEF Sol, Recursion
<1> QED BY <1>10, <1>2 DEF Bad

-----------------------------------------------------------------------------
(***************************************************************************)
(* Arithmetic modulo P.                                                    *)
(***************************************************************************)
\* A scalar and a multiple of P.
LEMMA ModIs ==
  ASSUME NEW x \in Int
  PROVE  mod(x) \in Scalar /\ \E q \in Int : x = q * P + mod(x)
<1>1. P \in Int /\ P > 0 BY ThresholdScalarsAssumption
<1>2. x % P \in 0..(P - 1) /\ x = P * (x \div P) + (x % P) BY <1>1
<1>3. x \div P \in Int BY <1>1
<1>4. x = (x \div P) * P + mod(x) BY <1>1, <1>2, <1>3 DEF mod
<1> QED BY <1>2, <1>3, <1>4 DEF mod, Scalar

\* There is only one.
LEMMA ModUnique ==
  ASSUME NEW q \in Int, NEW r \in Int, NEW a \in Scalar, NEW b \in Scalar, q * P + a = r * P + b
  PROVE  a = b
<1>1. P \in Int /\ P > 0 /\ a \in Int /\ b \in Int /\ 0 <= a /\ a < P /\ 0 <= b /\ b < P
  BY ThresholdScalarsAssumption DEF Scalar
<1>2. CASE q = r BY <1>1, <1>2
<1>3. CASE q > r
  <2>1. q - r \in Int /\ q - r >= 1 /\ (q - r) * P = b - a BY <1>1, <1>3
  <2>2. (q - r) * P >= P BY <1>1, <2>1
  <2> QED BY <1>1, <2>1, <2>2
<1>4. CASE q < r
  <2>1. r - q \in Int /\ r - q >= 1 /\ (r - q) * P = a - b BY <1>1, <1>4
  <2>2. (r - q) * P >= P BY <1>1, <2>1
  <2> QED BY <1>1, <2>1, <2>2
<1> QED BY <1>2, <1>3, <1>4

\* x and y are the same modulo P.
Eq(x, y) == mod(x) = mod(y)

\* They differ by a multiple of P.
LEMMA EqIs ==
  ASSUME NEW x \in Int, NEW y \in Int
  PROVE  Eq(x, y) <=> \E q \in Int : x - y = q * P
<1>0. P \in Int BY ThresholdScalarsAssumption
<1>1. PICK q \in Int : x = q * P + mod(x) BY ModIs
<1>2. PICK r \in Int : y = r * P + mod(y) BY ModIs
<1>3. mod(x) \in Scalar /\ mod(y) \in Scalar BY ModIs
<1>4. mod(x) \in Int /\ mod(y) \in Int BY <1>0, <1>3 DEF Scalar
<1>5. ASSUME Eq(x, y) PROVE \E p \in Int : x - y = p * P
  <2>1. x - y = q * P - r * P BY <1>0, <1>1, <1>2, <1>4, <1>5 DEF Eq
  <2>2. q * P - r * P = (q - r) * P BY <1>0
  <2>3. q - r \in Int OBVIOUS
  <2> QED BY <2>1, <2>2, <2>3
<1>6. ASSUME NEW p \in Int, x - y = p * P PROVE Eq(x, y)
  <2>1. x = y + p * P BY <1>0, <1>6
  <2>2. y + p * P = (r * P + mod(y)) + p * P BY <1>2
  <2>3. (r * P + mod(y)) + p * P = (r + p) * P + mod(y) BY <1>0, <1>4
  <2>4. r + p \in Int OBVIOUS
  <2>5. q * P + mod(x) = (r + p) * P + mod(y) BY <1>1, <2>1, <2>2, <2>3
  <2>6. mod(x) = mod(y) BY <1>3, <2>4, <2>5, ModUnique
  <2> QED BY <2>6 DEF Eq
<1> QED BY <1>5, <1>6

\* A scalar is its own remainder.
LEMMA ModScalar ==
  ASSUME NEW a \in Scalar
  PROVE  mod(a) = a /\ a \in Int
<1>0. P \in Int /\ a \in Int BY ThresholdScalarsAssumption DEF Scalar
<1>1. PICK q \in Int : a = q * P + mod(a) BY <1>0, ModIs
<1>2. mod(a) \in Scalar BY <1>0, ModIs
<1>3. 0 * P + a = q * P + mod(a) BY <1>0, <1>1
<1>4. 0 \in Int OBVIOUS
<1>5. a = mod(a) BY <1>2, <1>3, <1>4, ModUnique
<1> QED BY <1>0, <1>5

\* A remainder is the same as what it is of.
LEMMA EqMod ==
  ASSUME NEW x \in Int
  PROVE  mod(x) \in Scalar /\ mod(x) \in Int /\ Eq(mod(x), x) /\ Eq(x, x)
<1>1. mod(x) \in Scalar BY ModIs
<1>2. mod(mod(x)) = mod(x) /\ mod(x) \in Int BY <1>1, ModScalar
<1> QED BY <1>1, <1>2 DEF Eq

\* Sums, opposites and products of the same are the same.
LEMMA EqSum ==
  ASSUME NEW a \in Int, NEW b \in Int, NEW c \in Int, NEW d \in Int, Eq(a, b), Eq(c, d)
  PROVE  Eq(a + c, b + d) /\ Eq(a - c, b - d) /\ Eq(-a, -b)
<1>0. P \in Int BY ThresholdScalarsAssumption
<1>1. PICK q \in Int : a - b = q * P BY EqIs
<1>2. PICK r \in Int : c - d = r * P BY EqIs
<1>3. (a + c) - (b + d) = q * P + r * P BY <1>0, <1>1, <1>2
<1>4. (a - c) - (b - d) = q * P - r * P BY <1>0, <1>1, <1>2
<1>5. q * P + r * P = (q + r) * P /\ q * P - r * P = (q - r) * P /\ -(q * P) = (-q) * P BY <1>0
<1>6. q + r \in Int /\ q - r \in Int /\ -q \in Int OBVIOUS
<1>7. (-a) - (-b) = -(q * P) BY <1>0, <1>1
<1>8. Eq(a + c, b + d)
  <2>1. a + c \in Int /\ b + d \in Int /\ (a + c) - (b + d) = (q + r) * P BY <1>3, <1>5
  <2> QED BY <1>6, <2>1, EqIs
<1>9. Eq(a - c, b - d)
  <2>1. a - c \in Int /\ b - d \in Int /\ (a - c) - (b - d) = (q - r) * P BY <1>4, <1>5
  <2> QED BY <1>6, <2>1, EqIs
<1>10. Eq(-a, -b)
  <2>1. -a \in Int /\ -b \in Int /\ (-a) - (-b) = (-q) * P BY <1>5, <1>7
  <2> QED BY <1>6, <2>1, EqIs
<1> QED BY <1>8, <1>9, <1>10

LEMMA EqProduct ==
  ASSUME NEW a \in Int, NEW b \in Int, NEW c \in Int, NEW d \in Int, Eq(a, b), Eq(c, d)
  PROVE  Eq(a * c, b * d)
<1>0. P \in Int BY ThresholdScalarsAssumption
<1>1. PICK q \in Int : a - b = q * P BY EqIs
<1>2. PICK r \in Int : c - d = r * P BY EqIs
<1>3. a * c - b * d = (a - b) * c + b * (c - d) OBVIOUS
<1>4. (a - b) * c + b * (c - d) = (q * P) * c + b * (r * P) BY <1>1, <1>2
<1>5. (q * P) * c + b * (r * P) = (q * c + b * r) * P BY <1>0
<1>6. q * c + b * r \in Int /\ a * c \in Int /\ b * d \in Int OBVIOUS
<1>7. a * c - b * d = (q * c + b * r) * P BY <1>3, <1>4, <1>5
<1> QED BY <1>6, <1>7, EqIs

\* A product of what is not 0 is not 0: P is prime.
LEMMA Euclid ==
  ASSUME NEW a \in 1..(P - 1), NEW b \in 1..(P - 1)
  PROVE  ~ Eq(a * b, 0)
<1>0. P \in Nat /\ P > 2 /\ \A d \in 2..(P - 1) : P % d # 0 BY ThresholdScalarsAssumption
<1> DEFINE Bad == {m \in 1..(P - 1) : Eq(m * b, 0)}
<1> SUFFICES ASSUME Bad # {} PROVE FALSE
  <2> QED BY DEF Bad
<1>1. Bad \subseteq Nat BY <1>0
<1> HIDE DEF Bad
<1>2. PICK m \in Bad : \A k \in Bad : m <= k BY <1>1, LeastNat
<1>3. m \in 1..(P - 1) /\ Eq(m * b, 0) BY DEF Bad
<1>4. m \in Int /\ b \in Int /\ m >= 1 /\ m < P BY <1>0, <1>3
<1>5. CASE m = 1
  <2>1. m * b = b BY <1>4, <1>5
  <2>2. b \in Scalar /\ 0 \in Scalar /\ b # 0 BY <1>0 DEF Scalar
  <2>3. mod(b) = b /\ mod(0) = 0 BY <2>2, ModScalar
  <2> QED BY <1>3, <2>1, <2>2, <2>3 DEF Eq
<1>6. CASE m # 1
  <2> DEFINE r == P % m
             q == P \div m
  <2>1. m \in 2..(P - 1) BY <1>0, <1>3, <1>6
  <2>2. r \in 0..(m - 1) /\ P = m * q + r /\ q \in Int BY <1>0, <1>4
  <2>3. r # 0 BY <1>0, <2>1
  <2> HIDE DEF r, q
  <2>4. r \in Int /\ r \in 1..(P - 1) /\ r < m BY <1>0, <1>4, <2>2, <2>3
  <2>5. r * b = b * P - q * (m * b)
    <3>1. r = P - m * q BY <1>0, <1>4, <2>2, <2>4
    <3>2. (P - m * q) * b = b * P - q * (m * b) BY <1>0, <1>4, <2>2
    <3> QED BY <3>1, <3>2
  <2>6. Eq(b * P, 0)
    <3>1. b * P \in Int /\ b * P - 0 = b * P BY <1>0, <1>4
    <3> QED BY <1>4, <3>1, EqIs
  <2>7. Eq(q * (m * b), q * 0)
    <3>1. Eq(q, q) /\ m * b \in Int /\ 0 \in Int BY <1>4, <2>2, EqMod
    <3> QED BY <1>3, <2>2, <3>1, EqProduct
  <2>8. Eq(b * P - q * (m * b), 0 - q * 0)
    <3>1. b * P \in Int /\ q * (m * b) \in Int /\ 0 \in Int /\ q * 0 \in Int BY <1>0, <1>4, <2>2
    <3> QED BY <2>6, <2>7, <3>1, EqSum
  <2>9. 0 - q * 0 = 0 BY <2>2
  <2>10. Eq(r * b, 0) BY <2>5, <2>8, <2>9
  <2>11. r \in Bad BY <2>4, <2>10 DEF Bad
  <2>12. m <= r BY <1>2, <2>11
  <2> QED BY <1>4, <2>4, <2>12
<1> QED BY <1>5, <1>6

\* What is not 0 can be cancelled.
LEMMA Cancel ==
  ASSUME NEW c \in 1..(P - 1), NEW x \in Int, NEW y \in Int, Eq(c * x, c * y)
  PROVE  Eq(x, y)
<1>0. P \in Nat /\ P > 2 /\ c \in Int BY ThresholdScalarsAssumption
<1>1. PICK d : d = mod(x - y) OBVIOUS
<1>2. d \in Scalar /\ d \in Int /\ Eq(d, x - y) /\ Eq(c, c) BY <1>0, <1>1, EqMod
<1>3. Eq(c * d, c * (x - y)) BY <1>0, <1>2, EqProduct
<1>4. Eq(c * x - c * y, 0)
  <2>1. c * x \in Int /\ c * y \in Int BY <1>0
  <2>2. Eq(c * y, c * y) BY <2>1, EqMod
  <2>3. Eq(c * x - c * y, c * y - c * y) BY <2>1, <2>2, EqSum
  <2>4. c * y - c * y = 0 BY <2>1
  <2> QED BY <2>3, <2>4
<1>5. c * x - c * y = c * (x - y) BY <1>0
<1>6. Eq(c * d, 0) BY <1>3, <1>4, <1>5 DEF Eq
<1>7. d = 0
  <2> SUFFICES ASSUME d # 0 PROVE FALSE OBVIOUS
  <2>1. d \in 1..(P - 1) BY <1>0, <1>2 DEF Scalar
  <2> QED BY <1>6, <2>1, Euclid
<1>8. x - y \in Int /\ 0 \in Int BY <1>0
<1>9. Eq(x - y, 0) BY <1>2, <1>7 DEF Eq
<1>10. Eq((x - y) + y, 0 + y)
  <2>1. Eq(y, y) BY EqMod
  <2> QED BY <1>8, <1>9, <2>1, EqSum
<1>11. (x - y) + y = x /\ 0 + y = y OBVIOUS
<1> QED BY <1>10, <1>11

-----------------------------------------------------------------------------
(***************************************************************************)
(* Sums and products over finite sets, as folds in a commutative monoid.   *)
(***************************************************************************)
\* H combines values of V in any order, and b adds nothing.
Monoid(V, b, H) ==
  /\ b \in V /\ H \in [V \X V -> V]
  /\ \A x, y \in V : H[<<x, y>>] = H[<<y, x>>]
  /\ \A x, y, z \in V : H[<<x, H[<<y, z>>]>>] = H[<<H[<<x, y>>], z>>]
  /\ \A x \in V : H[<<b, x>>] = x

\* g is the recursive function that a fold over D evaluates, and Folded its value.
Choice(T) == CHOOSE x \in T : TRUE
Folds(g, f, b, H, D) ==
  g = [T \in SUBSET D |-> IF T = {} THEN b ELSE H[<<f[Choice(T)], g[T \ {Choice(T)}]>>]]
Folded(f, b, H, D) == (CHOOSE g : Folds(g, f, b, H, D))[D]

\* There is such a function.
LEMMA FoldsExist ==
  ASSUME NEW V, NEW b, NEW H, Monoid(V, b, H),
         NEW S, IsFiniteSet(S), NEW f, \A x \in S : f[x] \in V
  PROVE  \E g : g \in [SUBSET S -> V] /\ Folds(g, f, b, H, S)
<1> DEFINE c == [T \in SUBSET S |-> Choice(T)]
           K == [p \in S \X V |-> H[<<f[p[1]], p[2]>>]]
<1>0. b \in V /\ H \in [V \X V -> V] BY DEF Monoid
<1>1. \A T \in SUBSET S : T # {} => c[T] \in T BY DEF Choice
<1>2. K \in [S \X V -> V] BY <1>0
<1> HIDE DEF c, K
<1>3. PICK g \in [SUBSET S -> V] : Recursion(g, S, b, c, K) BY <1>0, <1>1, <1>2, RecursionExists
<1>4. ASSUME NEW T \in SUBSET S
      PROVE  g[T] = IF T = {} THEN b ELSE H[<<f[Choice(T)], g[T \ {Choice(T)}]>>]
  <2>1. CASE T = {} BY <1>3, <2>1 DEF Recursion
  <2>2. CASE T # {}
    <3>1. c[T] = Choice(T) /\ c[T] \in S BY <1>1, <2>2 DEF c
    <3>2. g[T] = K[<<c[T], g[T \ {c[T]}]>>] BY <1>3, <2>2 DEF Recursion
    <3>3. T \ {c[T]} \in SUBSET S OBVIOUS
    <3>4. g[T \ {c[T]}] \in V BY <3>3
    <3> HIDE DEF Choice
    <3> QED BY <3>1, <3>2, <3>4, <2>2 DEF K
  <2> QED BY <2>1, <2>2
<1>5. g = [T \in SUBSET S |-> IF T = {} THEN b ELSE H[<<f[Choice(T)], g[T \ {Choice(T)}]>>]]
  BY <1>4
<1> QED BY <1>5 DEF Folds

\* Two of them agree on the smaller set, also when they fold other functions that
\* agree there.
LEMMA FoldsUnique ==
  ASSUME NEW b, NEW H, NEW S, IsFiniteSet(S), NEW T \in SUBSET S, NEW f, NEW e,
         \A x \in T : f[x] = e[x],
         NEW g, NEW h, Folds(g, f, b, H, S), Folds(h, e, b, H, T)
  PROVE  \A U \in SUBSET T : g[U] = h[U]
<1> DEFINE Bad == {U \in SUBSET T : g[U] # h[U]}
<1> SUFFICES ASSUME Bad # {} PROVE FALSE OBVIOUS
<1>1. Bad \subseteq SUBSET S OBVIOUS
<1> HIDE DEF Bad
<1>2. PICK U \in Bad : \A X \in Bad : ~ (X \subseteq U /\ X # U) BY <1>1, FiniteMin
<1>3. U \in SUBSET T /\ U \in SUBSET S /\ g[U] # h[U] BY DEF Bad
<1>4. CASE U = {} BY <1>3, <1>4 DEF Folds
<1>5. CASE U # {}
  <2>1. Choice(U) \in U BY <1>5 DEF Choice
  <2> DEFINE W == U \ {Choice(U)}
  <2>2. W \subseteq U /\ W # U /\ W \in SUBSET T BY <2>1, <1>3
  <2>3. g[W] = h[W] BY <1>2, <2>2 DEF Bad
  <2>4. g[U] = H[<<f[Choice(U)], g[W]>>] BY <1>3, <1>5 DEF Folds
  <2>5. h[U] = H[<<e[Choice(U)], h[W]>>] BY <1>3, <1>5 DEF Folds
  <2>6. f[Choice(U)] = e[Choice(U)] BY <1>3, <2>1
  <2> QED BY <1>3, <2>3, <2>4, <2>5, <2>6
<1> QED BY <1>4, <1>5

\* The fold over a part is what a function for the whole says.
LEMMA FoldIs ==
  ASSUME NEW V, NEW b, NEW H, Monoid(V, b, H),
         NEW S, IsFiniteSet(S), NEW f, NEW e, \A x \in S : f[x] \in V,
         NEW g, Folds(g, f, b, H, S), NEW T \in SUBSET S, \A x \in T : e[x] = f[x]
  PROVE  Folded(e, b, H, T) = g[T]
<1>1. IsFiniteSet(T) /\ \A x \in T : e[x] \in V BY FS_Subset
<1>2. \E h : h \in [SUBSET T -> V] /\ Folds(h, e, b, H, T) BY ONLY <1>1, Monoid(V, b, H), FoldsExist
<1> DEFINE h == CHOOSE h : Folds(h, e, b, H, T)
<1>3. Folds(h, e, b, H, T) BY <1>2
<1>4. Folded(e, b, H, T) = h[T] BY DEF Folded
<1> HIDE DEF h
<1>5. \A x \in T : f[x] = e[x] OBVIOUS
<1>6. \A U \in SUBSET T : g[U] = h[U]
  BY ONLY IsFiniteSet(S), T \in SUBSET S, Folds(g, f, b, H, S), <1>3, <1>5, FoldsUnique
<1> QED BY <1>4, <1>6

\* A fold is a value, and that of nothing is b.
LEMMA FoldType ==
  ASSUME NEW V, NEW b, NEW H, Monoid(V, b, H),
         NEW S, IsFiniteSet(S), NEW f, \A x \in S : f[x] \in V
  PROVE  Folded(f, b, H, S) \in V /\ Folded(f, b, H, {}) = b
<1>1. PICK g : g \in [SUBSET S -> V] /\ Folds(g, f, b, H, S) BY FoldsExist
<1>2. S \in SUBSET S /\ {} \in SUBSET S /\ \A x \in S : f[x] = f[x] OBVIOUS
<1>3. Folded(f, b, H, S) = g[S] BY <1>1, <1>2, FoldIs
<1>4. Folded(f, b, H, {}) = g[{}] BY <1>1, <1>2, FoldIs
<1>5. g[{}] = b BY <1>1 DEF Folds
<1> QED BY <1>1, <1>3, <1>4, <1>5

\* Any element may be taken out first.
LEMMA FoldRemove ==
  ASSUME NEW V, NEW b, NEW H, Monoid(V, b, H),
         NEW S, IsFiniteSet(S), NEW f, \A x \in S : f[x] \in V, NEW x \in S
  PROVE  /\ Folded(f, b, H, S \ {x}) \in V /\ f[x] \in V
         /\ Folded(f, b, H, S) = H[<<f[x], Folded(f, b, H, S \ {x})>>]
<1>0. /\ H \in [V \X V -> V]
      /\ \A u, v \in V : H[<<u, v>>] = H[<<v, u>>]
      /\ \A u, v, w \in V : H[<<u, H[<<v, w>>]>>] = H[<<H[<<u, v>>], w>>]
  BY DEF Monoid
<1>1. PICK g : g \in [SUBSET S -> V] /\ Folds(g, f, b, H, S) BY FoldsExist
<1> DEFINE Bad == {T \in SUBSET S : \E y \in T : g[T] # H[<<f[y], g[T \ {y}]>>]}
<1>2. Bad = {}
  <2> SUFFICES ASSUME Bad # {} PROVE FALSE OBVIOUS
  <2>1. Bad \subseteq SUBSET S OBVIOUS
  <2> HIDE DEF Bad
  <2>2. PICK T \in Bad : \A X \in Bad : ~ (X \subseteq T /\ X # T) BY <2>1, FiniteMin
  <2>3. T \in SUBSET S BY DEF Bad
  <2>4. PICK y \in T : g[T] # H[<<f[y], g[T \ {y}]>>] BY DEF Bad
  <2> DEFINE z == Choice(T)
  <2>5. z \in T BY <2>4 DEF Choice
  <2>6. g[T] = H[<<f[z], g[T \ {z}]>>] BY <1>1, <2>3, <2>5 DEF Folds
  <2>7. y # z BY <2>4, <2>6
  <2> HIDE DEF z
  <2>8. \A X \in SUBSET T : X # T => \A w \in X : g[X] = H[<<f[w], g[X \ {w}]>>]
    BY <2>2, <2>3 DEF Bad
  <2> DEFINE Y == T \ {y}
             Z == T \ {z}
             W == T \ {y, z}
  <2>9. g[Z] = H[<<f[y], g[Z \ {y}]>>] BY <2>8, <2>7, <2>5
  <2>10. g[Y] = H[<<f[z], g[Y \ {z}]>>] BY <2>8, <2>7, <2>5
  <2>11. Z \ {y} = W /\ Y \ {z} = W OBVIOUS
  <2>12. g[W] \in V BY <1>1, <2>3
  <2>13. f[y] \in V /\ f[z] \in V BY <2>3, <2>5
  <2>14. g[Z] = H[<<f[y], g[W]>>] /\ g[Y] = H[<<f[z], g[W]>>] BY <2>9, <2>10, <2>11
  <2>15. g[T] = H[<<f[z], g[Z]>>] /\ g[T] # H[<<f[y], g[Y]>>] BY <2>4, <2>6
  <2> HIDE DEF W, Y, Z
  <2>16. H[<<f[z], H[<<f[y], g[W]>>]>>] = H[<<H[<<f[z], f[y]>>], g[W]>>] BY <1>0, <2>12, <2>13
  <2>17. H[<<f[y], H[<<f[z], g[W]>>]>>] = H[<<H[<<f[y], f[z]>>], g[W]>>] BY <1>0, <2>12, <2>13
  <2>18. H[<<f[z], f[y]>>] = H[<<f[y], f[z]>>] BY <1>0, <2>13
  <2> QED BY <2>14, <2>15, <2>16, <2>17, <2>18
<1>3. g[S] = H[<<f[x], g[S \ {x}]>>] BY <1>2
<1>4. S \in SUBSET S /\ S \ {x} \in SUBSET S /\ \A y \in S : f[y] = f[y] OBVIOUS
<1>5. Folded(f, b, H, S) = g[S] /\ Folded(f, b, H, S \ {x}) = g[S \ {x}] BY <1>1, <1>4, FoldIs
<1>6. g[S \ {x}] \in V /\ f[x] \in V BY <1>1, <1>4
<1> HIDE DEF Bad
<1> QED BY ONLY <1>3, <1>5, <1>6

\* Combining value by value, or what both fold to.
LEMMA FoldBoth ==
  ASSUME NEW V, NEW b, NEW H, Monoid(V, b, H), NEW S, IsFiniteSet(S), NEW f, NEW e, NEW d,
         \A x \in S : f[x] \in V /\ e[x] \in V /\ d[x] = H[<<f[x], e[x]>>]
  PROVE  Folded(d, b, H, S) = H[<<Folded(f, b, H, S), Folded(e, b, H, S)>>]
<1>0. /\ b \in V /\ H \in [V \X V -> V] /\ H[<<b, b>>] = b
      /\ \A u, v \in V : H[<<u, v>>] = H[<<v, u>>]
      /\ \A u, v, w \in V : H[<<u, H[<<v, w>>]>>] = H[<<H[<<u, v>>], w>>]
  BY DEF Monoid
<1>1. \A x \in S : f[x] \in V /\ e[x] \in V /\ d[x] \in V BY <1>0
<1> DEFINE Bad == {T \in SUBSET S :
                     Folded(d, b, H, T) # H[<<Folded(f, b, H, T), Folded(e, b, H, T)>>]}
<1> SUFFICES ASSUME Bad # {} PROVE FALSE OBVIOUS
<1>2. Bad \subseteq SUBSET S OBVIOUS
<1> HIDE DEF Bad
<1>3. PICK T \in Bad : \A X \in Bad : ~ (X \subseteq T /\ X # T) BY <1>2, FiniteMin
<1>4. /\ T \in SUBSET S
      /\ Folded(d, b, H, T) # H[<<Folded(f, b, H, T), Folded(e, b, H, T)>>]
  BY DEF Bad
<1>5. IsFiniteSet(T) /\ \A x \in T : f[x] \in V /\ e[x] \in V /\ d[x] \in V BY <1>1, <1>4, FS_Subset
<1>6. CASE T = {}
  <2>1. Folded(d, b, H, {}) = b /\ Folded(f, b, H, {}) = b /\ Folded(e, b, H, {}) = b
    BY <1>5, FoldType
  <2> QED BY <1>0, <1>4, <1>6, <2>1
<1>7. CASE T # {}
  <2>1. PICK x \in T : TRUE BY <1>7
  <2>2. PICK W : W = T \ {x} OBVIOUS
  <2>3. W \in SUBSET S /\ W \subseteq T /\ W # T BY <1>4, <2>1, <2>2
  <2>4. Folded(d, b, H, W) = H[<<Folded(f, b, H, W), Folded(e, b, H, W)>>] BY <1>3, <2>3 DEF Bad
  <2>5. Folded(f, b, H, W) \in V /\ Folded(f, b, H, T) = H[<<f[x], Folded(f, b, H, W)>>]
    BY <1>5, <2>1, <2>2, FoldRemove
  <2>6. Folded(e, b, H, W) \in V /\ Folded(e, b, H, T) = H[<<e[x], Folded(e, b, H, W)>>]
    BY <1>5, <2>1, <2>2, FoldRemove
  <2>7. Folded(d, b, H, W) \in V /\ Folded(d, b, H, T) = H[<<d[x], Folded(d, b, H, W)>>]
    BY <1>5, <2>1, <2>2, FoldRemove
  <2> DEFINE F == Folded(f, b, H, W)
             E == Folded(e, b, H, W)
             D == Folded(d, b, H, W)
             u == f[x]
             v == e[x]
  <2>8. u \in V /\ v \in V /\ F \in V /\ E \in V /\ D \in V BY <1>5, <2>1, <2>5, <2>6, <2>7
  <2>9. d[x] = H[<<u, v>>] BY <1>4, <2>1
  <2>10. /\ Folded(f, b, H, T) = H[<<u, F>>] /\ Folded(e, b, H, T) = H[<<v, E>>]
         /\ Folded(d, b, H, T) = H[<<H[<<u, v>>], H[<<F, E>>]>>]
    BY <2>4, <2>5, <2>6, <2>7, <2>9
  <2> HIDE DEF F, E, D, u, v
  <2>11. H[<<v, E>>] \in V /\ H[<<F, E>>] \in V /\ H[<<v, F>>] \in V BY <1>0, <2>8
  <2>12. H[<<H[<<u, F>>], H[<<v, E>>]>>] = H[<<u, H[<<F, H[<<v, E>>]>>]>>] BY <1>0, <2>8, <2>11
  <2>13. H[<<F, H[<<v, E>>]>>] = H[<<H[<<F, v>>], E>>] BY <1>0, <2>8
  <2>14. H[<<F, v>>] = H[<<v, F>>] BY <1>0, <2>8
  <2>15. H[<<H[<<v, F>>], E>>] = H[<<v, H[<<F, E>>]>>] BY <1>0, <2>8
  <2>16. H[<<u, H[<<v, H[<<F, E>>]>>]>>] = H[<<H[<<u, v>>], H[<<F, E>>]>>] BY <1>0, <2>8, <2>11
  <2>17. H[<<H[<<u, F>>], H[<<v, E>>]>>] = H[<<H[<<u, v>>], H[<<F, E>>]>>]
    BY <2>12, <2>13, <2>14, <2>15, <2>16
  <2> QED BY <1>4, <2>10, <2>17
<1> QED BY <1>6, <1>7

\* The values of a function on a finite set are finitely many, and as many as the set
\* has elements when no two have the same.
LEMMA ImageFinite ==
  ASSUME NEW S, IsFiniteSet(S), NEW c
  PROVE  /\ IsFiniteSet({c[x] : x \in S})
         /\ (\A x, y \in S : c[x] = c[y] => x = y) => Cardinality({c[x] : x \in S}) = Cardinality(S)
<1> DEFINE T == {c[x] : x \in S}
           f == [x \in S |-> c[x]]
<1>1. f \in Surjection(S, T) BY DEF Surjection
<1>2. (\A x, y \in S : c[x] = c[y] => x = y) => f \in Injection(S, T)
  <2> SUFFICES ASSUME \A x, y \in S : c[x] = c[y] => x = y PROVE f \in Injection(S, T) OBVIOUS
  <2>1. f \in [S -> T] OBVIOUS
  <2>2. \A x, y \in S : f[x] = f[y] => x = y OBVIOUS
  <2> HIDE DEF f, T
  <2> QED BY <2>1, <2>2 DEF Injection, IsInjective
<1> HIDE DEF f, T
<1>3. IsFiniteSet(T) /\ (Cardinality(T) = Cardinality(S) <=> f \in Injection(S, T))
  BY <1>1, FS_Surjection
<1> QED BY <1>2, <1>3 DEF T

\* Folding over other names of the same.
LEMMA FoldOnto ==
  ASSUME NEW V, NEW b, NEW H, Monoid(V, b, H), NEW S, IsFiniteSet(S), NEW c, NEW f, NEW e,
         \A x, y \in S : c[x] = c[y] => x = y,
         \A x \in S : f[c[x]] \in V /\ e[x] = f[c[x]]
  PROVE  Folded(e, b, H, S) = Folded(f, b, H, {c[x] : x \in S})
<1> DEFINE Im(T) == {c[x] : x \in T}
           Bad == {T \in SUBSET S : Folded(e, b, H, T) # Folded(f, b, H, Im(T))}
<1> SUFFICES ASSUME Bad # {} PROVE FALSE OBVIOUS
<1>2. Bad \subseteq SUBSET S OBVIOUS
<1> HIDE DEF Bad
<1>3. PICK T \in Bad : \A X \in Bad : ~ (X \subseteq T /\ X # T) BY <1>2, FiniteMin
<1>4. T \in SUBSET S /\ Folded(e, b, H, T) # Folded(f, b, H, Im(T)) BY DEF Bad
<1>5. IsFiniteSet(T) /\ \A x \in T : e[x] \in V BY <1>4, FS_Subset
<1>6. IsFiniteSet(Im(T)) /\ \A y \in Im(T) : f[y] \in V
  <2>1. IsFiniteSet(Im(T)) BY <1>5, ImageFinite
  <2> QED BY <1>4, <2>1
<1>7. CASE T = {}
  <2>1. Im(T) = {} BY <1>7
  <2>2. Folded(e, b, H, {}) = b BY <1>5, FoldType
  <2>3. Folded(f, b, H, {}) = b BY <1>6, FoldType
  <2> QED BY <1>4, <1>7, <2>1, <2>2, <2>3
<1>8. CASE T # {}
  <2>1. PICK x \in T : TRUE BY <1>8
  <2>2. PICK W : W = T \ {x} OBVIOUS
  <2>3. W \in SUBSET S /\ W \subseteq T /\ W # T BY <1>4, <2>1, <2>2
  <2>4. Folded(e, b, H, W) = Folded(f, b, H, Im(W)) BY <1>3, <2>3 DEF Bad
  <2>5. Folded(e, b, H, T) = H[<<e[x], Folded(e, b, H, W)>>] BY <1>5, <2>1, <2>2, FoldRemove
  <2>6. c[x] \in Im(T) BY <2>1
  <2>7. Folded(f, b, H, Im(T)) = H[<<f[c[x]], Folded(f, b, H, Im(T) \ {c[x]})>>]
    BY <1>6, <2>6, FoldRemove
  <2>8. Im(T) \ {c[x]} = Im(W) BY <1>4, <2>1, <2>2
  <2>9. e[x] = f[c[x]] BY <1>4, <2>1
  <2> QED BY <1>4, <2>4, <2>5, <2>7, <2>8, <2>9
<1> QED BY <1>7, <1>8

-----------------------------------------------------------------------------
(***************************************************************************)
(* The code's sums of integers and products of scalars are such folds.     *)
(***************************************************************************)
\* Addition of integers, and multiplication of scalars.
Plus == [p \in Int \X Int |-> p[1] + p[2]]
Times == [p \in Scalar \X Scalar |-> mod(p[1] * p[2])]
SumOf(f, S) == Folded(f, 0, Plus, S)
ProductOf(f, S) == Folded(f, 1, Times, S)

\* Integers are a monoid under addition.
LEMMA PlusMonoid == Monoid(Int, 0, Plus)
<1>1. \A x, y \in Int : Plus[<<x, y>>] = x + y BY DEF Plus
<1>2. Plus \in [Int \X Int -> Int] BY DEF Plus
<1>3. ASSUME NEW x \in Int, NEW y \in Int PROVE Plus[<<x, y>>] = Plus[<<y, x>>]
  <2>1. x + y = y + x OBVIOUS
  <2> QED BY <1>1, <2>1
<1>4. ASSUME NEW x \in Int, NEW y \in Int, NEW z \in Int
      PROVE  Plus[<<x, Plus[<<y, z>>]>>] = Plus[<<Plus[<<x, y>>], z>>]
  <2>1. Plus[<<y, z>>] = y + z /\ Plus[<<x, y>>] = x + y /\ y + z \in Int /\ x + y \in Int BY <1>1
  <2>2. Plus[<<x, y + z>>] = x + (y + z) /\ Plus[<<x + y, z>>] = (x + y) + z BY <1>1, <2>1
  <2> QED BY <2>1, <2>2
<1>5. \A x \in Int : Plus[<<0, x>>] = x BY <1>1
<1>6. 0 \in Int OBVIOUS
<1> QED BY <1>2, <1>3, <1>4, <1>5, <1>6 DEF Monoid

\* Scalars are one under multiplication.
LEMMA TimesMonoid == Monoid(Scalar, 1, Times)
<1>0. P \in Nat /\ P > 2 BY ThresholdScalarsAssumption
<1>1. \A x, y \in Scalar : Times[<<x, y>>] = mod(x * y) BY DEF Times
<1>2. \A x, y \in Scalar : x \in Int /\ y \in Int /\ x * y \in Int /\ mod(x * y) \in Scalar
  <2> SUFFICES ASSUME NEW x \in Scalar, NEW y \in Scalar
               PROVE  x \in Int /\ y \in Int /\ x * y \in Int /\ mod(x * y) \in Scalar
    OBVIOUS
  <2>1. x \in Int /\ y \in Int BY ModScalar
  <2>2. x * y \in Int BY <2>1
  <2> QED BY <2>1, <2>2, EqMod
<1>3. Times \in [Scalar \X Scalar -> Scalar] BY <1>2 DEF Times
<1>4. ASSUME NEW x \in Scalar, NEW y \in Scalar PROVE Times[<<x, y>>] = Times[<<y, x>>]
  <2>1. x * y = y * x BY <1>2
  <2> QED BY <1>1, <2>1
<1>5. ASSUME NEW x \in Scalar, NEW y \in Scalar, NEW z \in Scalar
      PROVE  Times[<<x, Times[<<y, z>>]>>] = Times[<<Times[<<x, y>>], z>>]
  <2>1. PICK u : u = mod(y * z) OBVIOUS
  <2>2. PICK v : v = mod(x * y) OBVIOUS
  <2>3. x \in Int /\ y \in Int /\ z \in Int /\ y * z \in Int /\ x * y \in Int BY <1>2
  <2>4. u \in Scalar /\ v \in Scalar /\ u \in Int /\ v \in Int /\ Eq(u, y * z) /\ Eq(v, x * y)
    BY <2>1, <2>2, <2>3, EqMod
  <2>5. Times[<<x, Times[<<y, z>>]>>] = mod(x * u) /\ Times[<<Times[<<x, y>>], z>>] = mod(v * z)
    BY <1>1, <2>1, <2>2, <2>4
  <2>6. Eq(x, x) /\ Eq(z, z) BY <2>3, EqMod
  <2>7. Eq(x * u, x * (y * z)) BY <2>3, <2>4, <2>6, EqProduct
  <2>8. Eq(v * z, (x * y) * z) BY <2>3, <2>4, <2>6, EqProduct
  <2>9. x * (y * z) = (x * y) * z BY <2>3
  <2> QED BY <2>5, <2>7, <2>8, <2>9 DEF Eq
<1>6. ASSUME NEW x \in Scalar PROVE Times[<<1, x>>] = x
  <2>1. x \in Int /\ mod(x) = x BY ModScalar
  <2>2. 1 * x = x BY <2>1
  <2>3. 1 \in Scalar BY <1>0 DEF Scalar
  <2> QED BY <1>1, <2>1, <2>2, <2>3
<1>7. 1 \in Scalar BY <1>0 DEF Scalar
<1> QED BY <1>3, <1>4, <1>5, <1>6, <1>7 DEF Monoid

\* g is the recursive function that MapThenSumSet evaluates.
Sums(g, f, D) == g = [T \in SUBSET D |-> IF T = {} THEN 0 ELSE f[Choice(T)] + g[T \ {Choice(T)}]]

\* There is one, and its value is the sum.
LEMMA SumsAre ==
  ASSUME NEW S, IsFiniteSet(S), NEW f, \A x \in S : f[x] \in Int
  PROVE  (\E g : Sums(g, f, S)) /\ \A g : Sums(g, f, S) => g[S] = SumOf(f, S)
<1>1. PICK h : h \in [SUBSET S -> Int] /\ Folds(h, f, 0, Plus, S) BY PlusMonoid, FoldsExist
<1>2. ASSUME NEW T \in SUBSET S, T # {}
      PROVE  Choice(T) \in T /\ h[T] = f[Choice(T)] + h[T \ {Choice(T)}]
  <2>1. Choice(T) \in T BY <1>2 DEF Choice
  <2>2. T \ {Choice(T)} \in SUBSET S OBVIOUS
  <2>3. h[T \ {Choice(T)}] \in Int /\ f[Choice(T)] \in Int BY <1>1, <2>1, <2>2
  <2>4. h[T] = Plus[<<f[Choice(T)], h[T \ {Choice(T)}]>>] BY <1>1, <1>2 DEF Folds
  <2> HIDE DEF Choice
  <2> QED BY <2>1, <2>3, <2>4 DEF Plus
<1>3. h[{}] = 0 BY <1>1 DEF Folds
<1>4. Sums(h, f, S)
  <2>1. \A T \in SUBSET S : h[T] = IF T = {} THEN 0 ELSE f[Choice(T)] + h[T \ {Choice(T)}]
    BY <1>2, <1>3
  <2>2. h = [T \in SUBSET S |-> IF T = {} THEN 0 ELSE f[Choice(T)] + h[T \ {Choice(T)}]]
    BY <1>1, <2>1
  <2> QED BY <2>2 DEF Sums
<1>5. ASSUME NEW g, Sums(g, f, S) PROVE g[S] = h[S]
  <2> DEFINE Bad == {U \in SUBSET S : g[U] # h[U]}
  <2> SUFFICES ASSUME Bad # {} PROVE FALSE OBVIOUS
  <2>1. Bad \subseteq SUBSET S OBVIOUS
  <2> HIDE DEF Bad
  <2>2. PICK U \in Bad : \A X \in Bad : ~ (X \subseteq U /\ X # U) BY <2>1, FiniteMin
  <2>3. U \in SUBSET S /\ g[U] # h[U] BY DEF Bad
  <2>4. CASE U = {} BY <1>3, <1>5, <2>3, <2>4 DEF Sums
  <2>5. CASE U # {}
    <3>1. Choice(U) \in U /\ h[U] = f[Choice(U)] + h[U \ {Choice(U)}] BY <1>2, <2>3, <2>5
    <3>2. PICK W : W = U \ {Choice(U)} OBVIOUS
    <3>3. W \in SUBSET S /\ W \subseteq U /\ W # U BY <2>3, <3>1, <3>2
    <3>4. g[W] = h[W] BY <2>2, <3>3 DEF Bad
    <3>5. g[U] = f[Choice(U)] + g[W] BY <1>5, <2>3, <2>5, <3>2 DEF Sums
    <3> QED BY <2>3, <3>1, <3>2, <3>4, <3>5
  <2> QED BY <2>4, <2>5
<1>6. SumOf(f, S) = h[S]
  <2>1. S \in SUBSET S /\ \A x \in S : f[x] = f[x] OBVIOUS
  <2>2. Folded(f, 0, Plus, S) = h[S] BY <1>1, <2>1, PlusMonoid, FoldIs
  <2> QED BY <2>2 DEF SumOf
<1> QED BY <1>4, <1>5, <1>6

\* g is the recursive function that a product evaluates.
Products(g, f, D) ==
  g = [T \in SUBSET D |-> IF T = {} THEN 1 ELSE mod(f[Choice(T)] * g[T \ {Choice(T)}])]

\* There is one, and its value is the product.
LEMMA ProductsAre ==
  ASSUME NEW S, IsFiniteSet(S), NEW f, \A x \in S : f[x] \in Scalar
  PROVE  (\E g : Products(g, f, S)) /\ \A g : Products(g, f, S) => g[S] = ProductOf(f, S)
<1>1. PICK h : h \in [SUBSET S -> Scalar] /\ Folds(h, f, 1, Times, S) BY TimesMonoid, FoldsExist
<1>2. ASSUME NEW T \in SUBSET S, T # {}
      PROVE  Choice(T) \in T /\ h[T] = mod(f[Choice(T)] * h[T \ {Choice(T)}])
  <2>1. Choice(T) \in T BY <1>2 DEF Choice
  <2>2. T \ {Choice(T)} \in SUBSET S OBVIOUS
  <2>3. h[T \ {Choice(T)}] \in Scalar /\ f[Choice(T)] \in Scalar BY <1>1, <2>1, <2>2
  <2>4. h[T] = Times[<<f[Choice(T)], h[T \ {Choice(T)}]>>] BY <1>1, <1>2 DEF Folds
  <2> HIDE DEF Choice
  <2> QED BY <2>1, <2>3, <2>4 DEF Times
<1>3. h[{}] = 1 BY <1>1 DEF Folds
<1>4. Products(h, f, S)
  <2>1. \A T \in SUBSET S : h[T] = IF T = {} THEN 1 ELSE mod(f[Choice(T)] * h[T \ {Choice(T)}])
    BY <1>2, <1>3
  <2>2. h = [T \in SUBSET S |-> IF T = {} THEN 1 ELSE mod(f[Choice(T)] * h[T \ {Choice(T)}])]
    BY <1>1, <2>1
  <2> QED BY <2>2 DEF Products
<1>5. ASSUME NEW g, Products(g, f, S) PROVE g[S] = h[S]
  <2> DEFINE Bad == {U \in SUBSET S : g[U] # h[U]}
  <2> SUFFICES ASSUME Bad # {} PROVE FALSE OBVIOUS
  <2>1. Bad \subseteq SUBSET S OBVIOUS
  <2> HIDE DEF Bad
  <2>2. PICK U \in Bad : \A X \in Bad : ~ (X \subseteq U /\ X # U) BY <2>1, FiniteMin
  <2>3. U \in SUBSET S /\ g[U] # h[U] BY DEF Bad
  <2>4. CASE U = {} BY <1>3, <1>5, <2>3, <2>4 DEF Products
  <2>5. CASE U # {}
    <3>1. Choice(U) \in U /\ h[U] = mod(f[Choice(U)] * h[U \ {Choice(U)}]) BY <1>2, <2>3, <2>5
    <3>2. PICK W : W = U \ {Choice(U)} OBVIOUS
    <3>3. W \in SUBSET S /\ W \subseteq U /\ W # U BY <2>3, <3>1, <3>2
    <3>4. g[W] = h[W] BY <2>2, <3>3 DEF Bad
    <3>5. g[U] = mod(f[Choice(U)] * g[W]) BY <1>5, <2>3, <2>5, <3>2 DEF Products
    <3> QED BY <2>3, <3>1, <3>2, <3>4, <3>5
  <2> QED BY <2>4, <2>5
<1>6. ProductOf(f, S) = h[S]
  <2>1. S \in SUBSET S /\ \A x \in S : f[x] = f[x] OBVIOUS
  <2>2. Folded(f, 1, Times, S) = h[S] BY <1>1, <2>1, TimesMonoid, FoldIs
  <2> QED BY <2>2 DEF ProductOf
<1> QED BY <1>4, <1>5, <1>6

\* Sums one element at a time, and term by term.
LEMMA SumRemove ==
  ASSUME NEW S, IsFiniteSet(S), NEW f, \A x \in S : f[x] \in Int
  PROVE  /\ SumOf(f, S) \in Int /\ SumOf(f, {}) = 0
         /\ \A x \in S : SumOf(f, S \ {x}) \in Int /\ SumOf(f, S) = f[x] + SumOf(f, S \ {x})
<1>1. SumOf(f, S) \in Int /\ SumOf(f, {}) = 0 BY PlusMonoid, FoldType DEF SumOf
<1>2. ASSUME NEW x \in S PROVE SumOf(f, S \ {x}) \in Int /\ SumOf(f, S) = f[x] + SumOf(f, S \ {x})
  <2>1. /\ SumOf(f, S \ {x}) \in Int /\ f[x] \in Int
        /\ SumOf(f, S) = Plus[<<f[x], SumOf(f, S \ {x})>>]
    BY PlusMonoid, FoldRemove DEF SumOf
  <2> QED BY <2>1 DEF Plus
<1> QED BY <1>1, <1>2

\* The sum of sums.
LEMMA SumBoth ==
  ASSUME NEW S, IsFiniteSet(S), NEW f, NEW e, NEW d,
         \A x \in S : f[x] \in Int /\ e[x] \in Int /\ d[x] = f[x] + e[x]
  PROVE  SumOf(d, S) = SumOf(f, S) + SumOf(e, S)
<1>1. \A x \in S : f[x] \in Int /\ e[x] \in Int /\ d[x] = Plus[<<f[x], e[x]>>] BY DEF Plus
<1>2. SumOf(d, S) = Plus[<<SumOf(f, S), SumOf(e, S)>>] BY <1>1, PlusMonoid, FoldBoth DEF SumOf
<1>3. SumOf(f, S) \in Int /\ SumOf(e, S) \in Int BY SumRemove
<1> QED BY <1>2, <1>3 DEF Plus

\* A product one element at a time.
LEMMA ProductRemove ==
  ASSUME NEW S, IsFiniteSet(S), NEW f, \A x \in S : f[x] \in Scalar
  PROVE  /\ ProductOf(f, S) \in Scalar /\ ProductOf(f, {}) = 1
         /\ \A x \in S : /\ ProductOf(f, S \ {x}) \in Scalar
                         /\ ProductOf(f, S) = mod(f[x] * ProductOf(f, S \ {x}))
<1>1. ProductOf(f, S) \in Scalar /\ ProductOf(f, {}) = 1 BY TimesMonoid, FoldType DEF ProductOf
<1>2. ASSUME NEW x \in S
      PROVE  ProductOf(f, S \ {x}) \in Scalar /\ ProductOf(f, S) = mod(f[x] * ProductOf(f, S \ {x}))
  <2>1. /\ ProductOf(f, S \ {x}) \in Scalar /\ f[x] \in Scalar
        /\ ProductOf(f, S) = Times[<<f[x], ProductOf(f, S \ {x})>>]
    BY TimesMonoid, FoldRemove DEF ProductOf
  <2> QED BY <2>1 DEF Times
<1> QED BY <1>1, <1>2

\* A sum of multiples of c is a multiple of the sum, modulo P.
LEMMA SumScale ==
  ASSUME NEW S, IsFiniteSet(S), NEW f, NEW e, NEW c \in Int,
         \A x \in S : f[x] \in Int /\ e[x] \in Int /\ Eq(e[x], c * f[x])
  PROVE  Eq(SumOf(e, S), c * SumOf(f, S))
<1> DEFINE Bad == {T \in SUBSET S : ~ Eq(SumOf(e, T), c * SumOf(f, T))}
<1> SUFFICES ASSUME Bad # {} PROVE FALSE OBVIOUS
<1>1. Bad \subseteq SUBSET S OBVIOUS
<1> HIDE DEF Bad
<1>2. PICK T \in Bad : \A X \in Bad : ~ (X \subseteq T /\ X # T) BY <1>1, FiniteMin
<1>3. T \in SUBSET S /\ ~ Eq(SumOf(e, T), c * SumOf(f, T)) BY DEF Bad
<1>4. IsFiniteSet(T) /\ \A x \in T : f[x] \in Int /\ e[x] \in Int /\ Eq(e[x], c * f[x]) BY <1>3, FS_Subset
<1>5. CASE T = {}
  <2>1. SumOf(e, {}) = 0 /\ SumOf(f, {}) = 0 BY <1>4, SumRemove
  <2>2. c * 0 = 0 OBVIOUS
  <2> QED BY <1>3, <1>5, <2>1, <2>2 DEF Eq
<1>6. CASE T # {}
  <2>1. PICK x \in T : TRUE BY <1>6
  <2>2. PICK W : W = T \ {x} OBVIOUS
  <2>3. W \in SUBSET S /\ W \subseteq T /\ W # T BY <1>3, <2>1, <2>2
  <2>4. Eq(SumOf(e, W), c * SumOf(f, W)) BY <1>2, <2>3 DEF Bad
  <2>5. SumOf(e, W) \in Int /\ SumOf(e, T) = e[x] + SumOf(e, W) BY <1>4, <2>1, <2>2, SumRemove
  <2>6. SumOf(f, W) \in Int /\ SumOf(f, T) = f[x] + SumOf(f, W) BY <1>4, <2>1, <2>2, SumRemove
  <2> DEFINE u == e[x]
             v == f[x]
             F == SumOf(f, W)
             E == SumOf(e, W)
  <2>7. u \in Int /\ v \in Int /\ Eq(u, c * v) /\ F \in Int /\ E \in Int /\ Eq(E, c * F)
    BY <1>4, <2>1, <2>4, <2>5, <2>6
  <2>8. SumOf(e, T) = u + E /\ SumOf(f, T) = v + F BY <2>5, <2>6
  <2> HIDE DEF u, v, F, E
  <2>9. c * v \in Int /\ c * F \in Int BY <2>7
  <2>10. Eq(u + E, c * v + c * F) BY <2>7, <2>9, EqSum
  <2>11. c * v + c * F = c * (v + F) BY <2>7
  <2> QED BY <1>3, <2>8, <2>10, <2>11
<1> QED BY <1>5, <1>6

-----------------------------------------------------------------------------
(***************************************************************************)
(* Powers and inverses.                                                    *)
(***************************************************************************)
\* One step of modPow, and modPow as a function for every exponent.
PowStep(base, exponent, rest) == mod((IF exponent % 2 = 1 THEN base ELSE 1) * rest)
Pows(g) ==
  g = [exponent \in 0..P |-> [base \in Scalar |->
         IF exponent = 0 THEN 1
         ELSE PowStep(base, exponent, g[exponent \div 2][mod(base * base)])]]

\* modPow is chosen to be one.
LEMMA PowUnfolds == modPow = CHOOSE g : Pows(g)
BY DEF modPow, Pows, PowStep

\* A step takes scalars to a scalar.
LEMMA PowStepType ==
  ASSUME NEW b \in Scalar, NEW e, NEW r \in Scalar
  PROVE  PowStep(b, e, r) \in Scalar /\ mod(b * b) \in Scalar
<1>1. b \in Int /\ r \in Int BY ModScalar
<1>2. (IF e % 2 = 1 THEN b ELSE 1) \in Int BY <1>1
<1> DEFINE c == IF e % 2 = 1 THEN b ELSE 1
<1> HIDE DEF c
<1>3. c \in Int BY <1>2 DEF c
<1>4. c * r \in Int /\ b * b \in Int BY <1>1, <1>3
<1>5. mod(c * r) \in Scalar /\ mod(b * b) \in Scalar BY <1>4, EqMod
<1> QED BY <1>5 DEF PowStep, c

\* f is modPow for exponents up to n, by exponent and base.
PowsTo(f, n) ==
  /\ f \in [0..n -> [Scalar -> Scalar]]
  /\ \A e \in 0..n, b \in Scalar :
       f[e][b] = IF e = 0 THEN 1 ELSE PowStep(b, e, f[e \div 2][mod(b * b)])

\* Half of an exponent is a smaller one.
LEMMA Halved ==
  ASSUME NEW e \in Nat, e # 0
  PROVE  e \div 2 \in Nat /\ e \div 2 <= e - 1 /\ (e % 2 = 0 \/ e % 2 = 1)
         /\ e = 2 * (e \div 2) + (e % 2)
OBVIOUS

\* There is one for every n.
LEMMA PowsToExist ==
  ASSUME NEW n \in Nat
  PROVE  \E f : PowsTo(f, n)
<1> DEFINE Bad == {m \in Nat : ~ \E f : PowsTo(f, m)}
<1> SUFFICES ASSUME Bad # {} PROVE FALSE OBVIOUS
<1>0. 1 \in Scalar BY ThresholdScalarsAssumption DEF Scalar
<1>1. Bad \subseteq Nat OBVIOUS
<1> HIDE DEF Bad
<1>2. PICK m \in Bad : \A k \in Bad : m <= k BY <1>1, LeastNat
<1>3. m \in Nat /\ ~ \E f : PowsTo(f, m) BY DEF Bad
<1>4. CASE m = 0
  <2> DEFINE f == [e \in 0..0 |-> [b \in Scalar |-> 1]]
  <2>1. f \in [0..0 -> [Scalar -> Scalar]] BY <1>0
  <2>2. \A e \in 0..0, b \in Scalar : e = 0 /\ f[e][b] = 1 OBVIOUS
  <2> HIDE DEF f
  <2>3. PowsTo(f, 0) BY <2>1, <2>2 DEF PowsTo
  <2> QED BY <1>3, <1>4, <2>3
<1>5. CASE m # 0
  <2>1. m - 1 \in Nat /\ m - 1 \notin Bad BY <1>2, <1>3, <1>5
  <2>2. PICK f : PowsTo(f, m - 1) BY <2>1 DEF Bad
  <2>3. /\ f \in [0..(m - 1) -> [Scalar -> Scalar]]
        /\ \A e \in 0..(m - 1), b \in Scalar :
             f[e][b] = IF e = 0 THEN 1 ELSE PowStep(b, e, f[e \div 2][mod(b * b)])
    BY <2>2 DEF PowsTo
  <2> DEFINE last == [b \in Scalar |-> PowStep(b, m, f[m \div 2][mod(b * b)])]
             h == [e \in 0..m |-> IF e = m THEN last ELSE f[e]]
  <2>4. m \div 2 \in 0..(m - 1) BY <1>3, <1>5, Halved
  <2>5. last \in [Scalar -> Scalar]
    <3>1. ASSUME NEW b \in Scalar PROVE PowStep(b, m, f[m \div 2][mod(b * b)]) \in Scalar
      <4>1. mod(b * b) \in Scalar BY PowStepType
      <4>2. f[m \div 2] \in [Scalar -> Scalar] BY <2>3, <2>4
      <4>3. f[m \div 2][mod(b * b)] \in Scalar BY <4>1, <4>2
      <4> QED BY <4>3, PowStepType
    <3> QED BY <3>1
  <2>6. h \in [0..m -> [Scalar -> Scalar]]
    <3> HIDE DEF last
    <3>1. \A e \in 0..m : e # m => e \in 0..(m - 1) BY <1>3
    <3> QED BY <2>3, <2>5, <3>1
  <2>7. ASSUME NEW e \in 0..m, NEW b \in Scalar
        PROVE  h[e][b] = IF e = 0 THEN 1 ELSE PowStep(b, e, h[e \div 2][mod(b * b)])
    <3>1. CASE e = m
      <4>1. h[e] = last /\ last[b] = PowStep(b, m, f[m \div 2][mod(b * b)]) BY <3>1
      <4>2. h[m \div 2] = f[m \div 2] BY <1>3, <2>4
      <4> QED BY <1>5, <3>1, <4>1, <4>2
    <3>2. CASE e # m
      <4>1. e \in 0..(m - 1) /\ h[e] = f[e] BY <1>3, <3>2
      <4>2. CASE e = 0 BY <2>3, <4>1, <4>2
      <4>3. CASE e # 0
        <5>1. e \in Nat BY <4>1
        <5>2. e \div 2 \in Nat /\ e \div 2 <= e - 1 BY <4>3, <5>1, Halved
        <5>3. e \div 2 \in 0..m /\ e \div 2 # m BY <1>3, <4>1, <5>1, <5>2
        <5>4. h[e \div 2] = f[e \div 2] BY <5>3
        <5> HIDE DEF h
        <5> QED BY <2>3, <4>1, <4>3, <5>4
      <4> QED BY <4>2, <4>3
    <3> QED BY <3>1, <3>2
  <2> HIDE DEF h
  <2>8. PowsTo(h, m) BY <2>6, <2>7 DEF PowsTo
  <2> QED BY <1>3, <2>8
<1> QED BY <1>4, <1>5

\* What modPow computes: a scalar, by squares.
LEMMA PowIs ==
  ASSUME NEW b \in Scalar, NEW e \in 0..P
  PROVE  /\ modPow[e][b] \in Scalar
         /\ modPow[e][b] = IF e = 0 THEN 1 ELSE PowStep(b, e, modPow[e \div 2][mod(b * b)])
<1>0. P \in Nat /\ 1 \in Scalar BY ThresholdScalarsAssumption DEF Scalar
<1>1. PICK f : PowsTo(f, P) BY <1>0, PowsToExist
<1>2. /\ f \in [0..P -> [Scalar -> Scalar]]
      /\ \A x \in 0..P, y \in Scalar :
           f[x][y] = IF x = 0 THEN 1 ELSE PowStep(y, x, f[x \div 2][mod(y * y)])
  BY <1>1 DEF PowsTo
<1>3. \A x \in 0..P :
        f[x] = [y \in Scalar |-> IF x = 0 THEN 1 ELSE PowStep(y, x, f[x \div 2][mod(y * y)])]
  <2> SUFFICES ASSUME NEW x \in 0..P
               PROVE  f[x] = [y \in Scalar |-> IF x = 0 THEN 1
                                              ELSE PowStep(y, x, f[x \div 2][mod(y * y)])]
    OBVIOUS
  <2>1. f[x] \in [Scalar -> Scalar] BY <1>2
  <2>2. \A y \in Scalar : f[x][y] = IF x = 0 THEN 1 ELSE PowStep(y, x, f[x \div 2][mod(y * y)])
    BY <1>2
  <2> QED BY <2>1, <2>2
<1>4. f = [x \in 0..P |-> [y \in Scalar |->
            IF x = 0 THEN 1 ELSE PowStep(y, x, f[x \div 2][mod(y * y)])]]
  BY <1>2, <1>3
<1>5. Pows(f) BY <1>4 DEF Pows
<1>6. Pows(modPow) BY <1>5, PowUnfolds
<1>7. \A x \in 0..P, y \in Scalar :
        modPow[x][y] = IF x = 0 THEN 1 ELSE PowStep(y, x, modPow[x \div 2][mod(y * y)])
  <2> SUFFICES ASSUME NEW x \in 0..P, NEW y \in Scalar
               PROVE  modPow[x][y] = IF x = 0 THEN 1 ELSE PowStep(y, x, modPow[x \div 2][mod(y * y)])
    OBVIOUS
  <2>1. PICK g : g = modPow OBVIOUS
  <2>2. g = [exponent \in 0..P |-> [base \in Scalar |->
               IF exponent = 0 THEN 1
               ELSE PowStep(base, exponent, g[exponent \div 2][mod(base * base)])]]
    BY <1>6, <2>1 DEF Pows
  <2>3. g[x] = [base \in Scalar |-> IF x = 0 THEN 1 ELSE PowStep(base, x, g[x \div 2][mod(base * base)])]
    BY <2>2
  <2>4. g[x][y] = IF x = 0 THEN 1 ELSE PowStep(y, x, g[x \div 2][mod(y * y)]) BY <2>3
  <2> QED BY <2>1, <2>4
<1> DEFINE Bad == {x \in 0..P : \E y \in Scalar : modPow[x][y] \notin Scalar}
<1>8. Bad = {}
  <2> SUFFICES ASSUME Bad # {} PROVE FALSE OBVIOUS
  <2>1. Bad \subseteq Nat BY <1>0
  <2> HIDE DEF Bad
  <2>2. PICK x \in Bad : \A k \in Bad : x <= k BY <2>1, LeastNat
  <2>3. PICK y \in Scalar : x \in 0..P /\ modPow[x][y] \notin Scalar BY DEF Bad
  <2>4. x # 0 BY <1>0, <1>7, <2>3
  <2>5. x \in Nat BY <2>1
  <2>6. x \div 2 \in Nat /\ x \div 2 <= x - 1 BY <2>4, <2>5, Halved
  <2>7. x \div 2 \notin Bad /\ x \div 2 \in 0..P BY <1>0, <2>2, <2>3, <2>5, <2>6
  <2>8. mod(y * y) \in Scalar BY <1>0, PowStepType
  <2>9. modPow[x \div 2][mod(y * y)] \in Scalar BY <2>7, <2>8 DEF Bad
  <2>10. modPow[x][y] = PowStep(y, x, modPow[x \div 2][mod(y * y)]) BY <1>7, <2>3, <2>4
  <2> QED BY <2>3, <2>9, <2>10, PowStepType
<1> QED BY <1>7, <1>8

\* Remainders may be taken of the factors and terms first.
LEMMA ModOf ==
  ASSUME NEW x \in Int, NEW y \in Int
  PROVE  /\ mod(mod(x) * y) = mod(x * y) /\ mod(x * mod(y)) = mod(x * y)
         /\ mod(mod(x) + y) = mod(x + y) /\ mod(x + mod(y)) = mod(x + y)
         /\ mod(-mod(x)) = mod(-x) /\ mod(mod(x)) = mod(x)
<1>1. PICK u : u = mod(x) OBVIOUS
<1>2. PICK v : v = mod(y) OBVIOUS
<1>3. u \in Int /\ Eq(u, x) /\ Eq(x, x) BY <1>1, EqMod
<1>4. v \in Int /\ Eq(v, y) /\ Eq(y, y) BY <1>2, EqMod
<1>5. Eq(u * y, x * y) BY <1>3, <1>4, EqProduct
<1>6. Eq(x * v, x * y) BY <1>3, <1>4, EqProduct
<1>7. Eq(u + y, x + y) BY <1>3, <1>4, EqSum
<1>8. Eq(x + v, x + y) BY <1>3, <1>4, EqSum
<1>9. Eq(-u, -x) BY <1>3, <1>4, EqSum
<1> QED BY <1>1, <1>2, <1>3, <1>5, <1>6, <1>7, <1>8, <1>9 DEF Eq

\* Powers by squares are powers: each is the base times the one before.
LEMMA PowNext ==
  ASSUME NEW b \in Scalar, NEW e \in 0..(P - 1)
  PROVE  modPow[e + 1][b] = mod(b * modPow[e][b])
<1>0. P \in Nat /\ P > 2 BY ThresholdScalarsAssumption
<1> DEFINE Bad == {x \in 0..(P - 1) : \E y \in Scalar : modPow[x + 1][y] # mod(y * modPow[x][y])}
<1>1. Bad = {}
  <2> SUFFICES ASSUME Bad # {} PROVE FALSE OBVIOUS
  <2>1. Bad \subseteq Nat BY <1>0
  <2> HIDE DEF Bad
  <2>2. PICK x \in Bad : \A k \in Bad : x <= k BY <2>1, LeastNat
  <2>3. PICK y \in Scalar : x \in 0..(P - 1) /\ modPow[x + 1][y] # mod(y * modPow[x][y]) BY DEF Bad
  <2>4. PICK w : w = mod(y * y) OBVIOUS
  <2>5. PICK m : m = x \div 2 OBVIOUS
  <2>6. y \in Int /\ y * y \in Int /\ w \in Scalar /\ w \in Int /\ x \in Nat
    <3>1. y \in Int BY ModScalar
    <3>2. y * y \in Int BY <3>1
    <3> QED BY <1>0, <2>3, <2>4, <3>1, <3>2, EqMod
  <2>7. x + 1 \in 0..P /\ x \in 0..P /\ x + 1 # 0 /\ m \in Nat BY <1>0, <2>3, <2>5, <2>6
  <2>8. modPow[x + 1][y] = PowStep(y, x + 1, modPow[(x + 1) \div 2][w]) BY <2>4, <2>7, PowIs
  <2>9. x # 0 => modPow[x][y] = PowStep(y, x, modPow[m][w]) BY <2>4, <2>5, <2>7, PowIs
  <2>10. CASE x % 2 = 0
    <3>1. (x + 1) \div 2 = m /\ (x + 1) % 2 = 1 /\ m \in 0..P
      <4>1. (x + 1) \div 2 = m /\ (x + 1) % 2 = 1 BY ONLY <2>5, <2>6, <2>10
      <4>2. m <= x BY ONLY <2>5, <2>6
      <4> QED BY <1>0, <2>7, <4>1, <4>2
    <3>2. PICK r : r = modPow[m][w] OBVIOUS
    <3>3. r \in Scalar /\ r \in Int /\ mod(r) = r BY <2>6, <3>1, <3>2, PowIs, ModScalar
    <3>4. modPow[x + 1][y] = mod(y * r) BY <2>8, <3>1, <3>2 DEF PowStep
    <3>5. CASE x = 0
      <4>1. m = 0 BY <2>5, <3>5
      <4>2. r = 1 BY <2>6, <3>1, <3>2, <4>1, PowIs
      <4>3. modPow[x][y] = 1 BY <2>7, <3>5, PowIs
      <4> QED BY <2>3, <3>4, <4>2, <4>3
    <3>6. CASE x # 0
      <4>1. modPow[x][y] = mod(1 * r) BY <2>9, <2>10, <3>2, <3>6 DEF PowStep
      <4>2. 1 * r = r BY <3>3
      <4> QED BY <2>3, <3>3, <3>4, <4>1, <4>2
    <3> QED BY <3>5, <3>6
  <2>11. CASE x % 2 # 0
    <3>1. x % 2 = 1 /\ (x + 1) \div 2 = m + 1 /\ (x + 1) % 2 = 0 /\ x # 0 /\ m <= x - 1
      BY <2>5, <2>6, <2>11
    <3>2. m \in 0..(P - 1) /\ m \notin Bad /\ m \in 0..P /\ m + 1 \in 0..P
      BY <1>0, <2>2, <2>3, <2>6, <2>7, <3>1
    <3>3. PICK r : r = modPow[m][w] OBVIOUS
    <3>4. r \in Scalar /\ r \in Int BY <2>6, <3>2, <3>3, PowIs, ModScalar
    <3>5. modPow[m + 1][w] = mod(w * r) BY <2>6, <3>2, <3>3 DEF Bad
    <3>6. modPow[x + 1][y] = mod(1 * mod(w * r)) BY <2>8, <3>1, <3>5 DEF PowStep
    <3>7. modPow[x][y] = mod(y * r) BY <2>9, <3>1, <3>3 DEF PowStep
    <3>8. w * r \in Int /\ y * r \in Int /\ (y * y) * r \in Int BY <2>6, <3>4
    <3>9. 1 * mod(w * r) = mod(w * r) /\ mod(mod(w * r)) = mod(w * r)
      <4>1. mod(w * r) \in Int BY <3>8, EqMod
      <4> QED BY <3>8, <4>1, ModOf
    <3>10. mod(w * r) = mod((y * y) * r) BY <2>4, <2>6, <3>4, ModOf
    <3>11. mod(y * mod(y * r)) = mod(y * (y * r)) BY <2>6, <3>8, ModOf
    <3>12. y * (y * r) = (y * y) * r BY <2>6, <3>4
    <3> QED BY <2>3, <3>6, <3>7, <3>9, <3>10, <3>11, <3>12
  <2> QED BY <2>10, <2>11
<1> QED BY <1>1

\* The scalars that are not 0.
Units == 1..(P - 1)

\* They are finitely many scalars, and multiplication permutes them.
LEMMA UnitsAre ==
  /\ IsFiniteSet(Units) /\ Cardinality(Units) = P - 1 /\ Units \subseteq Scalar
  /\ \A a \in Units : a \in Int /\ mod(a) = a /\ a # 0
<1>0. P \in Nat /\ P > 2 BY ThresholdScalarsAssumption
<1>1. IsFiniteSet(Units) /\ Cardinality(Units) = P - 1
  <2>1. 1 \in Int /\ P - 1 \in Int /\ ~ (1 > P - 1) /\ (P - 1) - 1 + 1 = P - 1 BY <1>0
  <2> QED BY <2>1, FS_Interval DEF Units
<1>2. Units \subseteq Scalar BY <1>0 DEF Units, Scalar
<1>3. \A a \in Units : a # 0 BY <1>0 DEF Units
<1> QED BY <1>1, <1>2, <1>3, ModScalar

\* A product of units is one.
LEMMA UnitProduct ==
  ASSUME NEW a \in Units, NEW b \in Units
  PROVE  mod(a * b) \in Units
<1>1. a \in Int /\ b \in Int BY UnitsAre
<1>2. a * b \in Int BY <1>1
<1>3. mod(a * b) \in Scalar BY <1>2, EqMod
<1>4. mod(a * b) # mod(0) BY Euclid DEF Units, Eq
<1>5. mod(0) = 0
  <2>1. 0 \in Scalar BY ThresholdScalarsAssumption DEF Scalar
  <2> QED BY <2>1, ModScalar
<1> QED BY <1>3, <1>4, <1>5, ThresholdScalarsAssumption DEF Scalar, Units

\* Multiplying the units of T by a multiplies their product by a power of a.
LEMMA UnitsTimes ==
  ASSUME NEW a \in Units, NEW f, NEW e, \A x \in Units : f[x] = x /\ e[x] = mod(a * x), NEW T \in SUBSET Units
  PROVE  /\ ProductOf(f, T) \in Units
         /\ ProductOf(e, T) = mod(modPow[Cardinality(T)][a] * ProductOf(f, T))
<1>0. P \in Nat /\ P > 2 BY ThresholdScalarsAssumption
<1>1. \A x \in Units : x \in Scalar /\ x \in Int /\ e[x] \in Units /\ e[x] \in Scalar /\ f[x] \in Scalar
  BY UnitsAre, UnitProduct
<1> DEFINE Good(U) == /\ ProductOf(f, U) \in Units
                      /\ ProductOf(e, U) = mod(modPow[Cardinality(U)][a] * ProductOf(f, U))
           Bad == {U \in SUBSET Units : ~ Good(U)}
<1> SUFFICES ASSUME Bad # {} PROVE FALSE OBVIOUS
<1>2. Bad \subseteq SUBSET Units /\ IsFiniteSet(Units) BY UnitsAre
<1> HIDE DEF Bad
<1>3. PICK U \in Bad : \A X \in Bad : ~ (X \subseteq U /\ X # U) BY ONLY <1>2, Bad # {}, FiniteMin
<1>4. U \in SUBSET Units /\ ~ Good(U) BY DEF Bad
<1>5. IsFiniteSet(U) /\ Cardinality(U) <= P - 1 /\ Cardinality(U) \in Nat
  <2>1. IsFiniteSet(U) /\ Cardinality(U) <= Cardinality(Units) BY <1>2, <1>4, FS_Subset
  <2> QED BY <2>1, UnitsAre, FS_CardinalityType
<1>6. \A x \in U : f[x] \in Scalar /\ e[x] \in Scalar BY <1>1, <1>4
<1>7. CASE U = {}
  <2>1. ProductOf(f, {}) = 1 /\ ProductOf(e, {}) = 1 BY <1>5, <1>6, ProductRemove
  <2>2. Cardinality({}) = 0 BY FS_EmptySet
  <2>3. 0 \in 0..P /\ a \in Scalar /\ 1 \in Scalar BY <1>0, <1>1 DEF Scalar
  <2>4. modPow[0][a] = 1 BY <2>3, PowIs
  <2>5. mod(1 * 1) = 1 BY <2>3, ModScalar
  <2>6. 1 \in Units BY <1>0 DEF Units
  <2> QED BY <1>4, <1>7, <2>1, <2>2, <2>4, <2>5, <2>6
<1>8. CASE U # {}
  <2>1. PICK x \in U : TRUE BY <1>8
  <2>2. PICK W : W = U \ {x} OBVIOUS
  <2>3. W \in SUBSET Units /\ W \subseteq U /\ W # U BY <1>4, <2>1, <2>2
  <2>4. Good(W) BY <1>3, <2>3 DEF Bad
  <2>5. ProductOf(f, W) \in Scalar /\ ProductOf(f, U) = mod(f[x] * ProductOf(f, W))
    BY <1>5, <1>6, <2>1, <2>2, ProductRemove
  <2>6. ProductOf(e, W) \in Scalar /\ ProductOf(e, U) = mod(e[x] * ProductOf(e, W))
    BY <1>5, <1>6, <2>1, <2>2, ProductRemove
  <2>7. Cardinality(W) = Cardinality(U) - 1 BY <1>5, <2>1, <2>2, FS_RemoveElement
  <2>8. PICK n : n = Cardinality(W) OBVIOUS
  <2>9. n \in 0..(P - 1) /\ Cardinality(U) = n + 1 /\ n \in 0..P
    <3>1. Cardinality(U) # 0 BY <1>5, <1>8, FS_EmptySet
    <3> QED BY <1>0, <1>5, <2>7, <2>8, <3>1
  <2>10. PICK p : p = modPow[n][a] OBVIOUS
  <2>11. PICK F : F = ProductOf(f, W) OBVIOUS
  <2>12. x \in Units /\ a \in Scalar /\ a \in Int /\ x \in Int /\ f[x] = x /\ e[x] = mod(a * x) BY <1>1, <1>4, <2>1
  <2>13. p \in Scalar /\ p \in Int BY <2>9, <2>10, <2>12, PowIs, ModScalar
  <2>14. F \in Units /\ F \in Int /\ ProductOf(e, W) = mod(p * F) BY <2>4, <2>8, <2>10, <2>11, UnitsAre
  <2>15. modPow[Cardinality(U)][a] = mod(a * p) BY <2>9, <2>10, <2>12, PowNext
  <2>16. ProductOf(f, U) = mod(x * F) BY <2>5, <2>11, <2>12
  <2>17. mod(x * F) \in Units BY <2>12, <2>14, UnitProduct
  <2>18. a * x \in Int /\ p * F \in Int /\ a * p \in Int /\ x * F \in Int BY <2>12, <2>13, <2>14
  <2>19. mod(mod(a * x) * mod(p * F)) = mod((a * x) * (p * F))
    <3>1. mod(p * F) \in Int BY <2>18, EqMod
    <3>2. mod(mod(a * x) * mod(p * F)) = mod((a * x) * mod(p * F)) BY <2>18, <3>1, ModOf
    <3>3. mod((a * x) * mod(p * F)) = mod((a * x) * (p * F)) BY <2>18, ModOf
    <3> QED BY <3>2, <3>3
  <2>20. mod(mod(a * p) * mod(x * F)) = mod((a * p) * (x * F))
    <3>1. mod(x * F) \in Int BY <2>18, EqMod
    <3>2. mod(mod(a * p) * mod(x * F)) = mod((a * p) * mod(x * F)) BY <2>18, <3>1, ModOf
    <3>3. mod((a * p) * mod(x * F)) = mod((a * p) * (x * F)) BY <2>18, ModOf
    <3> QED BY <3>2, <3>3
  <2>21. (a * x) * (p * F) = (a * p) * (x * F) BY <2>12, <2>13, <2>14
  <2>22. ProductOf(e, U) = mod(modPow[Cardinality(U)][a] * ProductOf(f, U))
    BY <2>6, <2>12, <2>14, <2>15, <2>16, <2>19, <2>20, <2>21
  <2> QED BY <1>4, <2>16, <2>17, <2>22
<1> QED BY <1>7, <1>8

\* Fermat's little theorem: the power with exponent P - 1 is 1.
LEMMA Fermat ==
  ASSUME NEW a \in Units
  PROVE  modPow[P - 1][a] = 1
<1>0. P \in Nat /\ P > 2 BY ThresholdScalarsAssumption
<1> DEFINE f == [x \in Units |-> x]
           e == [x \in Units |-> mod(a * x)]
           Im == {e[x] : x \in Units}
<1>1. \A x \in Units : f[x] = x /\ e[x] = mod(a * x) OBVIOUS
<1> HIDE DEF f, e
<1>2. a \in Int /\ a \in Scalar /\ IsFiniteSet(Units) /\ Cardinality(Units) = P - 1 BY UnitsAre
<1>3. \A x \in Units : e[x] \in Units /\ x \in Scalar BY <1>1, UnitProduct, UnitsAre
<1>4. ASSUME NEW x \in Units, NEW y \in Units, e[x] = e[y] PROVE x = y
  <2>1. x \in Int /\ y \in Int /\ mod(x) = x /\ mod(y) = y BY UnitsAre
  <2>2. Eq(a * x, a * y) BY <1>1, <1>4 DEF Eq
  <2>3. a \in 1..(P - 1) BY DEF Units
  <2>4. Eq(x, y) BY <2>1, <2>2, <2>3, Cancel
  <2> QED BY <2>1, <2>4 DEF Eq
<1>5. Im = Units
  <2>1. Cardinality(Im) = Cardinality(Units) BY <1>2, <1>4, ImageFinite
  <2>2. Im \in SUBSET Units BY <1>3
  <2> HIDE DEF Im
  <2> QED BY <1>2, <2>1, <2>2, FS_Subset
<1>6. ProductOf(e, Units) = ProductOf(f, Im)
  <2>1. \A x, y \in Units : e[x] = e[y] => x = y BY <1>4
  <2>2. \A x \in Units : f[e[x]] \in Scalar /\ e[x] = f[e[x]] BY <1>1, <1>3
  <2>3. IsFiniteSet(Units) BY <1>2
  <2>4. Folded(e, 1, Times, Units) = Folded(f, 1, Times, {e[x] : x \in Units})
    BY ONLY <2>1, <2>2, <2>3, TimesMonoid, FoldOnto
  <2> QED BY <2>4 DEF ProductOf
<1>7. PICK F : F = ProductOf(f, Units) OBVIOUS
<1>8. PICK p : p = modPow[P - 1][a] OBVIOUS
<1>9. F \in Units /\ ProductOf(e, Units) = mod(p * F)
  <2>1. PICK T : T = Units OBVIOUS
  <2>2. T \in SUBSET Units /\ Cardinality(T) = P - 1 BY <1>2, <2>1
  <2>3. ProductOf(f, T) \in Units /\ ProductOf(e, T) = mod(modPow[Cardinality(T)][a] * ProductOf(f, T))
    BY ONLY <1>1, <2>2, a \in Units, UnitsTimes
  <2> QED BY <1>7, <1>8, <2>1, <2>2, <2>3
<1>10. p \in Scalar /\ p \in Int /\ mod(p) = p
  <2>1. P - 1 \in 0..P BY <1>0
  <2> QED BY <1>2, <1>8, <2>1, PowIs, ModScalar
<1>11. F \in Int /\ mod(F) = F /\ F \in 1..(P - 1) BY <1>9, UnitsAre DEF Units
<1>12. mod(F * p) = mod(F * 1)
  <2>1. F * p = p * F /\ F * 1 = F BY <1>10, <1>11
  <2> QED BY <1>5, <1>6, <1>7, <1>9, <1>11, <2>1
<1>13. Eq(p, 1) BY <1>10, <1>11, <1>12, Cancel DEF Eq
<1>14. 1 \in Scalar BY <1>0 DEF Scalar
<1> QED BY <1>8, <1>10, <1>13, <1>14, ModScalar DEF Eq

\* invertScalar inverts.
LEMMA InverseIs ==
  ASSUME NEW v \in Units
  PROVE  invertScalar(v) \in Scalar /\ invertScalar(v) \in Int /\ Eq(v * invertScalar(v), 1)
<1>0. P \in Nat /\ P > 2 BY ThresholdScalarsAssumption
<1>1. PICK e : e = P - 2 OBVIOUS
<1>2. e \in 0..(P - 1) /\ e \in 0..P /\ e + 1 = P - 1 /\ v \in Scalar BY <1>0, <1>1, UnitsAre
<1>3. modPow[e + 1][v] = mod(v * modPow[e][v]) BY <1>2, PowNext
<1>4. modPow[e + 1][v] = 1 BY <1>2, Fermat
<1>5. invertScalar(v) = modPow[e][v] BY <1>1 DEF invertScalar
<1>6. invertScalar(v) \in Scalar BY <1>2, <1>5, PowIs
<1>7. 1 \in Scalar BY <1>0 DEF Scalar
<1>8. mod(1) = 1 BY <1>7, ModScalar
<1> QED BY <1>3, <1>4, <1>5, <1>6, <1>8, ModScalar DEF Eq

-----------------------------------------------------------------------------
(***************************************************************************)
(* Lagrange's coefficients at 0.                                           *)
(***************************************************************************)
\* What each other participant contributes to the coefficient of x.
Factor(x) == [other \in Units |-> mod((-other) * invertScalar(mod(x - other)))]
Coefficient(x, S) == ProductOf(Factor(x), S \ {x})

\* The difference of two of them can be inverted.
LEMMA Difference ==
  ASSUME NEW x \in Units, NEW y \in Units, x # y
  PROVE  x - y \in Int /\ mod(x - y) \in Units
<1>1. x \in Int /\ y \in Int /\ mod(x) = x /\ mod(y) = y BY UnitsAre
<1>2. PICK d : d = x - y OBVIOUS
<1>3. d \in Int /\ d + y = x /\ 0 + y = y BY <1>1, <1>2
<1>4. mod(d) \in Scalar /\ Eq(y, y) BY <1>1, <1>3, EqMod
<1>5. mod(d) # 0
  <2> SUFFICES ASSUME mod(d) = 0 PROVE FALSE OBVIOUS
  <2>1. 0 \in Scalar BY ThresholdScalarsAssumption DEF Scalar
  <2>2. Eq(d, 0) BY <2>1, ModScalar DEF Eq
  <2>3. Eq(d + y, 0 + y) BY <1>1, <1>3, <1>4, <2>2, EqSum
  <2>4. mod(x) = mod(y) BY <1>3, <2>3 DEF Eq
  <2> QED BY <1>1, <2>4
<1> QED BY <1>2, <1>3, <1>4, <1>5, ThresholdScalarsAssumption DEF Scalar, Units

\* A factor undoes the difference.
LEMMA FactorIs ==
  ASSUME NEW x \in Units, NEW y \in Units, x # y
  PROVE  /\ Factor(x)[y] \in Scalar /\ Factor(x)[y] \in Int
         /\ Eq(Factor(x)[y] * (x - y), -y)
<1>1. x \in Int /\ y \in Int /\ -y \in Int BY UnitsAre
<1>2. PICK d : d = x - y OBVIOUS
<1>3. PICK u : u = mod(d) OBVIOUS
<1>4. d \in Int /\ u \in Units /\ u \in Int /\ Eq(u, d) BY <1>2, <1>3, Difference, EqMod, UnitsAre
<1>5. PICK i : i = invertScalar(u) OBVIOUS
<1>6. i \in Int /\ Eq(u * i, 1) BY <1>4, <1>5, InverseIs
<1>7. PICK F : F = Factor(x)[y] OBVIOUS
<1>8. PICK g : g = (-y) * i OBVIOUS
<1>9. g \in Int /\ u * i \in Int /\ F = mod(g) BY <1>1, <1>2, <1>3, <1>4, <1>5, <1>6, <1>7, <1>8 DEF Factor
<1>10. F \in Scalar /\ F \in Int /\ Eq(F, g) BY <1>9, EqMod
<1>11. Eq(F * u, g * u)
  <2>1. Eq(u, u) BY <1>4, EqMod
  <2> QED BY <1>4, <1>9, <1>10, <2>1, EqProduct
<1>12. Eq(F * u, F * d)
  <2>1. Eq(F, F) BY <1>10, EqMod
  <2> QED BY <1>4, <1>10, <2>1, EqProduct
<1>13. g * u = (-y) * (u * i) BY <1>1, <1>4, <1>6, <1>8
<1>14. Eq((-y) * (u * i), (-y) * 1)
  <2>1. Eq(-y, -y) BY <1>1, EqMod
  <2> QED BY <1>1, <1>6, <1>9, <2>1, EqProduct
<1>15. (-y) * 1 = -y BY <1>1
<1>16. Eq(F * d, -y) BY <1>11, <1>12, <1>13, <1>14, <1>15 DEF Eq
<1> QED BY <1>2, <1>7, <1>10, <1>16

\* The factors of a set of units are scalars.
LEMMA FactorsAre ==
  ASSUME NEW S \in SUBSET Units, NEW x \in Units
  PROVE  IsFiniteSet(S) /\ IsFiniteSet(S \ {x}) /\ \A y \in S \ {x} : Factor(x)[y] \in Scalar
<1>1. IsFiniteSet(S) BY UnitsAre, FS_Subset
<1>2. IsFiniteSet(S \ {x}) BY <1>1, FS_Subset
<1>3. \A y \in S \ {x} : y \in Units /\ x # y OBVIOUS
<1> QED BY <1>1, <1>2, <1>3, FactorIs

\* lagrangeCoefficientAtZero is the product of the factors.
LEMMA LagrangeIs ==
  ASSUME NEW S \in SUBSET Units, NEW x \in Units
  PROVE  lagrangeCoefficientAtZero(x, S) = Coefficient(x, S) /\ Coefficient(x, S) \in Scalar
<1>1. PICK W : W = S \ {x} OBVIOUS
<1>2. IsFiniteSet(W) /\ \A y \in W : Factor(x)[y] \in Scalar BY <1>1, FactorsAre
<1> DEFINE Step(g) == g = [T \in SUBSET W |->
                            IF T = {} THEN 1
                            ELSE mod(mod((-Choice(T)) * invertScalar(mod(x - Choice(T)))) * g[T \ {Choice(T)}])]
<1>3. lagrangeCoefficientAtZero(x, S) = (CHOOSE g : Step(g))[W]
  BY <1>1 DEF lagrangeCoefficientAtZero, MapThenFoldSet, Choice
<1>4. ASSUME NEW T \in SUBSET W, T # {}
      PROVE  Factor(x)[Choice(T)] = mod((-Choice(T)) * invertScalar(mod(x - Choice(T))))
  <2>1. Choice(T) \in T BY <1>4 DEF Choice
  <2>2. Choice(T) \in Units BY <1>1, <2>1
  <2> HIDE DEF Choice
  <2> QED BY <2>2 DEF Factor
<1>5. \A g : Step(g) <=> Products(g, Factor(x), W)
  <2> SUFFICES ASSUME NEW g
               PROVE  Step(g) <=> Products(g, Factor(x), W)
    OBVIOUS
  <2>1. [T \in SUBSET W |->
           IF T = {} THEN 1
           ELSE mod(mod((-Choice(T)) * invertScalar(mod(x - Choice(T)))) * g[T \ {Choice(T)}])]
        = [T \in SUBSET W |-> IF T = {} THEN 1 ELSE mod(Factor(x)[Choice(T)] * g[T \ {Choice(T)}])]
    <3> HIDE DEF Step
    <3> QED BY <1>4
  <2> QED BY <2>1 DEF Products
<1>6. (\E g : Products(g, Factor(x), W)) /\ \A g : Products(g, Factor(x), W) => g[W] = ProductOf(Factor(x), W)
  BY <1>2, ProductsAre
<1> HIDE DEF Step
<1>7. Step(CHOOSE g : Step(g)) BY <1>5, <1>6
<1>8. (CHOOSE g : Step(g))[W] = ProductOf(Factor(x), W) BY <1>5, <1>6, <1>7
<1>9. ProductOf(Factor(x), W) \in Scalar BY <1>2, ProductRemove
<1> QED BY <1>1, <1>3, <1>8, <1>9 DEF Coefficient

\* Without y, the coefficient of x is another.
LEMMA CoefficientWithout ==
  ASSUME NEW S \in SUBSET Units, NEW x \in S, NEW y \in S, x # y
  PROVE  /\ Coefficient(x, S) \in Int /\ Coefficient(x, S \ {y}) \in Int
         /\ Eq(Coefficient(x, S) * (x - y), (-y) * Coefficient(x, S \ {y}))
<1>1. PICK W : W = S \ {x} OBVIOUS
<1>2. PICK V : V = W \ {y} OBVIOUS
<1>3. V = (S \ {y}) \ {x} /\ y \in W BY <1>1, <1>2
<1>4. IsFiniteSet(W) /\ \A z \in W : Factor(x)[z] \in Scalar BY <1>1, FactorsAre
<1>5. PICK F : F = Factor(x)[y] OBVIOUS
<1>6. PICK C : C = Coefficient(x, S) OBVIOUS
<1>7. PICK D : D = Coefficient(x, S \ {y}) OBVIOUS
<1>8. /\ ProductOf(Factor(x), W) \in Scalar
      /\ ProductOf(Factor(x), V) \in Scalar
      /\ ProductOf(Factor(x), W) = mod(Factor(x)[y] * ProductOf(Factor(x), V))
  BY <1>2, <1>3, <1>4, ProductRemove
<1>9. C = mod(F * D) /\ C \in Scalar /\ D \in Scalar BY <1>1, <1>3, <1>5, <1>6, <1>7, <1>8 DEF Coefficient
<1>10. C \in Int /\ D \in Int BY <1>9, ModScalar
<1>11. PICK d : d = x - y OBVIOUS
<1>12. d \in Int /\ F \in Int /\ Eq(F * d, -y) BY <1>5, <1>11, Difference, FactorIs
<1>13. F * D \in Int /\ F * d \in Int /\ -y \in Int BY <1>10, <1>12, UnitsAre
<1>14. Eq(C, F * D) /\ Eq(d, d) /\ Eq(D, D) BY <1>9, <1>10, <1>12, <1>13, EqMod
<1>15. Eq(C * d, (F * D) * d) BY <1>10, <1>12, <1>13, <1>14, EqProduct
<1>16. Eq((F * d) * D, (-y) * D) BY <1>10, <1>12, <1>13, <1>14, EqProduct
<1>17. (F * D) * d = (F * d) * D BY <1>10, <1>12
<1>18. Eq(C * d, (-y) * D) BY <1>15, <1>16, <1>17 DEF Eq
<1> QED BY <1>6, <1>7, <1>10, <1>11, <1>18

-----------------------------------------------------------------------------
(***************************************************************************)
(* What participants hold, weighted by their coefficients.                 *)
(***************************************************************************)
\* The sum of the values p of the participants S, each with its coefficient.
Weighted(S, p) == SumOf([x \in S |-> Coefficient(x, S) * p[x]], S)

\* Coefficients are integers.
LEMMA CoefficientsAre ==
  ASSUME NEW S \in SUBSET Units
  PROVE  IsFiniteSet(S) /\ \A x \in S : Coefficient(x, S) \in Int
<1>1. IsFiniteSet(S) BY UnitsAre, FS_Subset
<1>2. ASSUME NEW x \in S PROVE Coefficient(x, S) \in Int BY LagrangeIs, ModScalar
<1> QED BY <1>1, <1>2

\* A sum of a's multiples and b's multiples is that of the sums, modulo P.
LEMMA SumLinear ==
  ASSUME NEW S, IsFiniteSet(S), NEW a \in Int, NEW b \in Int, NEW f, NEW e, NEW d,
         \A x \in S : f[x] \in Int /\ e[x] \in Int /\ d[x] \in Int /\ Eq(d[x], a * f[x] + b * e[x])
  PROVE  /\ SumOf(f, S) \in Int /\ SumOf(e, S) \in Int /\ SumOf(d, S) \in Int
         /\ Eq(SumOf(d, S), a * SumOf(f, S) + b * SumOf(e, S))
<1>1. \A x \in S : f[x] \in Int /\ e[x] \in Int /\ d[x] \in Int /\ Eq(d[x], a * f[x] + b * e[x]) OBVIOUS
<1> DEFINE af == [x \in S |-> a * f[x]]
           be == [x \in S |-> b * e[x]]
           both == [x \in S |-> a * f[x] + b * e[x]]
<1>2. /\ \A x \in S : af[x] = a * f[x] /\ be[x] = b * e[x] /\ both[x] = af[x] + be[x]
      /\ \A x \in S : af[x] \in Int /\ be[x] \in Int /\ both[x] \in Int
  BY <1>1
<1> HIDE DEF af, be, both
<1>3. /\ SumOf(f, S) \in Int /\ SumOf(e, S) \in Int /\ SumOf(d, S) \in Int
      /\ SumOf(af, S) \in Int /\ SumOf(be, S) \in Int /\ SumOf(both, S) \in Int
  BY <1>1, <1>2, SumRemove
<1>4. SumOf(both, S) = SumOf(af, S) + SumOf(be, S) BY <1>2, SumBoth
<1>5. Eq(SumOf(af, S), a * SumOf(f, S))
  <2>1. \A x \in S : f[x] \in Int /\ af[x] \in Int /\ Eq(af[x], a * f[x]) BY <1>1, <1>2, EqMod
  <2> QED BY <2>1, SumScale
<1>6. Eq(SumOf(be, S), b * SumOf(e, S))
  <2>1. \A x \in S : e[x] \in Int /\ be[x] \in Int /\ Eq(be[x], b * e[x]) BY <1>1, <1>2, EqMod
  <2> QED BY <2>1, SumScale
<1>7. Eq(SumOf(d, S), 1 * SumOf(both, S))
  <2>1. ASSUME NEW x \in S PROVE both[x] \in Int /\ d[x] \in Int /\ Eq(d[x], 1 * both[x])
    <3>1. both[x] \in Int /\ d[x] \in Int /\ both[x] = a * f[x] + b * e[x] BY <1>1, <1>2
    <3>2. 1 * both[x] = both[x] BY <3>1
    <3> QED BY <1>1, <3>1, <3>2
  <2>2. 1 \in Int OBVIOUS
  <2> QED BY <2>1, <2>2, SumScale
<1> DEFINE F == SumOf(f, S)
           E == SumOf(e, S)
           A == SumOf(af, S)
           B == SumOf(be, S)
           C == SumOf(both, S)
           D == SumOf(d, S)
<1>8. /\ F \in Int /\ E \in Int /\ A \in Int /\ B \in Int /\ C \in Int /\ D \in Int
      /\ C = A + B /\ Eq(A, a * F) /\ Eq(B, b * E) /\ Eq(D, 1 * C)
  BY <1>3, <1>4, <1>5, <1>6, <1>7
<1> HIDE DEF F, E, A, B, C, D
<1>9. 1 * C = C /\ a * F \in Int /\ b * E \in Int BY <1>8
<1>10. Eq(A + B, a * F + b * E) BY <1>8, <1>9, EqSum
<1>11. Eq(D, a * F + b * E) BY <1>8, <1>9, <1>10 DEF Eq
<1> QED BY <1>3, <1>11 DEF F, E, D

\* So are weighted sums.
LEMMA WeightedLinear ==
  ASSUME NEW S \in SUBSET Units, NEW a \in Int, NEW b \in Int, NEW p, NEW q, NEW r,
         \A x \in S : p[x] \in Int /\ q[x] \in Int /\ r[x] \in Int /\ Eq(r[x], a * p[x] + b * q[x])
  PROVE  /\ Weighted(S, p) \in Int /\ Weighted(S, q) \in Int /\ Weighted(S, r) \in Int
         /\ Eq(Weighted(S, r), a * Weighted(S, p) + b * Weighted(S, q))
<1>1. \A x \in S : p[x] \in Int /\ q[x] \in Int /\ r[x] \in Int /\ Eq(r[x], a * p[x] + b * q[x]) OBVIOUS
<1>2. IsFiniteSet(S) /\ \A x \in S : Coefficient(x, S) \in Int BY CoefficientsAre
<1> DEFINE f == [x \in S |-> Coefficient(x, S) * p[x]]
           e == [x \in S |-> Coefficient(x, S) * q[x]]
           d == [x \in S |-> Coefficient(x, S) * r[x]]
<1>3. ASSUME NEW x \in S
      PROVE  f[x] \in Int /\ e[x] \in Int /\ d[x] \in Int /\ Eq(d[x], a * f[x] + b * e[x])
  <2>1. PICK c : c = Coefficient(x, S) OBVIOUS
  <2>2. PICK u : u = p[x] OBVIOUS
  <2>3. PICK v : v = q[x] OBVIOUS
  <2>4. PICK w : w = r[x] OBVIOUS
  <2>5. c \in Int /\ u \in Int /\ v \in Int /\ w \in Int /\ Eq(w, a * u + b * v)
    BY <1>1, <1>2, <2>1, <2>2, <2>3, <2>4
  <2>6. f[x] = c * u /\ e[x] = c * v /\ d[x] = c * w BY <2>1, <2>2, <2>3, <2>4
  <2> HIDE DEF f, e, d
  <2>7. a * u + b * v \in Int /\ Eq(c, c) /\ c * u \in Int /\ c * v \in Int /\ c * w \in Int
    BY <2>5, EqMod
  <2>8. Eq(c * w, c * (a * u + b * v)) BY <2>5, <2>7, EqProduct
  <2>9. c * (a * u + b * v) = a * (c * u) + b * (c * v) BY <2>5
  <2> QED BY <2>6, <2>7, <2>8, <2>9
<1>4. Weighted(S, p) = SumOf(f, S) /\ Weighted(S, q) = SumOf(e, S) /\ Weighted(S, r) = SumOf(d, S)
  BY DEF Weighted
<1> HIDE DEF f, e, d
<1>5. \A x \in S : f[x] \in Int /\ e[x] \in Int /\ d[x] \in Int /\ Eq(d[x], a * f[x] + b * e[x]) BY <1>3
<1>6. /\ SumOf(f, S) \in Int /\ SumOf(e, S) \in Int /\ SumOf(d, S) \in Int
      /\ Eq(SumOf(d, S), a * SumOf(f, S) + b * SumOf(e, S))
  BY ONLY <1>2, <1>5, a \in Int, b \in Int, SumLinear
<1> QED BY <1>4, <1>6

\* Values that vanish at y have the weighted sum that the others have without y.
LEMMA WeightedWithout ==
  ASSUME NEW S \in SUBSET Units, NEW y \in S, NEW p, NEW q,
         \A x \in S : p[x] \in Int /\ q[x] = (x - y) * p[x]
  PROVE  /\ Weighted(S, q) \in Int /\ Weighted(S \ {y}, p) \in Int
         /\ Eq(Weighted(S, q), (-y) * Weighted(S \ {y}, p))
<1>1. PICK W : W = S \ {y} OBVIOUS
<1>2. W \in SUBSET Units /\ y \in Units /\ y \in Int /\ -y \in Int BY <1>1, UnitsAre
<1>3. /\ IsFiniteSet(S) /\ \A x \in S : Coefficient(x, S) \in Int
      /\ IsFiniteSet(W) /\ \A x \in W : Coefficient(x, W) \in Int
  BY <1>2, CoefficientsAre
<1> DEFINE f == [x \in W |-> Coefficient(x, W) * p[x]]
           d == [x \in S |-> Coefficient(x, S) * q[x]]
<1>4. Weighted(S, q) = SumOf(d, S) /\ Weighted(W, p) = SumOf(f, W) BY DEF Weighted
<1>5. ASSUME NEW x \in S PROVE q[x] \in Int /\ d[x] \in Int
  <2>1. x \in Int /\ p[x] \in Int /\ q[x] = (x - y) * p[x] BY UnitsAre
  <2>2. q[x] \in Int BY <1>2, <2>1
  <2>3. d[x] = Coefficient(x, S) * q[x] /\ Coefficient(x, S) \in Int BY <1>3
  <2> HIDE DEF d
  <2> QED BY <2>2, <2>3
<1>6. d[y] = 0
  <2>1. p[y] \in Int /\ q[y] = (y - y) * p[y] OBVIOUS
  <2>2. q[y] = 0 BY <1>2, <2>1
  <2>3. d[y] = Coefficient(y, S) * q[y] /\ Coefficient(y, S) \in Int BY <1>3
  <2> HIDE DEF d
  <2> QED BY <2>2, <2>3
<1>7. ASSUME NEW x \in W
      PROVE  f[x] \in Int /\ d[x] \in Int /\ Eq(d[x], (-y) * f[x])
  <2>1. x \in S /\ x # y /\ x \in Int /\ p[x] \in Int /\ q[x] = (x - y) * p[x] BY <1>1, UnitsAre
  <2>2. PICK C : C = Coefficient(x, S) OBVIOUS
  <2>3. PICK D : D = Coefficient(x, W) OBVIOUS
  <2>4. PICK u : u = p[x] OBVIOUS
  <2>5. PICK t : t = x - y OBVIOUS
  <2>6. C \in Int /\ D \in Int /\ Eq(C * t, (-y) * D) BY <1>1, <2>1, <2>2, <2>3, <2>5, CoefficientWithout
  <2>7. d[x] = C * (t * u) /\ f[x] = D * u BY <2>1, <2>2, <2>3, <2>4, <2>5
  <2>8. u \in Int /\ t \in Int BY <1>2, <2>1, <2>4, <2>5
  <2> HIDE DEF d, f
  <2>9. C * t \in Int /\ (-y) * D \in Int /\ Eq(u, u) /\ D * u \in Int /\ C * (t * u) \in Int
    BY <1>2, <2>6, <2>8, EqMod
  <2>10. Eq((C * t) * u, ((-y) * D) * u) BY <2>6, <2>8, <2>9, EqProduct
  <2>11. (C * t) * u = C * (t * u) /\ ((-y) * D) * u = (-y) * (D * u) BY <1>2, <2>6, <2>8
  <2> QED BY <2>7, <2>9, <2>10, <2>11
<1> HIDE DEF f, d
<1>8. /\ SumOf(d, S) \in Int /\ SumOf(d, W) \in Int /\ SumOf(d, S) = d[y] + SumOf(d, W)
  BY <1>1, <1>3, <1>5, SumRemove
<1>9. SumOf(f, W) \in Int
  <2>1. \A x \in W : f[x] \in Int BY <1>7
  <2> QED BY <1>3, <2>1, SumRemove
<1>10. Eq(SumOf(d, W), (-y) * SumOf(f, W))
  <2>1. \A x \in W : f[x] \in Int /\ d[x] \in Int /\ Eq(d[x], (-y) * f[x]) BY <1>7
  <2> QED BY ONLY <1>2, <1>3, <2>1, SumScale
<1>11. SumOf(d, S) = SumOf(d, W)
  <2>1. PICK s : s = SumOf(d, W) OBVIOUS
  <2>2. s \in Int /\ SumOf(d, S) = 0 + s BY <1>6, <1>8, <2>1
  <2> QED BY <2>1, <2>2
<1> QED BY <1>1, <1>4, <1>8, <1>9, <1>10, <1>11

-----------------------------------------------------------------------------
(***************************************************************************)
(* Interpolation.  The weighted sum of the powers with an exponent is 1 for *)
(* the exponent 0, and 0 for any other below the number of participants.   *)
(* Values that vanish at y have the weighted sum they have without y, so the *)
(* participants and the exponent go down together.                         *)
(***************************************************************************)
\* The powers of a unit are integers.
LEMMA PowersAre ==
  ASSUME NEW S \in SUBSET Units, NEW k \in 0..P
  PROVE  \A x \in S : x \in Int /\ modPow[k][x] \in Int
<1> SUFFICES ASSUME NEW x \in S PROVE x \in Int /\ modPow[k][x] \in Int OBVIOUS
<1>1. x \in Int /\ x \in Scalar BY UnitsAre
<1>2. modPow[k][x] \in Scalar BY <1>1, PowIs
<1> QED BY <1>1, <1>2, ModScalar

\* What the weighted sum of the powers with an exponent is to be: the value at 0 of
\* the polynomial they are the values of.
AtZero(k) == IF k = 0 THEN 1 ELSE 0
Interpolates(S, k) == Eq(Weighted(S, modPow[k]), AtZero(k))

\* One participant has the coefficient 1.
LEMMA InterpolatesOne ==
  ASSUME NEW x \in Units
  PROVE  Interpolates({x}, 0)
<1>0. P \in Nat /\ P > 2 BY ThresholdScalarsAssumption
<1>1. PICK S : S = {x} OBVIOUS
<1>2. S \in SUBSET Units /\ x \in S /\ S \ {x} = {} BY <1>1
<1>3. Coefficient(x, S) = 1
  <2>1. IsFiniteSet(S \ {x}) /\ \A z \in S \ {x} : Factor(x)[z] \in Scalar BY <1>2, FactorsAre
  <2>2. ProductOf(Factor(x), {}) = 1 BY <2>1, ProductRemove
  <2> QED BY <1>2, <2>2 DEF Coefficient
<1>4. modPow[0][x] = 1
  <2>1. 0 \in 0..P /\ x \in Scalar BY <1>0, UnitsAre
  <2> QED BY <2>1, PowIs
<1> DEFINE f == [z \in S |-> Coefficient(z, S) * modPow[0][z]]
<1>5. f[x] = 1 BY <1>2, <1>3, <1>4
<1>6. Weighted(S, modPow[0]) = SumOf(f, S) BY DEF Weighted
<1> HIDE DEF f
<1>7. IsFiniteSet(S) /\ \A z \in S : f[z] \in Int
  <2>1. \A z \in S : z = x BY <1>1
  <2> QED BY <1>2, <1>5, <2>1, CoefficientsAre
<1>8. SumOf(f, {}) = 0 /\ SumOf(f, S) = f[x] + SumOf(f, S \ {x}) BY <1>2, <1>7, SumRemove
<1>9. SumOf(f, S) = 1 BY <1>2, <1>5, <1>8
<1> QED BY <1>1, <1>6, <1>9 DEF Interpolates, AtZero, Eq

\* Two participants without each of whom the sum of 1 is 1: so it is with both.
LEMMA InterpolatesFirst ==
  ASSUME NEW S \in SUBSET Units, NEW y \in S, NEW z \in S, y # z,
         Interpolates(S \ {y}, 0), Interpolates(S \ {z}, 0)
  PROVE  Interpolates(S, 0)
<1>0. P \in Nat /\ P > 2 BY ThresholdScalarsAssumption
<1>1. y \in Units /\ z \in Units /\ y \in Int /\ z \in Int /\ -y \in Int /\ -z \in Int BY UnitsAre
<1>2. PICK p : p = modPow[0] OBVIOUS
<1>3. \A x \in S : x \in Int /\ p[x] \in Int
  <2>1. 0 \in 0..P BY <1>0
  <2> QED BY <1>2, <2>1, PowersAre
<1> DEFINE qy == [x \in S |-> (x - y) * p[x]]
           qz == [x \in S |-> (x - z) * p[x]]
           r == [x \in S |-> (y - z) * p[x]]
<1>4. /\ \A x \in S : p[x] \in Int /\ qy[x] = (x - y) * p[x]
      /\ \A x \in S : p[x] \in Int /\ qz[x] = (x - z) * p[x]
      /\ \A x \in S : r[x] = (y - z) * p[x]
  BY <1>3
<1> HIDE DEF qy, qz, r
<1>5. PICK d : d = y - z OBVIOUS
<1>6. PICK u : u = mod(d) OBVIOUS
<1>7. d \in Int /\ u \in Units /\ u \in Int /\ Eq(u, d) BY <1>1, <1>5, <1>6, Difference, EqMod, UnitsAre
<1>8. /\ Weighted(S, qy) \in Int /\ Weighted(S \ {y}, p) \in Int
      /\ Eq(Weighted(S, qy), (-y) * Weighted(S \ {y}, p))
  BY ONLY <1>4, S \in SUBSET Units, y \in S, WeightedWithout
<1>9. /\ Weighted(S, qz) \in Int /\ Weighted(S \ {z}, p) \in Int
      /\ Eq(Weighted(S, qz), (-z) * Weighted(S \ {z}, p))
  BY ONLY <1>4, S \in SUBSET Units, z \in S, WeightedWithout
<1>10. \A x \in S : /\ qy[x] \in Int /\ qz[x] \in Int /\ r[x] \in Int
                    /\ Eq(r[x], (-1) * qy[x] + 1 * qz[x])
  <2> SUFFICES ASSUME NEW x \in S
               PROVE  qy[x] \in Int /\ qz[x] \in Int /\ r[x] \in Int
                      /\ Eq(r[x], (-1) * qy[x] + 1 * qz[x])
    OBVIOUS
  <2>1. PICK v : v = p[x] OBVIOUS
  <2>2. v \in Int /\ x \in Int /\ qy[x] = (x - y) * v /\ qz[x] = (x - z) * v /\ r[x] = (y - z) * v
    BY <1>3, <1>4, <2>1
  <2>3. (x - y) * v \in Int /\ (x - z) * v \in Int /\ (y - z) * v \in Int BY <1>1, <2>2
  <2>4. (y - z) * v = (-1) * ((x - y) * v) + 1 * ((x - z) * v) BY <1>1, <2>2
  <2> QED BY <2>2, <2>3, <2>4, EqMod
<1>11. Weighted(S, r) \in Int /\ Eq(Weighted(S, r), (-1) * Weighted(S, qy) + 1 * Weighted(S, qz))
  <2>1. -1 \in Int /\ 1 \in Int OBVIOUS
  <2> QED BY ONLY <1>10, <2>1, S \in SUBSET Units, WeightedLinear
<1>12. Weighted(S, p) \in Int /\ Eq(Weighted(S, r), d * Weighted(S, p) + 0 * Weighted(S, p))
  <2>1. 0 \in Int /\ d \in Int BY <1>7
  <2>2. \A x \in S : p[x] \in Int /\ p[x] \in Int /\ r[x] \in Int /\ Eq(r[x], d * p[x] + 0 * p[x])
    <3> SUFFICES ASSUME NEW x \in S
                 PROVE  p[x] \in Int /\ r[x] \in Int /\ Eq(r[x], d * p[x] + 0 * p[x])
      OBVIOUS
    <3>1. PICK v : v = p[x] OBVIOUS
    <3>2. v \in Int /\ r[x] = d * v BY <1>3, <1>4, <1>5, <3>1
    <3>3. r[x] \in Int /\ d * v + 0 * v = r[x] BY <1>7, <3>2
    <3> QED BY <3>1, <3>2, <3>3, EqMod
  <2> QED BY ONLY <2>1, <2>2, S \in SUBSET Units, WeightedLinear
<1> DEFINE A == Weighted(S, qy)
           B == Weighted(S, qz)
           R == Weighted(S, r)
           Y == Weighted(S \ {y}, p)
           Z == Weighted(S \ {z}, p)
           W == Weighted(S, p)
<1>13. /\ A \in Int /\ B \in Int /\ R \in Int /\ Y \in Int /\ Z \in Int /\ W \in Int
       /\ Eq(A, (-y) * Y) /\ Eq(B, (-z) * Z) /\ Eq(R, (-1) * A + 1 * B) /\ Eq(R, d * W + 0 * W)
       /\ Eq(Y, 1) /\ Eq(Z, 1)
  BY <1>2, <1>8, <1>9, <1>11, <1>12 DEF Interpolates, AtZero
<1>14. Interpolates(S, 0) <=> Eq(W, 1) BY <1>2 DEF Interpolates, AtZero
<1> HIDE DEF A, B, R, Y, Z, W
<1>15. (-1) * A + 1 * B = B - A /\ d * W + 0 * W = d * W BY <1>7, <1>13
<1>16. Eq((-y) * Y, (-y) * 1) /\ Eq((-z) * Z, (-z) * 1)
  <2>1. Eq(-y, -y) /\ Eq(-z, -z) BY <1>1, EqMod
  <2>2. 1 \in Int OBVIOUS
  <2> QED BY <1>1, <1>13, <2>1, <2>2, EqProduct
<1>17. (-y) * 1 = -y /\ (-z) * 1 = -z /\ (-y) * Y \in Int /\ (-z) * Z \in Int BY <1>1, <1>13
<1>18. Eq(A, -y) /\ Eq(B, -z) BY <1>13, <1>16, <1>17 DEF Eq
<1>19. Eq(B - A, (-z) - (-y)) BY <1>1, <1>13, <1>18, EqSum
<1>20. (-z) - (-y) = d * 1 BY <1>1, <1>5
<1>21. Eq(d * W, d * 1) BY <1>13, <1>15, <1>19, <1>20 DEF Eq
<1>22. Eq(u * W, d * W) /\ Eq(u * 1, d * 1)
  <2>1. Eq(W, W) /\ Eq(1, 1) /\ 1 \in Int BY <1>13, EqMod
  <2> QED BY <1>7, <1>13, <2>1, EqProduct
<1>23. Eq(u * W, u * 1) BY <1>21, <1>22 DEF Eq
<1>24. u \in 1..(P - 1) /\ 1 \in Int BY <1>7 DEF Units
<1>25. Eq(W, 1) BY <1>13, <1>23, <1>24, Cancel
<1> QED BY <1>14, <1>25

\* The weighted sum of powers follows from those with one exponent less.
LEMMA InterpolatesNext ==
  ASSUME NEW S \in SUBSET Units, NEW y \in S, NEW k \in 1..(P - 1),
         Interpolates(S \ {y}, k - 1), Interpolates(S, k - 1)
  PROVE  Interpolates(S, k)
<1>0. P \in Nat /\ P > 2 BY ThresholdScalarsAssumption
<1>1. y \in Units /\ y \in Int /\ -y \in Int BY UnitsAre
<1>2. k - 1 \in 0..(P - 1) /\ k - 1 \in 0..P /\ k \in 0..P /\ (k - 1) + 1 = k /\ k # 0 BY <1>0
<1>3. PICK p : p = modPow[k - 1] OBVIOUS
<1>4. PICK r : r = modPow[k] OBVIOUS
<1>5. \A x \in S : x \in Int /\ x \in Scalar /\ p[x] \in Int /\ r[x] \in Int
  <2>1. \A x \in S : x \in Int /\ p[x] \in Int BY <1>2, <1>3, PowersAre
  <2>2. \A x \in S : r[x] \in Int BY <1>2, <1>4, PowersAre
  <2> QED BY <2>1, <2>2, UnitsAre
<1>6. \A x \in S : Eq(r[x], x * p[x])
  <2> SUFFICES ASSUME NEW x \in S PROVE Eq(r[x], x * p[x]) OBVIOUS
  <2>1. modPow[(k - 1) + 1][x] = mod(x * modPow[k - 1][x]) BY <1>2, <1>5, PowNext
  <2>2. x * p[x] \in Int BY <1>5
  <2>3. r[x] = mod(x * p[x]) BY <1>2, <1>3, <1>4, <2>1
  <2> QED BY <2>2, <2>3, EqMod
<1> DEFINE q == [x \in S |-> (x - y) * p[x]]
<1>7. \A x \in S : p[x] \in Int /\ q[x] = (x - y) * p[x] BY <1>5
<1> HIDE DEF q
<1>8. /\ Weighted(S, q) \in Int /\ Weighted(S \ {y}, p) \in Int
      /\ Eq(Weighted(S, q), (-y) * Weighted(S \ {y}, p))
  BY ONLY <1>7, S \in SUBSET Units, y \in S, WeightedWithout
<1>9. \A x \in S : q[x] \in Int /\ p[x] \in Int /\ r[x] \in Int /\ Eq(r[x], 1 * q[x] + y * p[x])
  <2> SUFFICES ASSUME NEW x \in S
               PROVE  q[x] \in Int /\ p[x] \in Int /\ r[x] \in Int /\ Eq(r[x], 1 * q[x] + y * p[x])
    OBVIOUS
  <2>1. PICK v : v = p[x] OBVIOUS
  <2>2. v \in Int /\ x \in Int /\ q[x] = (x - y) * v BY <1>5, <1>7, <2>1
  <2>3. (x - y) * v \in Int /\ x * v = 1 * ((x - y) * v) + y * v BY <1>1, <2>2
  <2> QED BY <1>5, <1>6, <2>1, <2>2, <2>3
<1>10. /\ Weighted(S, p) \in Int /\ Weighted(S, r) \in Int
       /\ Eq(Weighted(S, r), 1 * Weighted(S, q) + y * Weighted(S, p))
  <2>1. 1 \in Int OBVIOUS
  <2> QED BY ONLY <1>1, <1>9, <2>1, S \in SUBSET Units, WeightedLinear
<1> DEFINE A == Weighted(S, q)
           R == Weighted(S, r)
           Y == Weighted(S \ {y}, p)
           W == Weighted(S, p)
           z == AtZero(k - 1)
<1>11. z \in Int BY DEF AtZero
<1>12. /\ A \in Int /\ R \in Int /\ Y \in Int /\ W \in Int
       /\ Eq(A, (-y) * Y) /\ Eq(R, 1 * A + y * W) /\ Eq(Y, z) /\ Eq(W, z)
  BY <1>3, <1>8, <1>10 DEF Interpolates
<1>13. Interpolates(S, k) <=> Eq(R, 0) BY <1>2, <1>4 DEF Interpolates, AtZero
<1> HIDE DEF A, R, Y, W, z
<1>14. Eq((-y) * Y, (-y) * z) /\ Eq(y * W, y * z)
  <2>1. Eq(-y, -y) /\ Eq(y, y) BY <1>1, EqMod
  <2> QED BY <1>1, <1>11, <1>12, <2>1, EqProduct
<1>15. (-y) * z \in Int /\ y * z \in Int /\ y * W \in Int /\ 1 * A = A BY <1>1, <1>11, <1>12
<1>16. Eq(A, (-y) * z) BY <1>12, <1>14 DEF Eq
<1>17. Eq(A + y * W, (-y) * z + y * z) BY <1>12, <1>14, <1>15, <1>16, EqSum
<1>18. (-y) * z + y * z = 0 BY <1>1, <1>11
<1>19. Eq(R, 0) BY <1>12, <1>15, <1>17, <1>18 DEF Eq
<1> QED BY <1>13, <1>19

\* Any set of participants interpolates the powers with fewer exponents than it has
\* members.
LEMMA Interpolation ==
  ASSUME NEW S \in SUBSET Units
  PROVE  \A k \in 0..(Cardinality(S) - 1) : Interpolates(S, k)
<1>0. P \in Nat /\ P > 2 /\ IsFiniteSet(Units) BY ThresholdScalarsAssumption, UnitsAre
<1> DEFINE Good(T) == \A k \in 0..(Cardinality(T) - 1) : Interpolates(T, k)
           Bad == {T \in SUBSET Units : ~ Good(T)}
<1> SUFFICES ASSUME Bad # {} PROVE FALSE OBVIOUS
<1>1. Bad \subseteq SUBSET Units OBVIOUS
<1> HIDE DEF Bad
<1>2. PICK T \in Bad : \A X \in Bad : ~ (X \subseteq T /\ X # T)
  BY ONLY <1>0, <1>1, Bad # {}, FiniteMin
<1>3. T \in SUBSET Units /\ ~ Good(T) BY DEF Bad
<1>4. PICK n : n = Cardinality(T) OBVIOUS
<1>5. IsFiniteSet(T) /\ n \in Nat /\ n <= P - 1
  <2>1. IsFiniteSet(T) /\ Cardinality(T) <= Cardinality(Units) BY <1>0, <1>3, FS_Subset
  <2> QED BY <1>4, <2>1, UnitsAre, FS_CardinalityType
<1>6. ASSUME NEW y \in T
      PROVE  \A k \in 0..(n - 2) : Interpolates(T \ {y}, k)
  <2>1. PICK W : W = T \ {y} OBVIOUS
  <2>2. W \in SUBSET Units /\ W \subseteq T /\ W # T BY <1>3, <2>1
  <2>3. Good(W) BY <1>2, <2>2 DEF Bad
  <2>4. Cardinality(W) = n - 1 BY <1>4, <1>5, <2>1, FS_RemoveElement
  <2>5. (n - 1) - 1 = n - 2 BY <1>5
  <2> QED BY <2>1, <2>3, <2>4, <2>5
<1>7. n # 0 BY <1>3, <1>4, <1>5
<1>8. T # {} BY <1>4, <1>7, FS_EmptySet
<1>9. PICK y \in T : TRUE BY <1>8
<1>10. CASE T = {y}
  <2>1. n = 1 BY <1>4, <1>10, FS_Singleton
  <2>2. \A k \in 0..(n - 1) : k = 0 BY <2>1
  <2>3. Interpolates(T, 0) BY <1>3, <1>10, InterpolatesOne
  <2> QED BY <1>3, <1>4, <2>2, <2>3
<1>11. CASE T # {y}
  <2>1. PICK z \in T : z # y BY <1>9, <1>11
  <2>2. n >= 2
    <3>1. PICK W : W = T \ {y} OBVIOUS
    <3>2. IsFiniteSet(W) /\ z \in W /\ Cardinality(W) = n - 1 BY <1>4, <1>5, <2>1, <3>1, FS_RemoveElement
    <3>3. Cardinality(W) # 0 BY <3>2, FS_EmptySet
    <3> QED BY <1>5, <1>7, <3>2, <3>3
  <2>3. 0 \in 0..(n - 2) BY <1>5, <2>2
  <2>4. Interpolates(T \ {y}, 0) /\ Interpolates(T \ {z}, 0) BY <1>6, <2>3
  <2>5. Interpolates(T, 0) BY <1>3, <2>1, <2>4, InterpolatesFirst
  <2> DEFINE Fails == {k \in 0..(n - 1) : ~ Interpolates(T, k)}
  <2>6. Fails # {} /\ Fails \subseteq Nat BY <1>3, <1>4
  <2> HIDE DEF Fails
  <2>7. PICK k \in Fails : \A j \in Fails : k <= j BY <2>6, LeastNat
  <2>8. k \in 0..(n - 1) /\ ~ Interpolates(T, k) BY DEF Fails
  <2>9. k # 0 BY <2>5, <2>8
  <2>10. k \in 1..(P - 1) /\ k - 1 \in 0..(n - 1) /\ k - 1 \in 0..(n - 2) /\ ~ (k <= k - 1)
    BY <1>0, <1>5, <2>8, <2>9
  <2>11. Interpolates(T, k - 1) BY <2>7, <2>10 DEF Fails
  <2>12. Interpolates(T \ {y}, k - 1) BY <1>6, <2>10
  <2> QED BY <1>3, <2>8, <2>10, <2>11, <2>12, InterpolatesNext
<1> QED BY <1>10, <1>11

-----------------------------------------------------------------------------
(***************************************************************************)
(* Polynomials: the shares of enough participants weigh up to the secret.  *)
(***************************************************************************)
\* The terms of the polynomial, and its value at the participants of S when only the
\* terms K are counted.
Terms(coefficients, index) ==
  [k \in DOMAIN coefficients |-> coefficients[k] * modPow[k - 1][index]]
Values(coefficients, S, K) == [x \in S |-> SumOf(Terms(coefficients, x), K)]

\* Polynomials of few enough terms.
Polynomial(coefficients, t) == t \in 1..P /\ coefficients \in [1..t -> Scalar]

\* The terms are integers.
LEMMA TermsAre ==
  ASSUME NEW t, NEW coefficients, Polynomial(coefficients, t), NEW x \in Units
  PROVE  /\ DOMAIN coefficients = 1..t /\ IsFiniteSet(1..t)
         /\ \A k \in 1..t : /\ coefficients[k] \in Scalar /\ coefficients[k] \in Int /\ k - 1 \in 0..P
                            /\ Terms(coefficients, x)[k] = coefficients[k] * modPow[k - 1][x]
                            /\ Terms(coefficients, x)[k] \in Int
<1>0. P \in Nat /\ P > 2 BY ThresholdScalarsAssumption
<1>1. t \in 1..P /\ coefficients \in [1..t -> Scalar] BY DEF Polynomial
<1>2. DOMAIN coefficients = 1..t /\ t \in Int /\ 1 \in Int BY <1>0, <1>1
<1>3. IsFiniteSet(1..t) BY <1>2, FS_Interval
<1>4. ASSUME NEW k \in 1..t
      PROVE  /\ coefficients[k] \in Scalar /\ coefficients[k] \in Int /\ k - 1 \in 0..P
             /\ Terms(coefficients, x)[k] = coefficients[k] * modPow[k - 1][x]
             /\ Terms(coefficients, x)[k] \in Int
  <2>1. coefficients[k] \in Scalar /\ k - 1 \in 0..P BY <1>0, <1>1
  <2>2. coefficients[k] \in Int BY <2>1, ModScalar
  <2>3. x \in Scalar BY UnitsAre
  <2>4. modPow[k - 1][x] \in Int BY <2>1, <2>3, PowIs, ModScalar
  <2>5. Terms(coefficients, x)[k] = coefficients[k] * modPow[k - 1][x] BY <1>2 DEF Terms
  <2>6. coefficients[k] * modPow[k - 1][x] \in Int BY <2>2, <2>4
  <2> QED BY <2>1, <2>2, <2>5, <2>6
<1> QED BY <1>2, <1>3, <1>4

\* splitShamirSecret adds them.
LEMMA ShareIs ==
  ASSUME NEW t, NEW coefficients, Polynomial(coefficients, t), NEW x \in Units
  PROVE  /\ SumOf(Terms(coefficients, x), 1..t) \in Int
         /\ splitShamirSecret(coefficients, x) = mod(SumOf(Terms(coefficients, x), 1..t))
<1>1. PICK W : W = 1..t OBVIOUS
<1>2. PICK f : f = Terms(coefficients, x) OBVIOUS
<1>3. /\ DOMAIN coefficients = W /\ IsFiniteSet(W)
      /\ \A k \in W : f[k] = coefficients[k] * modPow[k - 1][x] /\ f[k] \in Int
  BY <1>1, <1>2, TermsAre
<1> DEFINE Step(g) == g = [T \in SUBSET W |->
                            IF T = {} THEN 0
                            ELSE coefficients[Choice(T)] * modPow[Choice(T) - 1][x] + g[T \ {Choice(T)}]]
<1>4. splitShamirSecret(coefficients, x) = mod((CHOOSE g : Step(g))[W])
  BY <1>3 DEF splitShamirSecret, MapThenSumSet, MapThenFoldSet, Choice
<1>5. ASSUME NEW T \in SUBSET W, T # {}
      PROVE  f[Choice(T)] = coefficients[Choice(T)] * modPow[Choice(T) - 1][x]
  <2>1. Choice(T) \in T BY <1>5 DEF Choice
  <2>2. Choice(T) \in W BY <2>1
  <2> HIDE DEF Choice
  <2> QED BY <1>3, <2>2
<1>6. \A g : Step(g) <=> Sums(g, f, W)
  <2> SUFFICES ASSUME NEW g
               PROVE  Step(g) <=> Sums(g, f, W)
    OBVIOUS
  <2>1. [T \in SUBSET W |->
           IF T = {} THEN 0
           ELSE coefficients[Choice(T)] * modPow[Choice(T) - 1][x] + g[T \ {Choice(T)}]]
        = [T \in SUBSET W |-> IF T = {} THEN 0 ELSE f[Choice(T)] + g[T \ {Choice(T)}]]
    <3> HIDE DEF Step
    <3> QED BY <1>5
  <2> QED BY <2>1 DEF Sums
<1>7. (\E g : Sums(g, f, W)) /\ \A g : Sums(g, f, W) => g[W] = SumOf(f, W)
  BY <1>3, SumsAre
<1> HIDE DEF Step
<1>8. Step(CHOOSE g : Step(g)) BY <1>6, <1>7
<1>9. (CHOOSE g : Step(g))[W] = SumOf(f, W) BY <1>6, <1>7, <1>8
<1>10. SumOf(f, W) \in Int BY <1>3, SumRemove
<1> QED BY <1>1, <1>2, <1>4, <1>9, <1>10

\* As many participants as the polynomial has terms weigh its values up to its first
\* coefficient: by the terms, one after the other.
LEMMA ValuesInterpolate ==
  ASSUME NEW t, NEW coefficients, Polynomial(coefficients, t),
         NEW S \in SUBSET Units, t <= Cardinality(S)
  PROVE  /\ Weighted(S, Values(coefficients, S, 1..t)) \in Int
         /\ Eq(Weighted(S, Values(coefficients, S, 1..t)), coefficients[1])
<1>0. P \in Nat /\ P > 2 BY ThresholdScalarsAssumption
<1>1. t \in 1..P /\ 1 \in 1..t BY <1>0 DEF Polynomial
<1>2. PICK c : c = coefficients[1] OBVIOUS
<1>3. IsFiniteSet(1..t)
  <2>1. t \in Int /\ 1 \in Int BY <1>0, <1>1
  <2> QED BY <2>1, FS_Interval
<1>4. c \in Int
  <2>1. 1 \in Units BY <1>0 DEF Units
  <2> QED BY <1>1, <1>2, <2>1, TermsAre
<1>5. Cardinality(S) \in Nat
  <2>1. IsFiniteSet(S) BY UnitsAre, FS_Subset
  <2> QED BY <2>1, FS_CardinalityType
<1> DEFINE V(K) == Values(coefficients, S, K)
           Target(K) == IF 1 \in K THEN c ELSE 0
           Good(K) == Weighted(S, V(K)) \in Int /\ Eq(Weighted(S, V(K)), Target(K))
           Bad == {K \in SUBSET (1..t) : ~ Good(K)}
<1>6. ASSUME Bad # {} PROVE FALSE
  <2>0. PICK D : D = 1..t OBVIOUS
  <2>1. Bad \subseteq SUBSET D /\ Bad # {} /\ IsFiniteSet(D) BY <1>3, <1>6, <2>0
  <2> HIDE DEF Bad
  <2>2. PICK K \in Bad : \A X \in Bad : ~ (X \subseteq K /\ X # K)
    BY ONLY <2>1, FiniteMin
  <2>3. K \in SUBSET (1..t) /\ ~ Good(K) BY DEF Bad
  <2>4. IsFiniteSet(K) BY <1>3, <2>3, FS_Subset
  <2>5. \A x \in S, k \in K : Terms(coefficients, x)[k] \in Int BY <2>3, TermsAre
  <2>6. CASE K = {}
    <3>1. PICK p : p = V(K) OBVIOUS
    <3>2. \A x \in S : p[x] = 0
      <4> SUFFICES ASSUME NEW x \in S PROVE p[x] = 0 OBVIOUS
      <4>1. SumOf(Terms(coefficients, x), {}) = 0 BY <2>4, <2>5, SumRemove
      <4> QED BY <2>6, <3>1, <4>1 DEF Values
    <3>3. \A x \in S : p[x] \in Int /\ p[x] \in Int /\ p[x] \in Int /\ Eq(p[x], 0 * p[x] + 0 * p[x])
      <4>1. 0 * 0 + 0 * 0 = 0 /\ 0 \in Int OBVIOUS
      <4> QED BY <3>2, <4>1, EqMod
    <3>4. Weighted(S, p) \in Int /\ Eq(Weighted(S, p), 0 * Weighted(S, p) + 0 * Weighted(S, p))
      <4>1. 0 \in Int OBVIOUS
      <4> QED BY ONLY <3>3, <4>1, S \in SUBSET Units, WeightedLinear
    <3>5. PICK w : w = Weighted(S, p) OBVIOUS
    <3>6. w \in Int /\ 0 * w + 0 * w = 0 /\ Eq(w, 0 * w + 0 * w) BY <3>4, <3>5
    <3>7. Target(K) = 0 BY <2>6
    <3> QED BY <2>3, <3>1, <3>5, <3>6, <3>7
  <2>7. CASE K # {}
    <3>1. PICK j \in K : TRUE BY <2>7
    <3>2. PICK J : J = K \ {j} OBVIOUS
    <3>3. J \in SUBSET (1..t) /\ J \subseteq K /\ J # K /\ j \in 1..t BY <2>3, <3>1, <3>2
    <3>4. Good(J) BY <2>2, <3>3 DEF Bad
    <3>5. PICK p : p = modPow[j - 1] OBVIOUS
    <3>6. PICK q : q = V(J) OBVIOUS
    <3>7. PICK r : r = V(K) OBVIOUS
    <3>8. PICK a : a = coefficients[j] OBVIOUS
    <3>9. a \in Int /\ j - 1 \in 0..P /\ 1 \in Int
      <4>1. 1 \in Units BY <1>0 DEF Units
      <4> QED BY <3>3, <3>8, <4>1, TermsAre
    <3>10. \A x \in S : p[x] \in Int BY <3>5, <3>9, PowersAre
    <3>11. \A x \in S : /\ p[x] \in Int /\ q[x] \in Int /\ r[x] \in Int
                        /\ Eq(r[x], a * p[x] + 1 * q[x])
      <4> SUFFICES ASSUME NEW x \in S
                   PROVE  q[x] \in Int /\ r[x] \in Int /\ Eq(r[x], a * p[x] + 1 * q[x])
        BY <3>10
      <4>1. PICK f : f = Terms(coefficients, x) OBVIOUS
      <4>2. \A k \in K : f[k] \in Int BY <2>5, <4>1
      <4>3. SumOf(f, J) \in Int /\ SumOf(f, K) = f[j] + SumOf(f, J) BY <2>4, <3>1, <3>2, <4>2, SumRemove
      <4>4. q[x] = SumOf(f, J) /\ r[x] = SumOf(f, K) BY <3>6, <3>7, <4>1 DEF Values
      <4>5. f[j] = a * p[x] BY <3>3, <3>5, <3>8, <4>1, TermsAre
      <4>6. PICK u : u = p[x] OBVIOUS
      <4>7. PICK v : v = q[x] OBVIOUS
      <4>8. u \in Int /\ v \in Int /\ r[x] = a * u + v BY <3>10, <4>3, <4>4, <4>5, <4>6, <4>7
      <4>9. a * u + v \in Int /\ a * u + v = a * u + 1 * v BY <3>9, <4>8
      <4> QED BY <4>6, <4>7, <4>8, <4>9, EqMod
    <3>12. /\ Weighted(S, p) \in Int /\ Weighted(S, q) \in Int /\ Weighted(S, r) \in Int
           /\ Eq(Weighted(S, r), a * Weighted(S, p) + 1 * Weighted(S, q))
      BY ONLY <3>9, <3>11, S \in SUBSET Units, WeightedLinear
    <3>13. Interpolates(S, j - 1)
      <4>1. j - 1 \in 0..(Cardinality(S) - 1) BY <1>0, <1>1, <1>5, <3>3
      <4> QED BY <4>1, Interpolation
    <3> DEFINE A == Weighted(S, p)
               B == Weighted(S, q)
               R == Weighted(S, r)
               z == AtZero(j - 1)
               b == Target(J)
    <3>14. z \in Int /\ b \in Int BY <1>4 DEF AtZero
    <3>15. /\ A \in Int /\ B \in Int /\ R \in Int /\ Eq(R, a * A + 1 * B) /\ Eq(A, z) /\ Eq(B, b)
      BY <3>4, <3>5, <3>6, <3>12, <3>13 DEF Interpolates
    <3>16. a * z + b = Target(K)
      <4>1. CASE j = 1
        <5>1. z = 1 /\ b = 0 /\ Target(K) = c /\ a = c
          BY <1>2, <3>1, <3>2, <3>8, <4>1 DEF AtZero
        <5> HIDE DEF z, b, Target
        <5> QED BY <1>4, <5>1
      <4>2. CASE j # 1
        <5>1. j - 1 # 0 BY <1>0, <1>1, <3>3, <4>2
        <5>2. z = 0 /\ b = Target(K) BY <3>2, <4>2, <5>1 DEF AtZero
        <5> HIDE DEF Target, z, b
        <5> QED BY <3>9, <3>14, <5>2
      <4> QED BY <4>1, <4>2
    <3>17. Good(K) <=> R \in Int /\ Eq(R, Target(K)) BY <3>7
    <3> HIDE DEF A, B, R, z, b, Target, Good
    <3>18. 1 * B = B /\ a * A \in Int /\ a * z \in Int BY <3>9, <3>14, <3>15
    <3>19. Eq(a * A, a * z)
      <4>1. Eq(a, a) BY <3>9, EqMod
      <4> QED BY <3>9, <3>14, <3>15, <4>1, EqProduct
    <3>20. Eq(a * A + B, a * z + b) BY <3>14, <3>15, <3>18, <3>19, EqSum
    <3>21. Eq(R, Target(K)) BY <3>15, <3>16, <3>18, <3>20 DEF Eq
    <3> QED BY <2>3, <3>15, <3>17, <3>21
  <2> QED BY <2>6, <2>7
<1>7. Good(1..t) BY <1>6
<1>8. Target(1..t) = coefficients[1] BY <1>1, <1>2
<1> QED BY <1>7, <1>8

\* The shares of S that belong to the normalized key.
Shares(coefficients, S) == [x \in S |-> shareValue(coefficients, x)]

\* As many of them as the polynomial has terms weigh up to the normalized key.
LEMMA SharesInterpolate ==
  ASSUME NEW t, NEW coefficients, Polynomial(coefficients, t),
         NEW S \in SUBSET Units, t <= Cardinality(S)
  PROVE  /\ \A x \in S : shareValue(coefficients, x) \in Int
         /\ normalizeSparkPublicKey(coefficients[1]) \in Int
         /\ Weighted(S, Shares(coefficients, S)) \in Int
         /\ Eq(Weighted(S, Shares(coefficients, S)), normalizeSparkPublicKey(coefficients[1]))
<1>0. P \in Nat /\ P > 2 BY ThresholdScalarsAssumption
<1>1. PICK c : c = coefficients[1] OBVIOUS
<1>2. c \in Int
  <2>1. 1 \in Units BY <1>0 DEF Units
  <2>2. 1 \in 1..t BY <1>0 DEF Polynomial
  <2> QED BY <1>1, <2>1, <2>2, TermsAre
<1>3. PICK v : v = Values(coefficients, S, 1..t) OBVIOUS
<1>4. PICK q : q = Shares(coefficients, S) OBVIOUS
<1>5. \A x \in S : v[x] \in Int /\ splitShamirSecret(coefficients, x) = mod(v[x])
  <2> SUFFICES ASSUME NEW x \in S
               PROVE  v[x] \in Int /\ splitShamirSecret(coefficients, x) = mod(v[x])
    OBVIOUS
  <2>1. v[x] = SumOf(Terms(coefficients, x), 1..t) BY <1>3 DEF Values
  <2> QED BY <2>1, ShareIs
<1>6. Weighted(S, v) \in Int /\ Eq(Weighted(S, v), c) BY <1>1, <1>3, ValuesInterpolate
<1>7. PICK a : a = IF IsOdd(c) THEN -1 ELSE 1 OBVIOUS
<1>8. a \in Int BY <1>7
<1>9. /\ normalizeSparkPublicKey(coefficients[1]) \in Int
      /\ Eq(normalizeSparkPublicKey(coefficients[1]), a * c)
  <2>1. CASE IsOdd(c)
    <3>1. -c \in Int /\ a * c = -c BY <1>2, <1>7, <2>1
    <3>2. normalizeSparkPublicKey(coefficients[1]) = mod(-c)
      BY <1>1, <2>1 DEF normalizeSparkPublicKey
    <3> QED BY <3>1, <3>2, EqMod
  <2>2. CASE ~ IsOdd(c)
    <3>1. a * c = c BY <1>2, <1>7, <2>2
    <3>2. normalizeSparkPublicKey(coefficients[1]) = c BY <1>1, <2>2 DEF normalizeSparkPublicKey
    <3> QED BY <1>2, <3>1, <3>2, EqMod
  <2> QED BY <2>1, <2>2
<1>10. \A x \in S : /\ shareValue(coefficients, x) \in Int /\ Eq(shareValue(coefficients, x), a * v[x])
  <2> SUFFICES ASSUME NEW x \in S
               PROVE  /\ shareValue(coefficients, x) \in Int
                      /\ Eq(shareValue(coefficients, x), a * v[x])
    OBVIOUS
  <2>1. PICK u : u = v[x] OBVIOUS
  <2>2. PICK s : s = mod(u) OBVIOUS
  <2>3. u \in Int /\ s \in Int /\ Eq(s, u) /\ splitShamirSecret(coefficients, x) = s
    BY <1>5, <2>1, <2>2, EqMod
  <2>4. CASE IsOdd(c)
    <3>1. -s \in Int /\ a * u = -u BY <1>7, <2>3, <2>4
    <3>2. shareValue(coefficients, x) = mod(-s) BY <1>1, <2>3, <2>4 DEF shareValue
    <3>3. mod(-s) \in Int /\ Eq(mod(-s), -s) BY <3>1, EqMod
    <3>4. Eq(-s, -u) BY <2>3, EqSum
    <3> QED BY <2>1, <3>1, <3>2, <3>3, <3>4 DEF Eq
  <2>5. CASE ~ IsOdd(c)
    <3>1. a * u = u BY <1>7, <2>3, <2>5
    <3>2. shareValue(coefficients, x) = s BY <1>1, <2>3, <2>5 DEF shareValue
    <3> QED BY <2>1, <2>3, <3>1, <3>2
  <2> QED BY <2>4, <2>5
<1>11. \A x \in S : /\ v[x] \in Int /\ v[x] \in Int /\ q[x] \in Int /\ Eq(q[x], a * v[x] + 0 * v[x])
  <2> SUFFICES ASSUME NEW x \in S
               PROVE  v[x] \in Int /\ q[x] \in Int /\ Eq(q[x], a * v[x] + 0 * v[x])
    OBVIOUS
  <2>1. PICK u : u = v[x] OBVIOUS
  <2>2. u \in Int BY <1>5, <2>1
  <2>3. a * u + 0 * u = a * u BY <1>8, <2>2
  <2>4. q[x] = shareValue(coefficients, x) BY <1>4 DEF Shares
  <2> QED BY <1>10, <2>1, <2>2, <2>3, <2>4
<1>12. /\ Weighted(S, v) \in Int /\ Weighted(S, q) \in Int
       /\ Eq(Weighted(S, q), a * Weighted(S, v) + 0 * Weighted(S, v))
  <2>1. 0 \in Int OBVIOUS
  <2> QED BY ONLY <1>8, <1>11, <2>1, S \in SUBSET Units, WeightedLinear
<1> DEFINE V == Weighted(S, v)
           Q == Weighted(S, q)
           N == normalizeSparkPublicKey(coefficients[1])
<1>13. V \in Int /\ Q \in Int /\ N \in Int /\ Eq(V, c) /\ Eq(N, a * c) /\ Eq(Q, a * V + 0 * V)
  BY <1>6, <1>9, <1>12
<1> HIDE DEF V, Q, N
<1>14. a * V + 0 * V = a * V BY <1>8, <1>13
<1>15. Eq(a * V, a * c)
  <2>1. Eq(a, a) BY <1>8, EqMod
  <2> QED BY <1>2, <1>8, <1>13, <2>1, EqProduct
<1>16. Eq(Q, N) BY <1>13, <1>14, <1>15 DEF Eq
<1> QED BY <1>4, <1>9, <1>10, <1>13, <1>16 DEF Q, N

\* The selected shares, each with its coefficient, as signFrost adds them.
LEMMA SelectedTotal ==
  ASSUME NEW coefficients, NEW S \in SUBSET Units, \A x \in S : shareValue(coefficients, x) \in Int
  PROVE  Total(LAMBDA i : lagrangeCoefficientAtZero(i, S) * shareValue(coefficients, i), S)
           = mod(Weighted(S, Shares(coefficients, S)))
<1> DEFINE f == [x \in S |-> Coefficient(x, S) * Shares(coefficients, S)[x]]
<1>1. Weighted(S, Shares(coefficients, S)) = SumOf(f, S) BY DEF Weighted
<1>2. \A x \in S : /\ f[x] = lagrangeCoefficientAtZero(x, S) * shareValue(coefficients, x)
                   /\ f[x] \in Int
  <2> SUFFICES ASSUME NEW x \in S
               PROVE  /\ f[x] = lagrangeCoefficientAtZero(x, S) * shareValue(coefficients, x)
                      /\ f[x] \in Int
    OBVIOUS
  <2>1. f[x] = Coefficient(x, S) * shareValue(coefficients, x) BY DEF Shares
  <2>2. lagrangeCoefficientAtZero(x, S) = Coefficient(x, S) /\ Coefficient(x, S) \in Int
    BY LagrangeIs, ModScalar
  <2>3. shareValue(coefficients, x) \in Int OBVIOUS
  <2> HIDE DEF f
  <2> QED BY <2>1, <2>2, <2>3
<1> HIDE DEF f
<1> DEFINE Step(g) == g = [T \in SUBSET S |->
                            IF T = {} THEN 0
                            ELSE lagrangeCoefficientAtZero(Choice(T), S) * shareValue(coefficients, Choice(T))
                                   + g[T \ {Choice(T)}]]
<1>3. Total(LAMBDA i : lagrangeCoefficientAtZero(i, S) * shareValue(coefficients, i), S)
        = mod((CHOOSE g : Step(g))[S])
  BY DEF Total, MapThenSumSet, MapThenFoldSet, Choice
<1>4. ASSUME NEW T \in SUBSET S, T # {}
      PROVE  f[Choice(T)] = lagrangeCoefficientAtZero(Choice(T), S) * shareValue(coefficients, Choice(T))
  <2>1. Choice(T) \in T BY <1>4 DEF Choice
  <2>2. Choice(T) \in S BY <2>1
  <2> HIDE DEF Choice
  <2> QED BY <1>2, <2>2
<1>5. \A g : Step(g) <=> Sums(g, f, S)
  <2> SUFFICES ASSUME NEW g
               PROVE  Step(g) <=> Sums(g, f, S)
    OBVIOUS
  <2>1. [T \in SUBSET S |->
           IF T = {} THEN 0
           ELSE lagrangeCoefficientAtZero(Choice(T), S) * shareValue(coefficients, Choice(T))
                  + g[T \ {Choice(T)}]]
        = [T \in SUBSET S |-> IF T = {} THEN 0 ELSE f[Choice(T)] + g[T \ {Choice(T)}]]
    <3> HIDE DEF Step
    <3> QED BY <1>4
  <2> QED BY <2>1 DEF Sums
<1>6. IsFiniteSet(S) BY UnitsAre, FS_Subset
<1>7. (\E g : Sums(g, f, S)) /\ \A g : Sums(g, f, S) => g[S] = SumOf(f, S)
  BY <1>2, <1>6, SumsAre
<1> HIDE DEF Step
<1>8. Step(CHOOSE g : Step(g)) BY <1>5, <1>7
<1>9. (CHOOSE g : Step(g))[S] = SumOf(f, S) BY <1>5, <1>7, <1>8
<1> QED BY <1>1, <1>3, <1>9

\* What the selected shares make of a leaf of any tweak, and with any challenge, is
\* what the whole secret makes.
LEMMA SelectedShareIsWhole ==
  ASSUME NEW t, NEW coefficients, Polynomial(coefficients, t),
         NEW S \in SUBSET Units, t <= Cardinality(S),
         NEW tweak \in Int, NEW nonce \in Int, NEW challenge \in Int
  PROVE  signFrost(coefficients, S, tweak, nonce, challenge)
           = FrostShare(normalizeSparkPublicKey(coefficients[1]) + tweak, nonce, challenge)
<1> DEFINE w == Weighted(S, Shares(coefficients, S))
           N == normalizeSparkPublicKey(coefficients[1])
           total == Total(LAMBDA i : lagrangeCoefficientAtZero(i, S) * shareValue(coefficients, i), S)
<1>1. w \in Int /\ N \in Int /\ Eq(w, N) /\ \A x \in S : shareValue(coefficients, x) \in Int
  BY SharesInterpolate
<1>2. total = mod(w) BY <1>1, SelectedTotal
<1>3. PICK z1 : z1 = FrostShare(1, nonce, challenge) OBVIOUS
<1>4. PICK z2 : z2 = FrostShare(2, nonce, challenge) OBVIOUS
<1>5. PICK eff : eff = mod(z2 - z1) OBVIOUS
<1>6. PICK only : only = mod(z1 - eff) OBVIOUS
<1>7. signFrost(coefficients, S, tweak, nonce, challenge) = mod(only + eff * tweak + eff * total)
  BY <1>3, <1>4, <1>5, <1>6 DEF signFrost
<1>8. FrostShare(N + tweak, nonce, challenge) = mod(nonce + challenge * (N + tweak)) BY DEF FrostShare
<1> HIDE DEF w, N, total
<1>9. z1 \in Int /\ Eq(z1, nonce + challenge) /\ nonce + challenge \in Int
  <2>1. nonce + challenge * 1 = nonce + challenge /\ nonce + challenge \in Int OBVIOUS
  <2>2. z1 = mod(nonce + challenge) BY <1>3, <2>1 DEF FrostShare
  <2> QED BY <2>1, <2>2, EqMod
<1>10. z2 \in Int /\ Eq(z2, nonce + challenge * 2) /\ nonce + challenge * 2 \in Int
  <2>1. nonce + challenge * 2 \in Int OBVIOUS
  <2>2. z2 = mod(nonce + challenge * 2) BY <1>4 DEF FrostShare
  <2> QED BY <2>1, <2>2, EqMod
<1>11. eff \in Int /\ Eq(eff, challenge)
  <2>1. Eq(z2 - z1, (nonce + challenge * 2) - (nonce + challenge)) BY <1>9, <1>10, EqSum
  <2>2. (nonce + challenge * 2) - (nonce + challenge) = challenge OBVIOUS
  <2>3. z2 - z1 \in Int BY <1>9, <1>10
  <2>4. eff \in Int /\ Eq(eff, z2 - z1) BY <1>5, <2>3, EqMod
  <2> QED BY <2>1, <2>2, <2>4 DEF Eq
<1>12. only \in Int /\ Eq(only, nonce)
  <2>1. Eq(z1 - eff, (nonce + challenge) - challenge) BY <1>9, <1>11, EqSum
  <2>2. (nonce + challenge) - challenge = nonce OBVIOUS
  <2>3. z1 - eff \in Int BY <1>9, <1>11
  <2>4. only \in Int /\ Eq(only, z1 - eff) BY <1>6, <2>3, EqMod
  <2> QED BY <2>1, <2>2, <2>4 DEF Eq
<1>13. total \in Int /\ Eq(total, N)
  <2>1. total \in Int /\ Eq(total, w) BY <1>1, <1>2, EqMod
  <2> QED BY <1>1, <2>1 DEF Eq
<1>14. Eq(eff * tweak, challenge * tweak)
  <2>1. Eq(tweak, tweak) BY EqMod
  <2> QED BY <1>11, <2>1, EqProduct
<1>15. Eq(eff * total, challenge * N) BY <1>1, <1>11, <1>13, EqProduct
<1>16. /\ eff * tweak \in Int /\ challenge * tweak \in Int /\ eff * total \in Int /\ challenge * N \in Int
       /\ only + eff * tweak \in Int /\ nonce + challenge * tweak \in Int
  BY <1>1, <1>11, <1>12, <1>13
<1>17. Eq(only + eff * tweak, nonce + challenge * tweak) BY <1>12, <1>14, <1>16, EqSum
<1>18. Eq((only + eff * tweak) + eff * total, (nonce + challenge * tweak) + challenge * N)
  BY <1>15, <1>16, <1>17, EqSum
<1>19. (nonce + challenge * tweak) + challenge * N = nonce + challenge * (N + tweak) BY <1>1
<1>20. signFrost(coefficients, S, tweak, nonce, challenge) = FrostShare(N + tweak, nonce, challenge)
  BY <1>7, <1>8, <1>18, <1>19 DEF Eq
<1> QED BY <1>20 DEF N

-----------------------------------------------------------------------------
(***************************************************************************)
(* Signatures: the parts of the signers add up to that of the whole.       *)
(***************************************************************************)
\* The signers T, of different participants, and what each has for its part of the
\* signature of the whole, but for the nonce.
Different(T) ==
  /\ T \subseteq Signer /\ IsFiniteSet(T)
  /\ \A s, r \in T : IndexOf[s] = IndexOf[r] => s = r
ShareOf(coefficients, S, T) ==
  [s \in T |-> Coefficient(IndexOf[s], S) * shareValue(coefficients, IndexOf[s])]

\* Their participants are as many.
LEMMA IndexesAre ==
  ASSUME NEW T, Different(T)
  PROVE  /\ {IndexOf[s] : s \in T} \in SUBSET Units
         /\ IsFiniteSet({IndexOf[s] : s \in T})
         /\ Cardinality({IndexOf[s] : s \in T}) = Cardinality(T)
<1>1. T \subseteq Signer /\ IsFiniteSet(T) /\ \A s, r \in T : IndexOf[s] = IndexOf[r] => s = r
  BY DEF Different
<1>2. \A s \in T : IndexOf[s] \in Units BY <1>1, CeremonyAssumption DEF Units
<1>3. IsFiniteSet({IndexOf[s] : s \in T}) /\ Cardinality({IndexOf[s] : s \in T}) = Cardinality(T)
  BY ONLY <1>1, ImageFinite
<1> QED BY <1>2, <1>3

\* The sum over the signers is that over the participants.
LEMMA SharesOnto ==
  ASSUME NEW T, Different(T), NEW S, S = {IndexOf[s] : s \in T}, NEW coefficients,
         \A x \in S : shareValue(coefficients, x) \in Int
  PROVE  /\ \A s \in T : ShareOf(coefficients, S, T)[s] \in Int
         /\ SumOf(ShareOf(coefficients, S, T), T) = Weighted(S, Shares(coefficients, S))
<1>1. T \subseteq Signer /\ IsFiniteSet(T) /\ \A s, r \in T : IndexOf[s] = IndexOf[r] => s = r
  BY DEF Different
<1>2. S \in SUBSET Units BY IndexesAre
<1> DEFINE f == [x \in S |-> Coefficient(x, S) * Shares(coefficients, S)[x]]
<1>3. Weighted(S, Shares(coefficients, S)) = SumOf(f, S) BY DEF Weighted
<1>4. ASSUME NEW x \in S PROVE f[x] = Coefficient(x, S) * shareValue(coefficients, x) /\ f[x] \in Int
  <2>1. f[x] = Coefficient(x, S) * shareValue(coefficients, x) BY DEF Shares
  <2>2. Coefficient(x, S) \in Int /\ shareValue(coefficients, x) \in Int BY <1>2, CoefficientsAre
  <2> HIDE DEF f
  <2> QED BY <2>1, <2>2
<1> HIDE DEF f
<1>5. PICK e : e = ShareOf(coefficients, S, T) OBVIOUS
<1>6. \A s \in T : f[IndexOf[s]] \in Int /\ e[s] = f[IndexOf[s]]
  <2> SUFFICES ASSUME NEW s \in T PROVE f[IndexOf[s]] \in Int /\ e[s] = f[IndexOf[s]] OBVIOUS
  <2>1. IndexOf[s] \in S OBVIOUS
  <2>2. e[s] = Coefficient(IndexOf[s], S) * shareValue(coefficients, IndexOf[s]) BY <1>5 DEF ShareOf
  <2> QED BY <1>4, <2>1, <2>2
<1>7. Folded(e, 0, Plus, T) = Folded(f, 0, Plus, {IndexOf[s] : s \in T})
  BY ONLY <1>1, <1>6, PlusMonoid, FoldOnto
<1>8. SumOf(e, T) = SumOf(f, S) BY <1>7 DEF SumOf
<1> QED BY <1>3, <1>5, <1>6, <1>8

\* The nonces of the signers, added.
LEMMA NoncesTotal ==
  ASSUME NEW T, Different(T)
  PROVE  /\ \A s \in T : Nonce[s] \in Int
         /\ SumOf(Nonce, T) \in Int
         /\ Total(LAMBDA s : Nonce[s], T) = mod(SumOf(Nonce, T))
<1>1. T \subseteq Signer /\ IsFiniteSet(T) BY DEF Different
<1>2. \A s \in T : Nonce[s] \in Int
  <2>1. \A s \in T : Nonce[s] \in Scalar BY <1>1, CeremonyAssumption
  <2> QED BY <2>1, ModScalar
<1>3. SumOf(Nonce, T) \in Int BY <1>1, <1>2, SumRemove
<1>4. (\E g : Sums(g, Nonce, T)) /\ \A g : Sums(g, Nonce, T) => g[T] = SumOf(Nonce, T)
  BY <1>1, <1>2, SumsAre
<1>5. Total(LAMBDA s : Nonce[s], T) = mod((CHOOSE g : Sums(g, Nonce, T))[T])
  BY DEF Total, MapThenSumSet, MapThenFoldSet, Choice, Sums
<1> QED BY <1>2, <1>3, <1>4, <1>5

\* What each signer makes, for a challenge.
Parts(coefficients, S, T, challenge) ==
  [s \in T |-> mod(Nonce[s] + challenge * lagrangeCoefficientAtZero(IndexOf[s], S)
                                * shareValue(coefficients, IndexOf[s]))]

PartsSum(coefficients, S, T, challenge) ==
  Total(LAMBDA s : mod(Nonce[s] + challenge * lagrangeCoefficientAtZero(IndexOf[s], S)
                                    * shareValue(coefficients, IndexOf[s])), T)

\* Their sum, as aggregateAuthorizationSignature makes it.
LEMMA PartsTotal ==
  ASSUME NEW T, Different(T), NEW S, S = {IndexOf[s] : s \in T}, NEW coefficients,
         NEW challenge \in Int, \A x \in S : shareValue(coefficients, x) \in Int
  PROVE  /\ \A s \in T : /\ Parts(coefficients, S, T, challenge)[s] \in Int
                         /\ Eq(Parts(coefficients, S, T, challenge)[s],
                               1 * Nonce[s] + challenge * ShareOf(coefficients, S, T)[s])
         /\ PartsSum(coefficients, S, T, challenge) = mod(SumOf(Parts(coefficients, S, T, challenge), T))
<1>1. T \subseteq Signer /\ IsFiniteSet(T) BY DEF Different
<1>2. PICK f : f = Parts(coefficients, S, T, challenge) OBVIOUS
<1>3. ASSUME NEW s \in T
      PROVE  /\ f[s] = mod(Nonce[s] + challenge * lagrangeCoefficientAtZero(IndexOf[s], S)
                                         * shareValue(coefficients, IndexOf[s]))
             /\ f[s] \in Int
             /\ Eq(f[s], 1 * Nonce[s] + challenge * ShareOf(coefficients, S, T)[s])
  <2>1. PICK l : l = lagrangeCoefficientAtZero(IndexOf[s], S) OBVIOUS
  <2>2. PICK v : v = shareValue(coefficients, IndexOf[s]) OBVIOUS
  <2>3. PICK n : n = Nonce[s] OBVIOUS
  <2>4. IndexOf[s] \in S /\ S \in SUBSET Units BY IndexesAre
  <2>5. l = Coefficient(IndexOf[s], S) /\ l \in Int BY <2>1, <2>4, LagrangeIs, ModScalar
  <2>6. v \in Int /\ n \in Int BY <2>2, <2>3, <2>4, NoncesTotal
  <2>7. ShareOf(coefficients, S, T)[s] = l * v BY <2>2, <2>5 DEF ShareOf
  <2>8. f[s] = mod(n + challenge * l * v) BY <1>2, <2>1, <2>2, <2>3 DEF Parts
  <2>9. n + challenge * l * v \in Int /\ n + challenge * l * v = 1 * n + challenge * (l * v)
    BY <2>5, <2>6
  <2>10. f[s] \in Int /\ Eq(f[s], n + challenge * l * v) BY <2>8, <2>9, EqMod
  <2> QED BY <2>1, <2>2, <2>3, <2>7, <2>8, <2>9, <2>10
<1> DEFINE Step(g) == g = [U \in SUBSET T |->
                            IF U = {} THEN 0
                            ELSE mod(Nonce[Choice(U)] + challenge * lagrangeCoefficientAtZero(IndexOf[Choice(U)], S)
                                                          * shareValue(coefficients, IndexOf[Choice(U)]))
                                   + g[U \ {Choice(U)}]]
<1>4. PartsSum(coefficients, S, T, challenge) = mod((CHOOSE g : Step(g))[T])
  BY DEF PartsSum, Total, MapThenSumSet, MapThenFoldSet, Choice
<1>5. ASSUME NEW U \in SUBSET T, U # {}
      PROVE  f[Choice(U)] = mod(Nonce[Choice(U)] + challenge * lagrangeCoefficientAtZero(IndexOf[Choice(U)], S)
                                                     * shareValue(coefficients, IndexOf[Choice(U)]))
  <2>1. Choice(U) \in U BY <1>5 DEF Choice
  <2>2. Choice(U) \in T BY <2>1
  <2> HIDE DEF Choice
  <2> QED BY <1>3, <2>2
<1>6. \A g : Step(g) <=> Sums(g, f, T)
  <2> SUFFICES ASSUME NEW g
               PROVE  Step(g) <=> Sums(g, f, T)
    OBVIOUS
  <2>1. [U \in SUBSET T |->
           IF U = {} THEN 0
           ELSE mod(Nonce[Choice(U)] + challenge * lagrangeCoefficientAtZero(IndexOf[Choice(U)], S)
                                         * shareValue(coefficients, IndexOf[Choice(U)]))
                  + g[U \ {Choice(U)}]]
        = [U \in SUBSET T |-> IF U = {} THEN 0 ELSE f[Choice(U)] + g[U \ {Choice(U)}]]
    <3> HIDE DEF Step
    <3> QED BY <1>5
  <2> QED BY <2>1 DEF Sums
<1>7. (\E g : Sums(g, f, T)) /\ \A g : Sums(g, f, T) => g[T] = SumOf(f, T)
  BY <1>1, <1>3, SumsAre
<1> HIDE DEF Step
<1>8. Step(CHOOSE g : Step(g)) BY <1>6, <1>7
<1>9. (CHOOSE g : Step(g))[T] = SumOf(f, T) BY <1>6, <1>7, <1>8
<1> QED BY <1>2, <1>3, <1>4, <1>9

\* For enough participants, and only then are there indexes for them, a key is a
\* polynomial whose exponents modPow has.
LEMMA KeyIsPolynomial ==
  ASSUME NEW S \in SUBSET Units, Threshold <= Cardinality(S), NEW k \in Key
  PROVE  Polynomial(k, Threshold)
<1>0. P \in Nat /\ P > 2 BY ThresholdScalarsAssumption
<1>1. IsFiniteSet(S) /\ Cardinality(S) \in Nat /\ Cardinality(S) <= P - 1
  BY UnitsAre, FS_Subset, FS_CardinalityType
<1>2. Threshold \in Nat \ {0} /\ k \in [1..Threshold -> Scalar] BY CeremonyAssumption
<1>3. Threshold \in 1..P BY <1>0, <1>1, <1>2
<1> QED BY <1>2, <1>3 DEF Polynomial

\* What Threshold signers of different participants make together is the signature
\* of the whole.
LEMMA DifferentSign ==
  ASSUME NEW signers, Different(ToSet(signers)), Cardinality(ToSet(signers)) = Threshold,
         NEW k \in Key, NEW v \in Proposer
  PROVE  AggregateZ(signers, v, k) = WholeZ(signers, v, k)
<1>0. P \in Nat /\ P > 2 BY ThresholdScalarsAssumption
<1>1. PICK T : T = ToSet(signers) OBVIOUS
<1>2. PICK S : S = {IndexOf[s] : s \in T} OBVIOUS
<1>3. S = IndexesOf(signers) BY <1>1, <1>2 DEF IndexesOf
<1>4. Different(T) /\ IsFiniteSet(T) BY <1>1 DEF Different
<1>5. S \in SUBSET Units /\ Cardinality(S) = Threshold BY <1>1, <1>2, <1>4, IndexesAre
<1>6. Polynomial(k, Threshold) /\ Threshold <= Cardinality(S)
  <2>1. Threshold \in Nat BY CeremonyAssumption
  <2>2. Threshold <= Cardinality(S) BY <1>5, <2>1
  <2> QED BY <1>5, <2>2, KeyIsPolynomial
<1> DEFINE N == normalizeSparkPublicKey(k[1])
           w == Weighted(S, Shares(k, S))
<1>7. w \in Int /\ N \in Int /\ Eq(w, N) /\ \A x \in S : shareValue(k, x) \in Int
  BY <1>5, <1>6, SharesInterpolate
<1>8. PICK n : n = SumOf(Nonce, T) OBVIOUS
<1>9. PICK nonces : nonces = mod(n) OBVIOUS
<1>10. n \in Int /\ AggregateNonce(signers) = nonces /\ \A s \in T : Nonce[s] \in Int
  BY <1>1, <1>4, <1>8, <1>9, NoncesTotal DEF AggregateNonce
<1>11. nonces \in Scalar /\ nonces \in Int /\ Eq(nonces, n) BY <1>9, <1>10, EqMod
<1>12. PICK challenge : challenge = Challenge(nonces, v) OBVIOUS
<1>13. challenge \in Int
  <2>1. challenge \in Scalar BY <1>11, <1>12, CeremonyAssumption
  <2> QED BY <2>1, ModScalar
<1>14. WholeZ(signers, v, k) = mod(nonces + challenge * N) BY <1>10, <1>12 DEF WholeZ
<1>15. PICK parts : parts = Parts(k, S, T, challenge) OBVIOUS
<1>16. PICK shares : shares = ShareOf(k, S, T) OBVIOUS
<1>17. /\ \A s \in T : parts[s] \in Int /\ Eq(parts[s], 1 * Nonce[s] + challenge * shares[s])
       /\ AggregateZ(signers, v, k) = mod(SumOf(parts, T))
  <2>1. AggregateZ(signers, v, k) = PartsSum(k, S, T, challenge)
    BY <1>1, <1>3, <1>10, <1>12 DEF AggregateZ, PartsSum
  <2>2. \A x \in S : shareValue(k, x) \in Int BY <1>7
  <2>3. /\ \A s \in T : /\ Parts(k, S, T, challenge)[s] \in Int
                         /\ Eq(Parts(k, S, T, challenge)[s],
                               1 * Nonce[s] + challenge * ShareOf(k, S, T)[s])
        /\ PartsSum(k, S, T, challenge) = mod(SumOf(Parts(k, S, T, challenge), T))
    BY ONLY <1>2, <1>4, <1>13, <2>2, PartsTotal
  <2> QED BY <1>15, <1>16, <2>1, <2>3
<1>18. (\A s \in T : shares[s] \in Int) /\ SumOf(shares, T) = w
  BY <1>2, <1>4, <1>7, <1>16, SharesOnto
<1>19. SumOf(parts, T) \in Int /\ Eq(SumOf(parts, T), 1 * SumOf(Nonce, T) + challenge * SumOf(shares, T))
  <2>1. 1 \in Int OBVIOUS
  <2>2. \A s \in T : /\ Nonce[s] \in Int /\ shares[s] \in Int /\ parts[s] \in Int
                     /\ Eq(parts[s], 1 * Nonce[s] + challenge * shares[s])
    BY <1>10, <1>17, <1>18
  <2> QED BY ONLY <1>4, <1>13, <2>1, <2>2, SumLinear
<1>20. PICK z : z = SumOf(parts, T) OBVIOUS
<1>21. z \in Int /\ Eq(z, 1 * n + challenge * w) BY <1>8, <1>18, <1>19, <1>20
<1>22. AggregateZ(signers, v, k) = mod(z) BY <1>17, <1>20
<1> HIDE DEF N, w
<1>23. 1 * n = n /\ challenge * w \in Int /\ challenge * N \in Int BY <1>7, <1>10, <1>13
<1>24. Eq(n, nonces)  BY <1>11 DEF Eq
<1>25. Eq(challenge * w, challenge * N)
  <2>1. Eq(challenge, challenge) BY <1>13, EqMod
  <2> QED BY <1>7, <1>13, <2>1, EqProduct
<1>26. Eq(n + challenge * w, nonces + challenge * N) BY <1>10, <1>11, <1>23, <1>24, <1>25, EqSum
<1> QED BY <1>14, <1>21, <1>22, <1>23, <1>26 DEF Eq

\* Any Threshold signers of different participants do, in any order.
LEMMA ThresholdSharesAddUp == SharesAddUp
<1> SUFFICES ASSUME NEW k \in Key, NEW v \in Proposer, NEW signers \in [1..Threshold -> Signer],
                    \A i, j \in 1..Threshold : IndexOf[signers[i]] = IndexOf[signers[j]] => i = j
             PROVE  AggregateZ(signers, v, k) = WholeZ(signers, v, k)
  BY DEF SharesAddUp
<1>1. PICK D : D = 1..Threshold OBVIOUS
<1>2. IsFiniteSet(D) /\ Cardinality(D) = Threshold
  <2>1. Threshold \in Nat \ {0} BY CeremonyAssumption
  <2>2. 1 \in Int /\ Threshold \in Int /\ ~ (1 > Threshold) /\ (Threshold - 1) + 1 = Threshold BY <2>1
  <2> QED BY <1>1, <2>2, FS_Interval
<1>3. PICK T : T = {signers[i] : i \in D} OBVIOUS
<1>4. ToSet(signers) = T BY <1>1, <1>3 DEF ToSet
<1>5. \A i, j \in D : signers[i] = signers[j] => i = j BY <1>1
<1>6. IsFiniteSet(T) /\ Cardinality(T) = Cardinality(D) BY ONLY <1>2, <1>3, <1>5, ImageFinite
<1>7. Different(T)
  <2>1. T \subseteq Signer BY <1>1, <1>3
  <2>2. \A s, r \in T : IndexOf[s] = IndexOf[r] => s = r BY <1>1, <1>3
  <2> QED BY <1>6, <2>1, <2>2 DEF Different
<1>8. Different(ToSet(signers)) /\ Cardinality(ToSet(signers)) = Threshold BY <1>2, <1>4, <1>6, <1>7
<1> QED BY <1>8, DifferentSign

-----------------------------------------------------------------------------
(***************************************************************************)
(* What the proposals say.  As long as the key stays, each names it, one   *)
(* that has too few signers is not aggregated, and one that is verifies.   *)
(***************************************************************************)
Valid(q, k) ==
  /\ q.key = k
  /\ q.status = "collecting" => Len(q.signers) < Threshold
  /\ q.status = "aggregated" => Verifies(q, k)
Keyed ==
  /\ key \in Key
  /\ "rekeyed" \notin history =>
       /\ file # NoFile => Valid(file, key)
       /\ \A c \in Running : Valid(held[c], key)

\* The command that moves holds, and leaves in the file, what is valid.
LEMMA KeyedStays ==
  ASSUME Control, Keyed, history \subseteq history', UNCHANGED key,
         NEW c \in Command, NEW there, Goto(c, there),
         NEW h, held' = [held EXCEPT ![c] = h],
         "rekeyed" \notin history => there = "over" \/ Valid(h, key),
         "rekeyed" \notin history => file' = NoFile \/ Valid(file', key)
  PROVE  Keyed'
<1> SUFFICES ASSUME "rekeyed" \notin history'
             PROVE  \A d \in Running' : Valid(held'[d], key)
  BY DEF Keyed
<1>1. /\ \A d \in Command \ {c} : pc'[d] = pc[d] /\ held'[d] = held[d]
      /\ pc'[c] = there /\ held'[c] = h
  BY DEF Control, Goto
<1>2. \A d \in Running' : d # c => d \in Running
  BY <1>1 DEF Running
<1>3. c \in Running' => there # "over"
  BY <1>1 DEF Running
<1> QED
  BY <1>1, <1>2, <1>3 DEF Keyed, Running

\* To record what was done leaves a proposal valid.
LEMMA SameIsValid ==
  ASSUME NEW q, NEW r, SameProposal(q, r), NEW k, Valid(q, k)
  PROVE  Valid(r, k)
BY DEF Valid, SameProposal, Verifies

LEMMA KeyedStep ==
  ASSUME Files, Keyed, [Next]_vars
  PROVE  Keyed'
<1>0. Control /\ InFile /\ history \subseteq history' /\ held = [d \in Command |-> held[d]]
  BY HistoryStays DEF Files, Control
<1>1. CASE UNCHANGED vars
  BY <1>1 DEF vars, Keyed, Running
<1>2. CASE runKeygen
  BY <1>2 DEF runKeygen, Keyed, Running
<1>3. ASSUME NEW c \in Command, ProposeStart(c) PROVE Keyed'
  <2>1. Goto(c, "write") /\ UNCHANGED <<key, file>> /\ held' = [held EXCEPT ![c] = Fresh(c, key)]
    BY <1>3 DEF ProposeStart, Fresh
  <2>2. Valid(Fresh(c, key), key)
    <3>1. /\ Fresh(c, key).key = key /\ Fresh(c, key).status = "collecting"
          /\ Fresh(c, key).signers = <<>>
      BY FreshRecord
    <3>2. Len(<<>>) < Threshold
      BY CeremonyAssumption
    <3> QED
      BY <3>1, <3>2 DEF Valid
  <2> QED
    BY <1>0, <2>1, <2>2, KeyedStays DEF Keyed
<1>4. ASSUME NEW c \in Command, ProposeWrite(c) PROVE Keyed'
  <2>1. c \in Running /\ Ends(c) /\ file' = held[c] /\ UNCHANGED key
    BY <1>4 DEF ProposeWrite, Running
  <2> QED
    BY <1>0, <2>1, KeyedStays DEF Keyed, Ends
<1>5. ASSUME NEW c \in Command, SignRead(c) \/ ExecuteRead(c) PROVE Keyed'
  <2>1. /\ file # NoFile /\ UNCHANGED <<key, file>>
        /\ \/ Ends(c)
           \/ (\E there : Goto(c, there)) /\ held' = [held EXCEPT ![c] = file]
    BY <1>5 DEF SignRead, ExecuteRead
  <2> QED
    BY <1>0, <2>1, KeyedStays DEF Keyed, Ends
<1>6. ASSUME NEW c \in Command, SignWrite(c) PROVE Keyed'
  <2>1. /\ c \in Signer /\ pc[c] = "write" /\ Ends(c) /\ UNCHANGED key
        /\ SignWrites(c) \/ UNCHANGED <<file, signed, used>>
    BY <1>0, <1>6, SignWriteCases
  <2>2. CASE UNCHANGED file
    BY <1>0, <2>1, <2>2, KeyedStays DEF Keyed, Ends
  <2>3. ASSUME SignWrites(c), "rekeyed" \notin history PROVE Valid(file', key)
    <3> DEFINE w == WithShare(c)
    <3>1. /\ w = [by |-> held[c].by, key |-> held[c].key, signers |-> Append(held[c].signers, c),
                  status |-> held[c].status, z |-> held[c].z, claim |-> held[c].claim,
                  result |-> held[c].result]
          /\ Proper(held[c], pc, signed) /\ MaySign(c, held[c])
      BY <1>0, <2>1, ShareIsAnother
    <3>2. held[c].key = key
      BY <2>1, <2>3 DEF Keyed, Valid, Running
    <3>3. IsProposal(w) /\ w.key = key /\ w.status = "collecting"
      BY <3>1, <3>2 DEF IsProposal, Proper, MaySign
    <3>4. CASE Len(w.signers) < Threshold /\ file' = w
      BY <3>3, <3>4 DEF Valid
    <3>5. CASE Verifies(Aggregated(w), key) /\ file' = Aggregated(w)
      <4>1. Aggregated(w).status = "aggregated" /\ Aggregated(w).key = key
        BY <3>3, AggregateRecord
      <4> QED
        BY <3>5, <4>1 DEF Valid
    <3> QED
      BY <2>3, <3>4, <3>5 DEF SignWrites
  <2> QED
    BY <1>0, <2>1, <2>2, <2>3, KeyedStays DEF Ends
<1>7. ASSUME NEW c \in Command, ClaimDeposit(c) \/ Pay(c) PROVE Keyed'
  <2>1. /\ c \in Running /\ (\E there : Goto(c, there)) /\ UNCHANGED <<key, file, held>>
    BY <1>7 DEF ClaimDeposit, Pay, Running
  <2>2. held' = [held EXCEPT ![c] = held[c]]
    BY <1>0, <2>1
  <2> QED
    BY <1>0, <2>1, <2>2, KeyedStays DEF Keyed
<1>8. ASSUME NEW c \in Command, RecordClaim(c) \/ RecordResult(c) PROVE Keyed'
  <2>1. /\ c \in Running /\ pc[c] \in Executing /\ UNCHANGED key
        /\ file' = [held[c] EXCEPT !.claim = TRUE] \/ file' = [held[c] EXCEPT !.result = TRUE]
    BY <1>8 DEF RecordClaim, RecordResult, Running, Executing
  <2>2. \/ Ends(c)
        \/ (\E there : Goto(c, there)) /\ held' = [held EXCEPT ![c] = file']
    BY <1>8 DEF RecordClaim, RecordResult
  <2>3. SameProposal(held[c], file')
    BY <1>0, <2>1, ExecutorHolds, RecordIsProper
  <2>4. "rekeyed" \notin history => Valid(file', key)
    BY <2>1, <2>3, SameIsValid DEF Keyed
  <2> QED
    BY <1>0, <2>1, <2>2, <2>4, KeyedStays DEF Ends
<1>9. ASSUME NEW c \in Command, ExecuteThrows(c) \/ Killed(c) PROVE Keyed'
  <2>1. Ends(c) /\ UNCHANGED <<key, file>>
    BY <1>9 DEF ExecuteThrows, Killed
  <2> QED
    BY <1>0, <2>1, KeyedStays DEF Keyed, Ends
<1> QED
  BY <1>1, <1>2, <1>3, <1>4, <1>5, <1>6, <1>7, <1>8, <1>9 DEF Next

\* As many participants sign a proposal as its file names.
LEMMA IndexesCount ==
  ASSUME NEW q, Proper(q, pc, signed)
  PROVE  Cardinality(IndexesOf(q.signers)) = Len(q.signers)
<1> DEFINE n == Len(q.signers)
           T == IndexesOf(q.signers)
           f == [i \in 1..n |-> IndexOf[q.signers[i]]]
<1>1. q.signers \in Seq(Signer) /\ n \in Nat /\ DOMAIN q.signers = 1..n
  BY DEF Proper
<1>2. T = {IndexOf[q.signers[i]] : i \in 1..n}
  BY <1>1 DEF IndexesOf, ToSet
<1>3. f \in Bijection(1..n, T)
  <2>1. f \in [1..n -> T]
    BY <1>2
  <2>2. \A t \in T : \E i \in 1..n : f[i] = t
    BY <1>2
  <2>3. \A i, j \in 1..n : f[i] = f[j] => i = j
    BY DEF Proper
  <2> QED
    BY <2>1, <2>2, <2>3 DEF Bijection, Injection, Surjection, IsInjective
<1>4. IsFiniteSet(1..n) /\ Cardinality(1..n) = n
  BY <1>1, FS_Interval
<1>5. ExistsBijection(1..n, T)
  BY <1>3 DEF ExistsBijection
<1> QED
  BY <1>4, <1>5, FS_Bijection

\* The last signer of a proposal makes a signature that verifies.
LEMMA LastShareVerifies ==
  ASSUME Files, Keyed, NEW c \in Signer, pc[c] = "write",
         Len(held[c].signers) + 1 = Threshold
  PROVE  Verifies(Aggregated(WithShare(c)), key)
<1> DEFINE w == WithShare(c)
           n == Len(held[c].signers)
<1>1. /\ w = [by |-> held[c].by, key |-> held[c].key, signers |-> Append(held[c].signers, c),
              status |-> held[c].status, z |-> held[c].z, claim |-> held[c].claim,
              result |-> held[c].result]
      /\ w.signers \in Seq(Signer) /\ Len(w.signers) = n + 1
      /\ Proper(held[c], pc, signed)
      /\ \A i, j \in 1..(n + 1) : IndexOf[w.signers[i]] = IndexOf[w.signers[j]] => i = j
  BY ShareIsAnother DEF Files
<1>2. w.signers \in [1..Threshold -> Signer] /\ w.by \in Proposer /\ key \in Key
  <2>1. w.by \in Proposer /\ key \in Key
    BY <1>1 DEF Proper, Keyed
  <2>2. w.signers \in Seq(Signer) /\ Len(w.signers) = Threshold
    BY <1>1
  <2> HIDE DEF w
  <2> QED
    BY <2>1, <2>2
<1>3. AggregateZ(w.signers, w.by, key) = WholeZ(w.signers, w.by, key)
  BY <1>1, <1>2, ThresholdSharesAddUp DEF SharesAddUp
<1>4. IsProposal(w)
  BY <1>1 DEF IsProposal
<1>5. /\ Aggregated(w).z = AggregateZ(w.signers, w.by, key)
      /\ Aggregated(w).signers = w.signers /\ Aggregated(w).by = w.by
  BY <1>4, AggregateRecord
<1> QED
  BY <1>3, <1>5 DEF Verifies

\* So it is always.
LEMMA KeyedAlways == Spec => []Keyed
<1>1. Init => Keyed
  BY DEF Init, Keyed, Running
<1> QED
  BY <1>1, KeyedStep, FilesAlways, PTL DEF Spec

(***************************************************************************)
(* The files and commands of the ceremony never lose what the algebra      *)
(* gives, in any order and with any kills, as long as keygen is not run    *)
(* again: a file with enough signers has a signature that verifies with    *)
(* the key it names, one with fewer has none, and runSign turns no last    *)
(* signer away.                                                            *)
(***************************************************************************)
THEOREM AggregatesAreValid == Spec => []AggregateIsValid
<1>1. ASSUME Files, Keyed PROVE AggregateIsValid
  <2> SUFFICES ASSUME "rekeyed" \notin history
      PROVE  /\ file.status = "aggregated" <=> Cardinality(IndexesOf(file.signers)) >= Threshold
             /\ file.status = "aggregated" => Verifies(file, file.key)
             /\ \A c \in Signer :
                  pc[c] = "write" /\ Len(held[c].signers) + 1 = Threshold
                    => Verifies(Aggregated(WithShare(c)), held[c].key)
    BY DEF AggregateIsValid
  <2>1. \A c \in Signer : pc[c] = "write" => held[c].key = key
    BY <1>1 DEF Keyed, Valid, Running, Command
  <2>2. \A c \in Signer :
          pc[c] = "write" /\ Len(held[c].signers) + 1 = Threshold
            => Verifies(Aggregated(WithShare(c)), held[c].key)
    BY <1>1, <2>1, LastShareVerifies
  <2>3. CASE file = NoFile
    <3>1. IndexesOf(file.signers) = {} /\ file.status = "none"
      BY <2>3 DEF NoFile, IndexesOf, ToSet
    <3>2. Cardinality(IndexesOf(file.signers)) = 0
      BY <3>1, FS_EmptySet
    <3> QED
      BY <2>2, <3>1, <3>2, CeremonyAssumption
  <2>4. CASE file # NoFile
    <3>1. Proper(file, pc, signed) /\ Valid(file, key)
      BY <1>1, <2>4 DEF Files, InFile, Keyed
    <3>2. Cardinality(IndexesOf(file.signers)) = Len(file.signers) /\ Len(file.signers) \in Nat
      BY <3>1, IndexesCount DEF Proper
    <3> QED
      BY <2>2, <3>1, <3>2, CeremonyAssumption DEF Proper, Valid
  <2> QED
    BY <2>3, <2>4
<1> QED
  BY <1>1, KeyedAlways, FilesAlways, PTL

(***************************************************************************)
(* What the signers of an aggregated proposal make of a leaf, whatever its *)
(* tweak, is what the whole secret would make: also after keygen was run   *)
(* again, and with more signers than the threshold asks for.               *)
(***************************************************************************)
THEOREM LeafSharesAreWhole == Spec => []LeafShareIsOfTheWhole
<1>1. ASSUME Files, Keyed PROVE LeafShareIsOfTheWhole
  <2> SUFFICES ASSUME file.status = "aggregated",
                      NEW nonce \in Sample, NEW challenge \in Sample, NEW tweak \in Sample
               PROVE  signFrost(key, IndexesOf(file.signers), tweak, nonce, challenge)
                        = FrostShare(normalizeSparkPublicKey(key[1]) + tweak, nonce, challenge)
    BY DEF LeafShareIsOfTheWhole
  <2>1. nonce \in Int /\ challenge \in Int /\ tweak \in Int
    BY ThresholdScalarsAssumption DEF Sample
  <2>2. file # NoFile
    BY DEF NoFile
  <2>3. Proper(file, pc, signed)
    BY <1>1, <2>2 DEF Files, InFile
  <2>4. PICK S : S = IndexesOf(file.signers)
    OBVIOUS
  <2>5. S \in SUBSET Units
    <3>1. file.signers \in Seq(Signer)
      BY <2>3 DEF Proper
    <3>2. ToSet(file.signers) \subseteq Signer
      BY <3>1 DEF ToSet
    <3> QED
      BY <2>4, <3>2, CeremonyAssumption DEF IndexesOf, Units
  <2>6. Threshold <= Cardinality(S)
    <3>1. Cardinality(S) = Len(file.signers) /\ Len(file.signers) >= Threshold
      BY <2>3, <2>4, IndexesCount DEF Proper
    <3>2. file.signers \in Seq(Signer)
      BY <2>3 DEF Proper
    <3> QED
      BY <3>1, <3>2, CeremonyAssumption
  <2>7. Polynomial(key, Threshold)
    BY <1>1, <2>5, <2>6, KeyIsPolynomial DEF Keyed
  <2> QED
    BY <2>1, <2>4, <2>5, <2>6, <2>7, SelectedShareIsWhole
<1> QED
  BY <1>1, KeyedAlways, FilesAlways, PTL
=============================================================================
