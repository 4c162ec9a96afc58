-------------------------- MODULE ConnectionsProofs --------------------------
(***************************************************************************)
(* Theorems of Connections, for any number of instances and callers: about *)
(* those who wait for a channel, and about the channels and their users.   *)
(***************************************************************************)
EXTENDS Connections, FiniteSetTheorems, TLAPS

Place == Authenticating \cup {"idle", "acquire", "channel", "call", "send", "resend", "over"}

\* What the argument needs of the types.
Shape ==
  /\ creating \in [Key -> Nat] /\ created \in Nat
  /\ auth \in {"none", "channel", "challenge"}
  /\ pc \in [Caller -> Place]

\* A channel is being created exactly while someone waits for it.
WaitsFor(k) == Waits(k) # {} \/ (auth = "channel" /\ k = "unary")
Created == \A k \in Key : creating[k] # None <=> WaitsFor(k)

LEMMA JoinersWait == ASSUME NEW k \in Key PROVE WaitsFor(k) <=> Joiners(k) > 0
  <1>1. IsFiniteSet(Waits(k))
    BY ConnectionsAssumption, FS_Subset DEF ConnectionsAssumption, Waits
  <1>2. Cardinality(Waits(k)) \in Nat /\ (Cardinality(Waits(k)) = 0 <=> Waits(k) = {})
    BY <1>1, FS_CardinalityType, FS_EmptySet
  <1> QED
    BY <1>2 DEF WaitsFor, Joiners

LEMMA CreatedInit == Init => Shape /\ Created
  BY DEF Init, Shape, Created, WaitsFor, Waits, Place, Key, None

LEMMA KeyType == \A t \in ClientType : makeChannelKey(t) \in Key
  BY DEF makeChannelKey, Key, ClientType

\* A step that neither changes what is being created nor who waits for it.
LEMMA QuietStep ==
  ASSUME Shape, Created, Shape',
         creating' = creating, auth' = "channel" <=> auth = "channel",
         \A c \in Caller : pc'[c] = "channel" <=> pc[c] = "channel"
  PROVE  Created'
  <1>1. \A k \in Key : WaitsFor(k)' <=> WaitsFor(k)
    BY DEF WaitsFor, Waits
  <1> QED
    BY <1>1 DEF Created

\* Places a Caller goes to where it does not wait for a channel.
LEMMA GotoQuiet ==
  ASSUME Shape, NEW c \in Caller, NEW place \in Place, pc[c] # "channel", place # "channel",
         Goto(c, place)
  PROVE  /\ pc' \in [Caller -> Place]
         /\ \A d \in Caller : pc'[d] = "channel" <=> pc[d] = "channel"
  BY DEF Shape, Goto

LEMMA CreatedStep == Shape /\ Created /\ [Next]_vars => (Shape /\ Created)'
  <1> SUFFICES ASSUME Shape, Created, [Next]_vars PROVE (Shape /\ Created)'
    OBVIOUS
  <1>1. ASSUME NEW c \in Caller, CreateClient(c) PROVE (Shape /\ Created)'
    <2>1. PICK place \in {"call", "auth"} : Goto(c, place)
      BY <1>1 DEF CreateClient
    <2>2. place \in Place /\ place # "channel" /\ pc[c] # "channel"
      BY <1>1 DEF CreateClient, Place, Authenticating
    <2>3. creating' = creating /\ created' = created /\ auth' = auth
      BY <1>1 DEF CreateClient, channelVars, authVars
    <2> QED
      BY <2>1, <2>2, <2>3, GotoQuiet, QuietStep DEF Shape
  <1>2. ASSUME NEW c \in Caller, HasToken(c) PROVE (Shape /\ Created)'
    <2>1. /\ Goto(c, After(pc[c])) /\ After(pc[c]) \in Place
          /\ After(pc[c]) # "channel" /\ pc[c] # "channel"
      BY <1>2 DEF HasToken, After, Place, Authenticating
    <2>2. creating' = creating /\ created' = created /\ auth' = auth
      BY <1>2 DEF HasToken, channelVars, authVars
    <2> QED
      BY <2>1, <2>2, GotoQuiet, QuietStep DEF Shape
  <1>3. ASSUME NEW c \in Caller, AuthStart(c) PROVE (Shape /\ Created)'
    <2>1. CASE channels["unary"] # NoChannel
      <3>1. /\ creating' = creating /\ created' = created /\ pc' = pc
            /\ auth = "none" /\ auth' = "challenge"
        BY <1>3, <2>1 DEF AuthStart, callVars
      <3> QED
        BY <3>1, QuietStep DEF Shape
    <2>2. CASE channels["unary"] = NoChannel
      <3>1. /\ StartsCreating("unary") /\ pc' = pc /\ auth' = "channel" /\ auth = "none"
        BY <1>3, <2>2 DEF AuthStart, callVars
      <3>2. /\ creating'["unary"] # None /\ creating' \in [Key -> Nat] /\ created' \in Nat
            /\ creating'["stream"] = creating["stream"]
        BY <3>1 DEF StartsCreating, Shape, None, Key
      <3>3. WaitsFor("unary")' /\ (WaitsFor("stream")' <=> WaitsFor("stream"))
        BY <3>1 DEF WaitsFor, Waits
      <3> QED
        BY <3>1, <3>2, <3>3 DEF Shape, Created, Key
    <2> QED
      BY <2>1, <2>2
  <1>4. ASSUME NEW c \in Caller, AcquireChannel(c) PROVE (Shape /\ Created)'
    <2> DEFINE k == makeChannelKey(TypeOf[c])
    <2>0. k \in Key
      BY KeyType, ConnectionsAssumption DEF ConnectionsAssumption
    <2>1. CASE channels[k] # NoChannel
      <3>1. Goto(c, "call") /\ pc[c] # "channel" /\ "call" \in Place
        BY <1>4, <2>1 DEF AcquireChannel, Place
      <3>2. creating' = creating /\ created' = created /\ auth' = auth
        BY <1>4, <2>1 DEF AcquireChannel, authVars
      <3> QED
        BY <3>1, <3>2, GotoQuiet, QuietStep DEF Shape
    <2>2. CASE channels[k] = NoChannel
      <3>1. StartsCreating(k) /\ Goto(c, "channel") /\ auth' = auth /\ pc[c] = "acquire"
        BY <1>4, <2>2 DEF AcquireChannel, authVars
      <3>2. /\ creating'[k] # None /\ creating' \in [Key -> Nat] /\ created' \in Nat
            /\ \A j \in Key \ {k} : creating'[j] = creating[j]
        BY <2>0, <3>1 DEF StartsCreating, Shape, None
      <3>3. /\ pc' \in [Caller -> Place] /\ pc'[c] = "channel"
            /\ \A d \in Caller \ {c} : pc'[d] = pc[d]
        BY <3>1 DEF Goto, Shape, Place
      <3>4. WaitsFor(k)'
        BY <3>3 DEF WaitsFor, Waits
      <3>5. \A j \in Key \ {k} : WaitsFor(j)' <=> WaitsFor(j)
        BY <3>1, <3>3 DEF WaitsFor, Waits
      <3> QED
        BY <3>1, <3>2, <3>3, <3>4, <3>5 DEF Shape, Created
    <2> QED
      BY <2>1, <2>2
  <1>5. ASSUME NEW c \in Caller, CallStart(c) PROVE (Shape /\ Created)'
    <2>1. Goto(c, "token") /\ pc[c] # "channel" /\ "token" \in Place
      BY <1>5 DEF CallStart, Place, Authenticating
    <2>2. creating' = creating /\ created' = created /\ auth' = auth
      BY <1>5 DEF CallStart, channelVars, authVars
    <2> QED
      BY <2>1, <2>2, GotoQuiet, QuietStep DEF Shape
  <1>6. ASSUME NEW c \in Caller, CallSucceeds(c) \/ TokenRefused(c) \/ CallFails(c)
        PROVE  (Shape /\ Created)'
    <2>1. PICK place \in {"over", "retoken"} : Goto(c, place)
      BY <1>6 DEF CallSucceeds, TokenRefused, CallFails
    <2>2. place \in Place /\ place # "channel" /\ pc[c] # "channel"
      BY <1>6 DEF CallSucceeds, TokenRefused, CallFails, Place, Authenticating
    <2>3. creating' = creating /\ created' = created /\ auth' = auth
      BY <1>6 DEF CallSucceeds, TokenRefused, CallFails, channelVars, authVars
    <2> QED
      BY <2>1, <2>2, <2>3, GotoQuiet, QuietStep DEF Shape
  <1>7. ASSUME NEW k \in Key, ChannelCreated(k) PROVE (Shape /\ Created)'
    <2>1. /\ creating' = [creating EXCEPT ![k] = None] /\ created' = created
          /\ pc' = [c \in Caller |-> IF c \in Waits(k) THEN "call" ELSE pc[c]]
          /\ auth' = IF auth = "channel" /\ k = "unary" THEN "challenge" ELSE auth
      BY <1>7 DEF ChannelCreated
    <2>2. Shape'
      BY <2>1 DEF Shape, None, Place
    <2>3. ~WaitsFor(k)'
      BY <2>1 DEF WaitsFor, Waits
    <2>4. \A j \in Key \ {k} : WaitsFor(j)' <=> WaitsFor(j)
      BY <2>1 DEF WaitsFor, Waits
    <2> QED
      BY <2>1, <2>2, <2>3, <2>4 DEF Created, Shape
  <1>8. ASSUME NEW k \in Key, ChannelFails(k) PROVE (Shape /\ Created)'
    <2>1. /\ creating' = [creating EXCEPT ![k] = None] /\ created' = created
          /\ pc' = [c \in Caller |->
               IF c \in Waits(k) \/ (k = "unary" /\ auth = "channel" /\ pc[c] \in {"auth", "token", "retoken"})
               THEN "over" ELSE pc[c]]
          /\ auth' = IF auth = "channel" /\ k = "unary" THEN "none" ELSE auth
      BY <1>8 DEF ChannelFails
    <2>2. Shape'
      BY <2>1 DEF Shape, None, Place
    <2>3. ~WaitsFor(k)'
      BY <2>1 DEF WaitsFor, Waits
    <2>4. \A j \in Key \ {k} : WaitsFor(j)' <=> WaitsFor(j)
      BY <2>1 DEF WaitsFor, Waits
    <2> QED
      BY <2>1, <2>2, <2>3, <2>4 DEF Created, Shape
  <1>9. CASE AuthSucceeds \/ AuthFails
    <2>1. /\ creating' = creating /\ created' = created
          /\ auth = "challenge" /\ auth' = "none"
      BY <1>9 DEF AuthSucceeds, AuthFails
    <2>2. /\ pc' \in [Caller -> Place]
          /\ \A c \in Caller : pc'[c] = "channel" <=> pc[c] = "channel"
      BY <1>9 DEF AuthSucceeds, AuthFails, Shape, Place, Authenticating, After
    <2> QED
      BY <2>1, <2>2, QuietStep DEF Shape
  <1>10. CASE AuthRetries \/ TokenEvicted \/ UNCHANGED vars
              \/ (\E i \in Inst : CloseConnections(i)) \/ (\E t \in 1..MaxTokens : TokenExpires(t))
    <2>1. creating' = creating /\ created' = created /\ auth' = auth /\ pc' = pc
      BY <1>10 DEF AuthRetries, TokenEvicted, CloseConnections, TokenExpires, vars,
                   channelVars, authVars, callVars
    <2> QED
      BY <2>1, QuietStep DEF Shape
  <1> QED
    BY <1>1, <1>2, <1>3, <1>4, <1>5, <1>6, <1>7, <1>8, <1>9, <1>10 DEF Next, Step

LEMMA ChannelsAreAwaited == Spec => [](Shape /\ Created)
  BY CreatedInit, CreatedStep, PTL DEF Spec

(***************************************************************************)
(* Nobody waits for a channel or an authentication that nobody is making,  *)
(* whatever fails and however many wait.                                   *)
(***************************************************************************)
THEOREM WaitersAreHeard == Spec => []WaitersHaveACreator
  <1>1. Shape /\ Created => WaitersHaveACreator
    <2> SUFFICES ASSUME Shape, Created PROVE WaitersHaveACreator
      OBVIOUS
    <2>1. \A c \in Caller : pc[c] = "channel" => creating[makeChannelKey(TypeOf[c])] # None
      BY KeyType, ConnectionsAssumption DEF ConnectionsAssumption, Created, WaitsFor, Waits
    <2>2. auth = "channel" => creating["unary"] # None
      BY DEF Created, WaitsFor, Key
    <2> QED
      BY <2>1, <2>2, JoinersWait DEF Created, WaitersHaveACreator
  <1> QED
    BY <1>1, ChannelsAreAwaited, PTL

-----------------------------------------------------------------------------
(***************************************************************************)
(* The channels and their users.                                           *)
(***************************************************************************)

AllPlaces == Inst \X ClientType
Places(callers) == {x \in AllPlaces : \E c \in callers : InstOf[c] = x[1] /\ TypeOf[c] = x[2]}

ChannelTypes ==
  /\ channels \in [Key -> [id : Id, refCount : Nat]]
  /\ creating \in [Key -> Id]
  /\ closed \subseteq Id /\ created \in Id /\ joined \subseteq Id
  /\ clients \in [Inst -> [ClientType -> Id]]
  /\ lost \in [1..MaxChannels -> Nat]
  /\ auth \in {"none", "channel", "challenge"} /\ authOn \in Id

LEMMA FinitePlaces == \A S \in SUBSET AllPlaces : IsFiniteSet(S) /\ Cardinality(S) \in Nat
  <1>1. IsFiniteSet({"spark"}) /\ IsFiniteSet({"stream"}) /\ IsFiniteSet({"tokens"})
    BY FS_Singleton
  <1>2. IsFiniteSet({"spark"} \cup {"stream"})
    BY <1>1, FS_Union
  <1>3. IsFiniteSet(({"spark"} \cup {"stream"}) \cup {"tokens"})
    BY <1>1, <1>2, FS_Union
  <1>4. ClientType = ({"spark"} \cup {"stream"}) \cup {"tokens"}
    BY DEF ClientType
  <1>5. IsFiniteSet(AllPlaces)
    BY <1>3, <1>4, FS_Product, ConnectionsAssumption DEF ConnectionsAssumption, AllPlaces
  <1> QED
    BY <1>5, FS_Subset, FS_CardinalityType

\* What Register makes of the maps of the instances, and of the clients no
\* instance remembers.
ClientsWith(callers, id) ==
  [i \in Inst |-> [t \in ClientType |->
     IF <<i, t>> \in Places(callers) THEN id ELSE clients[i][t]]]
LostWith(callers, id) ==
  [n \in 1..MaxChannels |->
     lost[n] + Cardinality(Places(callers) \cap On(n))
       + (IF n = id THEN Cardinality(callers) - Cardinality(Places(callers)) ELSE 0)]

LEMMA RegisterParts ==
  ASSUME NEW callers \in SUBSET Caller, NEW id, Register(callers, id)
  PROVE  clients' = ClientsWith(callers, id) /\ lost' = LostWith(callers, id)
  <1> DEFINE For(i, t) == {c \in callers : InstOf[c] = i /\ TypeOf[c] = t}
  <1>1. \A i \in Inst, t \in ClientType : For(i, t) # {} <=> <<i, t>> \in Places(callers)
    BY DEF Places, AllPlaces
  <1>2. {x \in AllPlaces : For(x[1], x[2]) # {}} = Places(callers)
    BY DEF Places
  <1>3. \A n : {x \in AllPlaces : For(x[1], x[2]) # {} /\ clients[x[1]][x[2]] = n}
                 = Places(callers) \cap On(n)
    BY DEF Places, On, AllPlaces
  <1>4. clients' = [i \in Inst |-> [t \in ClientType |->
              IF For(i, t) # {} THEN id ELSE clients[i][t]]]
    BY DEF Register
  <1>5. lost' = [n \in 1..MaxChannels |->
              lost[n] + Cardinality({x \in AllPlaces : For(x[1], x[2]) # {} /\ clients[x[1]][x[2]] = n})
                + (IF n = id THEN Cardinality(callers) - Cardinality({x \in AllPlaces : For(x[1], x[2]) # {}}) ELSE 0)]
    BY DEF Register, AllPlaces
  <1> HIDE DEF For
  <1>6. clients' = ClientsWith(callers, id)
    BY <1>1, <1>4 DEF ClientsWith
  <1>7. lost' = LostWith(callers, id)
    BY <1>2, <1>3, <1>5 DEF LostWith
  <1> QED
    BY <1>6, <1>7

\* The places of these Callers are no more than they are.
LEMMA PlacesBound ==
  ASSUME NEW callers \in SUBSET Caller
  PROVE  /\ Cardinality(callers) \in Nat
         /\ Cardinality(Places(callers)) \in Nat
         /\ Cardinality(Places(callers)) <= Cardinality(callers)
  <1> DEFINE f == [c \in callers |-> <<InstOf[c], TypeOf[c]>>]
  <1>1. f \in Surjection(callers, Places(callers))
    BY ConnectionsAssumption DEF ConnectionsAssumption, Places, AllPlaces, Surjection
  <1>2. IsFiniteSet(callers)
    BY ConnectionsAssumption, FS_Subset DEF ConnectionsAssumption
  <1> QED
    BY <1>1, <1>2, FS_Surjection, FS_CardinalityType

LEMMA RegisterTypes ==
  ASSUME ChannelTypes, NEW callers \in SUBSET Caller, NEW id \in Id, Register(callers, id)
  PROVE  /\ clients' \in [Inst -> [ClientType -> Id]]
         /\ lost' \in [1..MaxChannels -> Nat]
  <1>0. clients' = ClientsWith(callers, id) /\ lost' = LostWith(callers, id)
    BY RegisterParts
  <1>1. \A n : Cardinality(Places(callers) \cap On(n)) \in Nat
    BY FinitePlaces DEF On, AllPlaces
  <1>2. \A n \in 1..MaxChannels :
          /\ lost[n] \in Nat
          /\ Cardinality(Places(callers) \cap On(n)) \in Nat
          /\ (IF n = id THEN Cardinality(callers) - Cardinality(Places(callers)) ELSE 0) \in Nat
    <2>1. /\ Cardinality(callers) \in Nat /\ Cardinality(Places(callers)) \in Nat
          /\ Cardinality(Places(callers)) <= Cardinality(callers)
      BY PlacesBound
    <2>2. Cardinality(callers) - Cardinality(Places(callers)) \in Nat
      BY <2>1
    <2>3. \A n \in 1..MaxChannels : lost[n] \in Nat
      BY DEF ChannelTypes
    <2> QED
      BY <1>1, <2>2, <2>3
  <1>3. lost' \in [1..MaxChannels -> Nat]
    BY <1>2, <1>0 DEF LostWith
  <1>4. clients' \in [Inst -> [ClientType -> Id]]
    BY <1>0 DEF ChannelTypes, ClientsWith, LostWith
  <1> QED
    BY <1>3, <1>4

LEMMA RegisterOthers ==
  ASSUME ChannelTypes, NEW callers \in SUBSET Caller, NEW id \in Id, Register(callers, id),
         NEW n \in 1..MaxChannels, n # id
  PROVE  /\ On(n)' = On(n) \ Places(callers)
         /\ Cardinality(On(n)') + lost'[n] = Cardinality(On(n)) + lost[n]
  <1>0. clients' = ClientsWith(callers, id) /\ lost' = LostWith(callers, id)
    BY RegisterParts
  <1>1. On(n)' = On(n) \ Places(callers)
    BY <1>0 DEF On, Places, AllPlaces, ClientsWith, LostWith
  <1>2. lost'[n] = lost[n] + Cardinality(Places(callers) \cap On(n))
    <2>1. Cardinality(Places(callers) \cap On(n)) \in Nat
      BY FinitePlaces DEF On, AllPlaces
    <2> QED
      BY <2>1, <1>0 DEF ChannelTypes, ClientsWith, LostWith
  <1>3. On(n) \in SUBSET AllPlaces
    BY DEF On, AllPlaces
  <1>4. Cardinality(On(n) \ Places(callers)) = Cardinality(On(n)) - Cardinality(On(n) \cap Places(callers))
    BY <1>3, FinitePlaces, FS_Difference
  <1>5. On(n) \cap Places(callers) = Places(callers) \cap On(n)
    OBVIOUS
  <1>6. Cardinality(On(n)) \in Nat /\ Cardinality(Places(callers) \cap On(n)) \in Nat
    BY <1>3, FinitePlaces
  <1>7. Cardinality(On(n)') = Cardinality(On(n) \ Places(callers))
    BY <1>1
  <1>8. lost[n] \in Nat
    BY DEF ChannelTypes
  <1>9. Cardinality(On(n)') = Cardinality(On(n)) - Cardinality(Places(callers) \cap On(n))
    BY <1>4, <1>5, <1>7
  <1>10. Cardinality(On(n)') + lost'[n] = Cardinality(On(n)) + lost[n]
    BY <1>2, <1>6, <1>8, <1>9
  <1> QED
    BY <1>1, <1>10

LEMMA RegisterOne ==
  ASSUME ChannelTypes, NEW c \in Caller, NEW id \in 1..MaxChannels, Register({c}, id)
  PROVE  /\ On(id)' = On(id) \cup {<<InstOf[c], TypeOf[c]>>}
         /\ Cardinality(On(id)') + lost'[id] = Cardinality(On(id)) + lost[id] + 1
  <1>0. clients' = ClientsWith({c}, id) /\ lost' = LostWith({c}, id)
    BY RegisterParts
  <1> DEFINE p == <<InstOf[c], TypeOf[c]>>
  <1>1. Places({c}) = {p} /\ p \in AllPlaces
    BY ConnectionsAssumption DEF ConnectionsAssumption, Places, AllPlaces
  <1>2. On(id)' = On(id) \cup {p}
    <2>1. \A i \in Inst, t \in ClientType :
            clients'[i][t] = IF <<i, t>> = p THEN id ELSE clients[i][t]
      BY <1>0, <1>1 DEF ClientsWith
    <2> QED
      BY <1>1, <2>1 DEF On, AllPlaces
  <1>3. On(id) \in SUBSET AllPlaces /\ {p} \in SUBSET AllPlaces
    BY <1>1 DEF On, AllPlaces
  <1>4. Cardinality(On(id) \cup {p}) = Cardinality(On(id)) + Cardinality({p}) - Cardinality(On(id) \cap {p})
    BY <1>3, FinitePlaces, FS_Union
  <1>5. Cardinality({p}) = 1 /\ Cardinality({c}) = 1
    BY FS_Singleton
  <1>6. On(id) \cap {p} = Places({c}) \cap On(id)
    BY <1>1
  <1>7. Cardinality(On(id)) \in Nat /\ Cardinality(Places({c}) \cap On(id)) \in Nat
    BY <1>3, FinitePlaces
  <1>8. lost'[id] = lost[id] + Cardinality(Places({c}) \cap On(id))
    <2>1. lost'[id] = lost[id] + Cardinality(Places({c}) \cap On(id)) + (Cardinality({c}) - Cardinality(Places({c})))
      BY <1>0 DEF LostWith
    <2>2. lost[id] \in Nat
      BY DEF ChannelTypes
    <2>3. Cardinality(Places({c})) = Cardinality({c})
      BY <1>1, <1>5, Zenon
    <2>4. Cardinality({c}) - Cardinality(Places({c})) = 0
      BY <2>3, <1>5
    <2> QED
      BY <1>7, <2>1, <2>2, <2>4
  <1>9. lost[id] \in Nat
    BY DEF ChannelTypes
  <1>10. Cardinality(On(id)') = Cardinality(On(id)) + 1 - Cardinality(Places({c}) \cap On(id))
    BY <1>2, <1>4, <1>5, <1>6
  <1> QED
    BY <1>2, <1>7, <1>8, <1>9, <1>10

LEMMA RegisterNone ==
  ASSUME ChannelTypes, NEW id \in Id, Register({}, id)
  PROVE  clients' = clients /\ lost' = lost
  <1>0. clients' = ClientsWith({}, id) /\ lost' = LostWith({}, id)
    BY RegisterParts
  <1>1. Places({}) = {}
    BY DEF Places
  <1>2. \A n : Places({}) \cap On(n) = {}
    BY <1>1
  <1>3. Cardinality({}) = 0
    BY FS_EmptySet
  <1>4. clients' = clients
    BY <1>0, <1>1 DEF ChannelTypes, ClientsWith
  <1>5. ASSUME NEW n \in 1..MaxChannels PROVE LostWith({}, id)[n] = lost[n]
    <2>1. LostWith({}, id)[n] = lost[n] + 0 + (IF n = id THEN 0 - 0 ELSE 0)
      BY <1>1, <1>2, <1>3 DEF LostWith
    <2>2. lost[n] \in Nat
      BY DEF ChannelTypes
    <2> QED
      BY <2>1, <2>2
  <1>6. lost' = lost
    BY <1>0, <1>5 DEF ChannelTypes, LostWith
  <1> QED
    BY <1>4, <1>6

-----------------------------------------------------------------------------
(***************************************************************************)
(* The inductive invariant.                                                *)
(***************************************************************************)
Live(k) == channels[k] # NoChannel

Numbered ==
  /\ \A k \in Key : Live(k) => channels[k].id \in 1..created /\ channels[k].refCount >= 1
  /\ \A k \in Key : creating[k] \in 0..created /\ (creating[k] # None => ~Live(k))
  /\ closed \subseteq 1..created /\ authOn \in 0..created
  /\ auth = "challenge" <=> authOn # None

\* A channel that is still to be created, or being created, has no users yet.
Unused(n) ==
  /\ On(n) = {} /\ lost[n] = 0 /\ n \notin closed /\ authOn # n
  /\ \A k \in Key : channels[k].id # n
ToCome(n) == n > created \/ \E k \in Key : creating[k] = n
NotUsedYet == \A n \in 1..MaxChannels : ToCome(n) => Unused(n)

\* The two keys have channels of their own.
Apart ==
  \A j, k \in Key : j # k =>
    /\ Live(j) => channels[j].id # channels[k].id
    /\ creating[j] # None => creating[j] # creating[k]

Opened == \A k \in Key : Live(k) => channels[k].id \notin closed

\* The channel of a key is used under that key only.
UsedUnder(n, k) ==
  /\ \A x \in On(n) : makeChannelKey(x[2]) = k
  /\ authOn = n => k = "unary"
Keyed == \A k \in Key : Live(k) => UsedUnder(channels[k].id, k)

\* Unless users shared the creation of a channel, all are counted, and all use
\* the present channel of their key.
Exact == joined = {} =>
  /\ \A k \in Key : Live(k) => channels[k].refCount = Users(channels[k].id)
  /\ \A x \in AllPlaces : clients[x[1]][x[2]] # None =>
       channels[makeChannelKey(x[2])].id = clients[x[1]][x[2]]
  /\ authOn # None => channels["unary"].id = authOn

Uses ==
  /\ ChannelTypes /\ Numbered /\ NotUsedYet /\ Apart /\ Opened
  /\ Keyed /\ NoChannelOutlivesItsUsers /\ Exact

LEMMA UsesInit == Init => Uses
  <1> SUFFICES ASSUME Init PROVE Uses
    OBVIOUS
  <1>1. ChannelTypes /\ Numbered /\ Apart /\ Opened /\ Keyed /\ NoChannelOutlivesItsUsers
    BY ConnectionsAssumption
    DEF ConnectionsAssumption, Init, ChannelTypes, Numbered, Apart, Opened, Keyed, UsedUnder, Live, Id,
        NoChannelOutlivesItsUsers, NoChannel, None, Key, ClientType
  <1>2. \A n \in 1..MaxChannels : On(n) = {}
    BY ConnectionsAssumption DEF ConnectionsAssumption, Init, On, None
  <1>3. NotUsedYet
    BY <1>2, ConnectionsAssumption
    DEF ConnectionsAssumption, Init, NotUsedYet, Unused, NoChannel, None, Key
  <1>4. Exact
    BY DEF Init, Exact, Live, AllPlaces, NoChannel, None
  <1> QED
    BY <1>1, <1>3, <1>4 DEF Uses

\* A step that touches neither channels nor their users.
LEMMA UsesKept ==
  ASSUME Uses, UNCHANGED channelVars, authOn' = authOn,
         auth' = auth \/ (auth = "none" /\ auth' = "channel")
  PROVE  Uses'
  <1>1. \A n : On(n)' = On(n)
    BY DEF On, channelVars
  <1>2. \A n : Users(n)' = Users(n)
    BY <1>1 DEF Users, channelVars
  <1>3. ChannelTypes'
    BY DEF Uses, ChannelTypes, channelVars
  <1>4. Numbered' /\ Apart' /\ Opened'
    BY DEF Uses, Numbered, Apart, Opened, Live, channelVars
  <1>5. NotUsedYet' /\ Keyed'
    BY <1>1 DEF Uses, NotUsedYet, ToCome, Unused, Keyed, UsedUnder, Live, channelVars
  <1>6. NoChannelOutlivesItsUsers' /\ Exact'
    BY <1>2 DEF Uses, NoChannelOutlivesItsUsers, Exact, Live, channelVars
  <1> QED
    BY <1>3, <1>4, <1>5, <1>6 DEF Uses

LEMMA UsesAfterFailure == ASSUME Uses, NEW k \in Key, ChannelFails(k) PROVE Uses'
  <1>0. /\ creating[k] # None
        /\ creating' = [creating EXCEPT ![k] = None]
        /\ auth' = IF auth = "channel" /\ k = "unary" THEN "none" ELSE auth
        /\ UNCHANGED <<channels, closed, created, joined, clients, lost, authOn>>
    BY DEF ChannelFails
  <1>1. \A n : On(n)' = On(n)
    BY <1>0 DEF On
  <1>2. \A n : Users(n)' = Users(n)
    BY <1>0, <1>1 DEF Users
  <1>3. ChannelTypes'
    <2>1. creating' \in [Key -> Id] /\ auth' \in {"none", "channel", "challenge"}
      BY <1>0, ConnectionsAssumption DEF ConnectionsAssumption, Uses, ChannelTypes, None, Id
    <2> QED
      BY <1>0, <2>1 DEF Uses, ChannelTypes
  <1>4. Numbered' /\ Apart' /\ Opened'
    BY <1>0 DEF Uses, ChannelTypes, Numbered, Apart, Opened, Live, None, Id
  <1>5. \A n \in 1..MaxChannels : ToCome(n)' => ToCome(n)
    BY <1>0 DEF Uses, ChannelTypes, ToCome, None
  <1>6. NotUsedYet' /\ Keyed'
    BY <1>0, <1>1, <1>5 DEF Uses, NotUsedYet, Unused, Keyed, UsedUnder, Live
  <1>7. NoChannelOutlivesItsUsers' /\ Exact'
    BY <1>0, <1>2 DEF Uses, NoChannelOutlivesItsUsers, Exact, Live
  <1> QED
    BY <1>3, <1>4, <1>6, <1>7 DEF Uses

LEMMA UsesWhenStarting ==
  ASSUME Uses, NEW k \in Key, StartsCreating(k),
         UNCHANGED <<channels, closed, joined, clients, lost, authOn>>,
         auth' = auth \/ (auth = "none" /\ auth' = "channel")
  PROVE  Uses'
  <1>1. \A n : On(n)' = On(n)
    BY DEF On
  <1>2. \A n : Users(n)' = Users(n)
    BY <1>1 DEF Users
  <1>3. CASE UNCHANGED <<creating, created>>
    BY <1>3, UsesKept DEF channelVars
  <1>4. CASE ~ UNCHANGED <<creating, created>>
    <2>1. /\ creating[k] = None /\ created < MaxChannels /\ created' = created + 1
          /\ creating' = [creating EXCEPT ![k] = created + 1]
      BY <1>4 DEF StartsCreating
    <2>2. /\ created \in Nat /\ MaxChannels \in Nat /\ created + 1 \in Id
          /\ ~Live(k) /\ creating \in [Key -> Id]
          /\ auth' \in {"none", "channel", "challenge"}
      BY <2>1, ConnectionsAssumption
      DEF ConnectionsAssumption, StartsCreating, Live, Uses, ChannelTypes, Id
    <2>3. /\ creating'[k] = created + 1 /\ \A j \in Key \ {k} : creating'[j] = creating[j]
          /\ creating' \in [Key -> Id]
      BY <2>1, <2>2
    <2>4. ChannelTypes'
      BY <2>1, <2>2, <2>3 DEF Uses, ChannelTypes
    <2>5. Numbered'
      <3>1. \A j \in Key : Live(j)' => channels'[j].id \in 1..created' /\ channels'[j].refCount >= 1
        BY <2>1, <2>2 DEF Uses, Numbered, ChannelTypes, Live, Id
      <3>2. \A j \in Key : creating'[j] \in 0..created' /\ (creating'[j] # None => ~Live(j)')
        BY <2>1, <2>2, <2>3 DEF Uses, Numbered, Live
      <3>3. /\ closed' \subseteq 1..created' /\ authOn' \in 0..created'
            /\ auth' = "challenge" <=> authOn' # None
        BY <2>1, <2>2 DEF Uses, Numbered
      <3> QED
        BY <3>1, <3>2, <3>3 DEF Numbered
    <2>6. Apart' /\ Opened'
      <3>1. \A j \in Key : creating[j] \in 0..created
        BY DEF Uses, Numbered
      <3>2. created + 1 # None /\ \A j \in Key : creating[j] # created + 1
        BY <2>2, <3>1 DEF None
      <3> QED
        BY <2>3, <3>2 DEF Uses, Apart, Opened, Live
    <2>7. \A n \in 1..MaxChannels : ToCome(n)' => ToCome(n)
      BY <2>1, <2>2, <2>3 DEF ToCome
    <2>8. NotUsedYet' /\ Keyed'
      BY <1>1, <2>7 DEF Uses, NotUsedYet, Unused, Keyed, UsedUnder, Live
    <2>9. NoChannelOutlivesItsUsers' /\ Exact'
      BY <1>2 DEF Uses, NoChannelOutlivesItsUsers, Exact, Live
    <2> QED
      BY <2>4, <2>5, <2>6, <2>8, <2>9 DEF Uses
  <1> QED
    BY <1>3, <1>4

LEMMA UserTypes ==
  ASSUME ChannelTypes, NEW n \in 1..MaxChannels
  PROVE  /\ Cardinality(On(n)) \in Nat /\ lost[n] \in Nat /\ Users(n) \in Nat
         /\ Cardinality(On(n)) = 0 <=> On(n) = {}
  <1>1. IsFiniteSet(On(n)) /\ Cardinality(On(n)) \in Nat
    BY FinitePlaces DEF On, AllPlaces
  <1>2. lost[n] \in Nat
    BY DEF ChannelTypes
  <1>3. Cardinality(On(n)) = 0 <=> On(n) = {}
    BY <1>1, FS_EmptySet
  <1> QED
    BY <1>1, <1>2, <1>3 DEF Users

LEMMA UserTypesNext ==
  ASSUME ChannelTypes', NEW n \in 1..MaxChannels
  PROVE  /\ Cardinality(On(n)') \in Nat /\ lost'[n] \in Nat
         /\ Cardinality(On(n)') = 0 <=> On(n)' = {}
  <1>1. IsFiniteSet(On(n)') /\ Cardinality(On(n)') \in Nat
    BY FinitePlaces DEF On, AllPlaces
  <1>2. lost'[n] \in Nat
    BY DEF ChannelTypes
  <1>3. Cardinality(On(n)') = 0 <=> On(n)' = {}
    BY <1>1, FS_EmptySet
  <1> QED
    BY <1>1, <1>2, <1>3

\* A client of this Caller on the live channel of its key.
LEMMA UsesWhenAcquiring ==
  ASSUME Uses, NEW c \in Caller, AcquireChannel(c), Live(makeChannelKey(TypeOf[c]))
  PROVE  Uses'
  <1> DEFINE k == makeChannelKey(TypeOf[c])
             p == <<InstOf[c], TypeOf[c]>>
  <1> PICK id : id = channels[k].id
    OBVIOUS
  <1>0. /\ channels' = Counted(k)
        /\ Register({c}, id)
        /\ UNCHANGED <<creating, created, closed, joined, auth, authOn>>
    BY DEF AcquireChannel, Live, authVars
  <1>1. /\ k \in Key /\ p \in AllPlaces /\ id \in 1..created /\ id \in 1..MaxChannels /\ id \in Id
        /\ created \in 0..MaxChannels /\ channels[k].refCount \in Nat
    BY KeyType, ConnectionsAssumption
    DEF ConnectionsAssumption, AllPlaces, Uses, Numbered, ChannelTypes, Id
  <1>2. /\ channels' \in [Key -> [id : Id, refCount : Nat]]
        /\ channels'[k].id = id /\ channels'[k].refCount = channels[k].refCount + 1
        /\ \A j \in Key \ {k} : channels'[j] = channels[j]
    <2>1. channels \in [Key -> [id : Id, refCount : Nat]]
      BY DEF Uses, ChannelTypes
    <2>2. channels' = [channels EXCEPT ![k] = [channels[k] EXCEPT !.refCount = channels[k].refCount + 1]]
      BY <1>0 DEF Counted
    <2>3. channels[k] \in [id : Id, refCount : Nat] /\ channels[k].refCount + 1 \in Nat
      BY <1>1, <2>1
    <2> DEFINE one == [channels[k] EXCEPT !.refCount = channels[k].refCount + 1]
    <2>4. /\ one \in [id : Id, refCount : Nat]
          /\ one.id = id /\ one.refCount = channels[k].refCount + 1
      BY <2>3
    <2>5. channels' = [channels EXCEPT ![k] = one]
      BY <2>2
    <2> HIDE DEF one
    <2> QED
      BY <1>1, <2>1, <2>4, <2>5
  <1>12. Live(k) /\ Live(k)' /\ \A j \in Key : channels'[j].id = channels[j].id /\ (Live(j)' <=> Live(j))
    <2>1. Live(k)
      OBVIOUS
    <2>2. Live(k)'
      BY <1>1, <1>2 DEF Live, NoChannel
    <2>3. \A j \in Key \ {k} : channels'[j].id = channels[j].id /\ (Live(j)' <=> Live(j))
      BY <1>2 DEF Live
    <2> QED
      BY <1>1, <1>2, <2>1, <2>2, <2>3
  <1> HIDE DEF k
  <1>3. ChannelTypes'
    <2>1. clients' \in [Inst -> [ClientType -> Id]] /\ lost' \in [1..MaxChannels -> Nat]
      BY <1>0, <1>1, RegisterTypes DEF Uses
    <2> QED
      BY <1>0, <1>2, <2>1 DEF Uses, ChannelTypes
  <1>4. On(id)' = On(id) \cup {p} /\ Users(id)' = Users(id) + 1
    <2>1. /\ On(id)' = On(id) \cup {p}
          /\ Cardinality(On(id)') + lost'[id] = Cardinality(On(id)) + lost[id] + 1
      BY <1>0, <1>1, RegisterOne DEF Uses
    <2> QED
      BY <1>0, <1>1, <1>3, <2>1, UserTypes, UserTypesNext DEF Users, Uses
  <1>5. ASSUME NEW n \in 1..MaxChannels, n # id
        PROVE  On(n)' \subseteq On(n) /\ Users(n)' = Users(n) /\ (Unused(n) => lost'[n] = 0)
    <2>1. /\ On(n)' = On(n) \ Places({c})
          /\ Cardinality(On(n)') + lost'[n] = Cardinality(On(n)) + lost[n]
      BY <1>0, <1>1, <1>5, RegisterOthers DEF Uses
    <2>2. Users(n)' = Users(n)
      BY <1>0, <2>1 DEF Users
    <2>3. Cardinality(On(n)') \in Nat /\ lost'[n] \in Nat /\ Cardinality(On(n)) \in Nat
      BY <1>3, UserTypes, UserTypesNext DEF Uses
    <2>4. Unused(n) => Cardinality(On(n)) = 0 /\ lost[n] = 0
      BY FS_EmptySet DEF Unused
    <2>5. Unused(n) => lost'[n] = 0
      BY <2>1, <2>3, <2>4
    <2> QED
      BY <2>1, <2>2, <2>5
  <1>6. Numbered' /\ Apart' /\ Opened'
    <2>1. \A j \in Key : Live(j)' => channels'[j].id \in 1..created' /\ channels'[j].refCount >= 1
      <3>1. channels'[k].refCount >= 1
        BY <1>1, <1>2
      <3>2. \A j \in Key : Live(j) => channels[j].id \in 1..created /\ channels[j].refCount >= 1
        BY DEF Uses, Numbered
      <3> QED
        BY <1>0, <1>2, <1>12, <3>1, <3>2
    <2>2. Numbered'
      BY <1>0, <1>12, <2>1 DEF Uses, Numbered
    <2> QED
      BY <1>0, <1>12, <2>2 DEF Uses, Apart, Opened
  <1>7. ~ToCome(id)
    BY <1>1 DEF Uses, NotUsedYet, Unused
  <1>8. NotUsedYet'
    BY <1>0, <1>12, <1>5, <1>7 DEF Uses, NotUsedYet, ToCome, Unused
  <1>9. ASSUME NEW j \in Key, Live(j)', NEW n, n = channels[j].id
        PROVE  /\ channels'[j].id = n /\ UsedUnder(n, j)'
               /\ channels'[j].refCount <= Users(n)'
               /\ channels[j].refCount = Users(n) => channels'[j].refCount = Users(n)'
    <2>1. Live(j) /\ n \in 1..MaxChannels /\ channels'[j].id = n
      <3>1. Live(j) /\ channels'[j].id = n
        BY <1>12, <1>9
      <3>2. n \in 1..created
        BY <1>9, <3>1 DEF Uses, Numbered
      <3>3. created \in Nat /\ MaxChannels \in Nat /\ created <= MaxChannels
        BY ConnectionsAssumption DEF ConnectionsAssumption, Uses, ChannelTypes, Id
      <3> QED
        BY <3>1, <3>2, <3>3
    <2>2. UsedUnder(n, j) /\ channels[j].refCount <= Users(n)
      BY <1>9, <2>1 DEF Uses, Keyed, NoChannelOutlivesItsUsers, Live
    <2>3. Users(n) \in Nat
      BY <2>1, UserTypes DEF Uses
    <2>4. CASE j = k
      <3>1. On(n)' = On(n) \cup {p} /\ Users(n)' = Users(n) + 1
        BY <1>4, <1>9, <2>4
      <3>2. UsedUnder(n, j)'
        BY <1>0, <2>2, <2>4, <3>1 DEF UsedUnder, k
      <3> QED
        BY <1>1, <1>2, <2>1, <2>2, <2>3, <2>4, <3>1, <3>2
    <2>5. CASE j # k
      <3>1. channels'[j] = channels[j] /\ n # id
        BY <1>1, <1>2, <1>9, <2>1, <2>5 DEF Uses, Apart
      <3>2. On(n)' \subseteq On(n) /\ Users(n)' = Users(n)
        BY <1>5, <2>1, <3>1
      <3> QED
        BY <1>0, <2>1, <2>2, <3>1, <3>2 DEF UsedUnder
    <2> QED
      BY <2>4, <2>5
  <1>10. Keyed' /\ NoChannelOutlivesItsUsers'
    BY <1>9, <1>12 DEF Keyed, NoChannelOutlivesItsUsers, Live
  <1>11. Exact'
    <2> SUFFICES ASSUME joined' = {} PROVE Exact'
      BY DEF Exact
    <2>1. \A j \in Key : Live(j)' => channels'[j].refCount = (Users(channels[j].id))'
      BY <1>0, <1>12, <1>9 DEF Uses, Exact
    <2>2. ASSUME NEW x \in AllPlaces, clients'[x[1]][x[2]] # None
          PROVE  channels'[makeChannelKey(x[2])].id = clients'[x[1]][x[2]]
      <3>1. makeChannelKey(x[2]) \in Key
        BY KeyType DEF AllPlaces
      <3>2. clients' = ClientsWith({c}, id)
        BY <1>0, RegisterParts
      <3>3. clients'[x[1]][x[2]] = clients[x[1]][x[2]] \/ (x = p /\ clients'[x[1]][x[2]] = id)
        BY <3>2 DEF ClientsWith, Places, AllPlaces
      <3> QED
        BY <1>0, <1>2, <1>12, <2>2, <3>1, <3>3 DEF Uses, Exact, k
    <2>3. authOn' # None => channels'["unary"].id = authOn'
      BY <1>0, <1>12 DEF Uses, Exact, Key
    <2> QED
      BY <2>1, <2>2, <2>3 DEF Exact
  <1> QED
    BY <1>3, <1>6, <1>8, <1>10, <1>11 DEF Uses

LEMMA UsesWhenAuthenticating ==
  ASSUME Uses, NEW c \in Caller, AuthStart(c), Live("unary")
  PROVE  Uses'
  <1> DEFINE k == "unary"
  <1> PICK id : id = channels[k].id
    OBVIOUS
  <1>0. /\ channels' = Counted(k) /\ auth = "none" /\ auth' = "challenge" /\ authOn' = id
        /\ UNCHANGED <<creating, created, closed, joined, clients, lost>>
    BY DEF AuthStart, Live
  <1>1. /\ k \in Key /\ id \in 1..created /\ id \in 1..MaxChannels
        /\ created \in 0..MaxChannels /\ channels[k].refCount \in Nat
        /\ authOn = None /\ id # None
    BY <1>0 DEF Uses, Numbered, ChannelTypes, Id, Key, None
  <1>2. /\ channels' \in [Key -> [id : Id, refCount : Nat]]
        /\ channels'[k].id = id /\ channels'[k].refCount = channels[k].refCount + 1
        /\ \A j \in Key \ {k} : channels'[j] = channels[j]
    BY <1>0, <1>1 DEF Counted, Uses, ChannelTypes
  <1>3. Live(k) /\ Live(k)' /\ \A j \in Key : channels'[j].id = channels[j].id /\ (Live(j)' <=> Live(j))
    BY <1>1, <1>2 DEF Live, NoChannel
  <1>4. ChannelTypes'
    BY <1>0, <1>1, <1>2 DEF Uses, ChannelTypes, Id
  <1>5. \A n : On(n)' = On(n)
    BY <1>0 DEF On
  <1>6. Users(id)' = Users(id) + 1 /\ Users(id) \in Nat
    <2>1. Cardinality(On(id)) \in Nat /\ lost[id] \in Nat /\ Users(id) \in Nat
      BY <1>1, UserTypes DEF Uses
    <2> QED
      BY <1>0, <1>1, <1>5, <2>1 DEF Users
  <1>7. \A n : n # id /\ n # None => Users(n)' = Users(n)
    BY <1>0, <1>1, <1>5 DEF Users
  <1>8. Numbered' /\ Apart' /\ Opened'
    <2>1. \A j \in Key : Live(j)' => channels'[j].id \in 1..created' /\ channels'[j].refCount >= 1
      <3>1. channels'[k].refCount >= 1
        BY <1>1, <1>2
      <3>2. \A j \in Key : Live(j) => channels[j].id \in 1..created /\ channels[j].refCount >= 1
        BY DEF Uses, Numbered
      <3> QED
        BY <1>0, <1>2, <1>3, <3>1, <3>2
    <2>2. Numbered'
      BY <1>0, <1>1, <1>3, <2>1 DEF Uses, Numbered
    <2> QED
      BY <1>0, <1>3, <2>2 DEF Uses, Apart, Opened
  <1>9. ~ToCome(id)
    BY <1>1 DEF Uses, NotUsedYet, Unused
  <1>10. NotUsedYet'
    BY <1>0, <1>3, <1>5, <1>9 DEF Uses, NotUsedYet, ToCome, Unused
  <1>11. ASSUME NEW j \in Key, Live(j)', NEW n, n = channels[j].id
         PROVE  /\ channels'[j].id = n /\ UsedUnder(n, j)'
                /\ channels'[j].refCount <= Users(n)'
                /\ channels[j].refCount = Users(n) => channels'[j].refCount = Users(n)'
    <2>1. Live(j) /\ n \in 1..created /\ channels'[j].id = n
      BY <1>3, <1>11 DEF Uses, Numbered
    <2>2. UsedUnder(n, j) /\ channels[j].refCount <= Users(n)
      BY <1>11, <2>1 DEF Uses, Keyed, NoChannelOutlivesItsUsers, Live
    <2>3. n = id <=> j = k
      BY <1>1, <1>11, <2>1 DEF Uses, Apart
    <2>4. UsedUnder(n, j)'
      BY <1>0, <1>5, <2>2, <2>3 DEF UsedUnder
    <2>5. CASE j = k
      BY <1>1, <1>2, <1>6, <2>1, <2>2, <2>3, <2>4, <2>5
    <2>6. CASE j # k
      <3>1. Users(n)' = Users(n) /\ channels'[j] = channels[j]
        BY <1>2, <1>7, <2>1, <2>3, <2>6 DEF None
      <3> QED
        BY <2>1, <2>2, <2>4, <3>1
    <2> QED
      BY <2>5, <2>6
  <1>12. Keyed' /\ NoChannelOutlivesItsUsers'
    BY <1>3, <1>11 DEF Keyed, NoChannelOutlivesItsUsers, Live
  <1>13. Exact'
    <2> SUFFICES ASSUME joined' = {} PROVE Exact'
      BY DEF Exact
    <2>1. \A j \in Key : Live(j)' => channels'[j].refCount = (Users(channels[j].id))'
      BY <1>0, <1>3, <1>11 DEF Uses, Exact
    <2>2. \A x \in AllPlaces : clients'[x[1]][x[2]] # None =>
            channels'[makeChannelKey(x[2])].id = clients'[x[1]][x[2]]
      BY <1>0, <1>3, KeyType DEF Uses, Exact, AllPlaces
    <2> QED
      BY <1>0, <1>2, <2>1, <2>2 DEF Exact
  <1> QED
    BY <1>4, <1>8, <1>10, <1>12, <1>13 DEF Uses

\* The authentication is over, and its channel is released.
LEMMA UsesWhenReleasing ==
  ASSUME Uses, AuthSucceeds \/ AuthFails
  PROVE  Uses'
  <1> DEFINE k == "unary"
  <1> PICK id : id = channels[k].id
    OBVIOUS
  <1>0. /\ auth = "challenge" /\ auth' = "none" /\ authOn' = None
        /\ releaseChannel(k)
        /\ UNCHANGED <<creating, created, joined, clients, lost>>
    BY DEF AuthSucceeds, AuthFails
  <1>1. /\ k \in Key /\ id \in Id /\ channels[k].refCount \in Nat
        /\ channels \in [Key -> [id : Id, refCount : Nat]]
        /\ created \in Nat /\ MaxChannels \in Nat /\ created <= MaxChannels
        /\ authOn # None
    BY <1>0, ConnectionsAssumption
    DEF ConnectionsAssumption, Uses, Numbered, ChannelTypes, Id, Key, None
  <1>2. Live(k) => id \in 1..created /\ channels[k].refCount >= 1
    BY <1>1 DEF Uses, Numbered
  <1>3. \/ /\ ~Live(k) \/ channels[k].refCount = 1
           /\ ~Live(k)' /\ channels'[k] = NoChannel
        \/ /\ Live(k) /\ channels[k].refCount # 1 /\ Live(k)' /\ channels'[k].id = id
           /\ channels'[k].refCount = channels[k].refCount - 1 /\ closed' = closed
    BY <1>0, <1>1, <1>2 DEF releaseChannel, Live, NoChannel
  <1>4. /\ channels' \in [Key -> [id : Id, refCount : Nat]]
        /\ \A j \in Key \ {k} : channels'[j] = channels[j]
        /\ closed' = closed \/ (Live(k) /\ channels[k].refCount = 1 /\ closed' = closed \cup {id})
    <2>1. CASE ~Live(k)
      BY <1>0, <1>1, <2>1 DEF releaseChannel, Live
    <2>2. CASE Live(k) /\ channels[k].refCount = 1
      <3>1. NoChannel \in [id : Id, refCount : Nat]
        BY <1>1 DEF NoChannel, None, Id
      <3>2. channels' = [channels EXCEPT ![k] = NoChannel] /\ closed' = closed \cup {id}
        BY <1>0, <2>2 DEF releaseChannel, Live
      <3> QED
        BY <1>1, <2>2, <3>1, <3>2
    <2>3. CASE Live(k) /\ channels[k].refCount # 1
      <3>1. channels[k].refCount - 1 \in Nat
        BY <1>1, <1>2, <2>3
      <3>2. channels' = [channels EXCEPT ![k].refCount = @ - 1] /\ closed' = closed
        BY <1>0, <2>3 DEF releaseChannel, Live
      <3> QED
        BY <1>1, <3>1, <3>2
    <2> QED
      BY <2>1, <2>2, <2>3
  <1>5. \A j \in Key \ {k} : Live(j)' <=> Live(j)
    BY <1>4 DEF Live
  <1>6. ChannelTypes'
    <2>1. closed' \subseteq Id
      BY <1>1, <1>4 DEF Uses, ChannelTypes
    <2>2. authOn' \in Id
      BY <1>0, <1>1 DEF None, Id
    <2> QED
      BY <1>0, <1>4, <2>1, <2>2 DEF Uses, ChannelTypes
  <1>7. \A n : On(n)' = On(n)
    BY <1>0 DEF On
  <1>8. ASSUME NEW n \in 1..created
        PROVE  /\ Users(n) \in Nat /\ Cardinality(On(n)) \in Nat /\ lost[n] \in Nat
               /\ authOn # n => Users(n)' = Users(n)
               /\ authOn = n => Users(n)' = Users(n) - 1
    <2>1. n \in 1..MaxChannels /\ n # None
      BY <1>1 DEF None
    <2>2. Users(n) \in Nat /\ Cardinality(On(n)) \in Nat /\ lost[n] \in Nat
      BY <2>1, UserTypes DEF Uses
    <2> QED
      BY <1>0, <1>7, <2>1, <2>2 DEF Users
  <1>9. \A j \in Key : Live(j)' =>
          /\ Live(j) /\ channels'[j].id = channels[j].id /\ channels'[j].id \in 1..created
          /\ channels'[j].refCount >= 1
    <2>1. \A j \in Key : Live(j) => channels[j].id \in 1..created /\ channels[j].refCount >= 1
      BY DEF Uses, Numbered
    <2>2. Live(k)' => channels'[k].refCount >= 1
      BY <1>1, <1>2, <1>3
    <2> QED
      BY <1>3, <1>4, <1>5, <2>1, <2>2
  <1>10. Numbered' /\ Apart' /\ Opened'
    <2>1. \A j \in Key : channels'[j].id = channels[j].id \/ channels'[j].id = None
      BY <1>3, <1>4 DEF NoChannel
    <2>2. Numbered'
      BY <1>0, <1>1, <1>2, <1>4, <1>9 DEF Uses, Numbered, None
    <2>3. Apart'
      BY <1>0, <1>9, <2>1 DEF Uses, Apart, None
    <2>4. Opened'
      BY <1>1, <1>3, <1>4, <1>9 DEF Uses, Opened, Apart
    <2> QED
      BY <2>2, <2>3, <2>4
  <1>11. NotUsedYet'
    <2>1. Live(k) => ~ToCome(id)
      BY <1>1, <1>2 DEF Uses, NotUsedYet, Unused
    <2>2. \A n \in 1..MaxChannels, j \in Key : channels'[j].id = n => channels[j].id = n
      BY <1>3, <1>4 DEF NoChannel, None
    <2> QED
      BY <1>0, <1>4, <1>7, <2>1, <2>2 DEF Uses, NotUsedYet, ToCome, Unused, None
  <1>12. ASSUME NEW j \in Key, Live(j)', NEW n, n = channels[j].id
         PROVE  /\ channels'[j].id = n /\ UsedUnder(n, j)'
                /\ channels'[j].refCount <= Users(n)'
                /\ joined = {} => channels'[j].refCount = Users(n)'
    <2>1. Live(j) /\ n \in 1..created /\ channels'[j].id = n
      BY <1>9, <1>12
    <2>2. /\ UsedUnder(n, j) /\ channels[j].refCount <= Users(n)
          /\ joined = {} => channels[j].refCount = Users(n) /\ channels["unary"].id = authOn
      BY <1>1, <1>12, <2>1 DEF Uses, Keyed, NoChannelOutlivesItsUsers, Exact, Live
    <2>3. UsedUnder(n, j)'
      BY <1>0, <1>7, <2>1, <2>2 DEF UsedUnder, None
    <2>4. /\ Users(n) \in Nat /\ Users(n)' \in {Users(n), Users(n) - 1}
          /\ authOn # n => Users(n)' = Users(n)
          /\ authOn = n => Users(n)' = Users(n) - 1
      BY <1>8, <2>1
    <2>5. CASE j = k
      BY <1>1, <1>3, <1>12, <2>1, <2>2, <2>3, <2>4, <2>5
    <2>6. CASE j # k
      <3>1. authOn # n
        BY <2>2, <2>6 DEF UsedUnder
      <3> QED
        BY <1>4, <2>1, <2>2, <2>3, <2>4, <2>6, <3>1
    <2> QED
      BY <2>5, <2>6
  <1>13. Keyed' /\ NoChannelOutlivesItsUsers'
    BY <1>9, <1>12 DEF Keyed, NoChannelOutlivesItsUsers, Live
  <1>14. Exact'
    <2> SUFFICES ASSUME joined' = {} PROVE Exact'
      BY DEF Exact
    <2>0. joined = {} /\ authOn = id /\ Live(k)
      BY <1>0, <1>1 DEF Uses, Exact, Live, NoChannel
    <2>1. \A j \in Key : Live(j)' => channels'[j].refCount = (Users(channels[j].id))'
      BY <1>9, <1>12, <2>0
    <2>2. ASSUME NEW x \in AllPlaces, clients'[x[1]][x[2]] # None
          PROVE  channels'[makeChannelKey(x[2])].id = clients'[x[1]][x[2]]
      <3>1. /\ makeChannelKey(x[2]) \in Key
            /\ channels[makeChannelKey(x[2])].id = clients'[x[1]][x[2]]
        BY <1>0, <2>0, <2>2, KeyType DEF AllPlaces, Uses, Exact
      <3>2. CASE makeChannelKey(x[2]) = k /\ channels[k].refCount = 1
        <4>1. x \in On(id)
          BY <1>0, <3>1, <3>2 DEF On, AllPlaces
        <4>2. id \in 1..created /\ id \in 1..MaxChannels /\ Users(id) = 1
          BY <1>1, <1>2, <2>0, <3>2 DEF Uses, Exact
        <4>3. Cardinality(On(id)) \in Nat /\ lost[id] \in Nat /\ Cardinality(On(id)) # 0
          BY <4>1, <4>2, UserTypes DEF Uses
        <4> QED
          BY <2>0, <4>2, <4>3 DEF Users
      <3> QED
        BY <1>3, <1>4, <2>0, <3>1, <3>2
    <2> QED
      BY <1>0, <1>9, <2>1, <2>2 DEF Exact
  <1> QED
    BY <1>6, <1>10, <1>11, <1>13, <1>14 DEF Uses

\* What closeConnections closes of a key: the clients of this instance.
Clients(i, k) ==
  {x \in AllPlaces : x[1] = i /\ makeChannelKey(x[2]) = k /\ clients[i][x[2]] # None}
Closing(i, k) ==
  Cardinality({t \in ClientType : makeChannelKey(t) = k /\ clients[i][t] # None})
Closes(i, k) == Live(k) /\ Closing(i, k) > 0 /\ channels[k].refCount <= Closing(i, k)

LEMMA ClosingCounts ==
  ASSUME NEW i \in Inst, NEW k
  PROVE  Closing(i, k) \in Nat /\ Closing(i, k) = Cardinality(Clients(i, k))
  <1> DEFINE S == Clients(i, k)
             T == {t \in ClientType : makeChannelKey(t) = k /\ clients[i][t] # None}
             f == [x \in S |-> x[2]]
  <1>1. f \in Surjection(S, T) /\ f \in Injection(S, T)
    <2>1. f \in [S -> T]
      BY DEF Clients, AllPlaces
    <2>2. \A t \in T : <<i, t>> \in S /\ f[<<i, t>>] = t
      BY DEF Clients, AllPlaces
    <2>3. \A x, y \in S : f[x] = f[y] => x = y
      BY DEF Clients, AllPlaces
    <2> QED
      BY <2>1, <2>2, <2>3 DEF Surjection, Injection, IsInjective
  <1>2. IsFiniteSet(S) /\ Cardinality(S) \in Nat
    BY FinitePlaces DEF Clients
  <1> HIDE DEF f
  <1>3. Cardinality(T) = Cardinality(S)
    BY <1>1, <1>2, FS_Surjection
  <1> QED
    BY <1>2, <1>3 DEF Closing

LEMMA UsesWhenClosing ==
  ASSUME Uses, NEW i \in Inst, CloseConnections(i)
  PROVE  Uses'
  <1>0. /\ channels' = [k \in Key |->
             IF Closes(i, k) THEN NoChannel
             ELSE IF Live(k) THEN [channels[k] EXCEPT !.refCount = @ - Closing(i, k)]
             ELSE NoChannel]
        /\ closed' = closed \cup {channels[k].id : k \in {x \in Key : Closes(i, x)}}
        /\ clients' = [clients EXCEPT ![i] = [t \in ClientType |-> None]]
        /\ UNCHANGED <<creating, created, joined, lost, auth, authOn>>
    BY DEF CloseConnections, Closes, Closing, Live, authVars
  <1>1. /\ channels \in [Key -> [id : Id, refCount : Nat]]
        /\ clients \in [Inst -> [ClientType -> Id]]
        /\ created \in Nat /\ MaxChannels \in Nat /\ created <= MaxChannels
        /\ None \in Id
    BY ConnectionsAssumption DEF ConnectionsAssumption, Uses, ChannelTypes, Id, None
  <1>2. \A k \in Key : /\ Closing(i, k) \in Nat
                       /\ Closing(i, k) = Cardinality(Clients(i, k))
                       /\ IsFiniteSet(Clients(i, k))
    BY ClosingCounts, FinitePlaces DEF Clients
  <1>3. \A k \in Key : Live(k) => channels[k].id \in 1..created /\ channels[k].refCount >= 1
    BY DEF Uses, Numbered
  <1>4. ASSUME NEW k \in Key, Live(k), ~Closes(i, k)
        PROVE  /\ Live(k)' /\ channels'[k] \in [id : Id, refCount : Nat]
               /\ channels'[k].id = channels[k].id
               /\ channels'[k].refCount = channels[k].refCount - Closing(i, k)
               /\ channels'[k].refCount >= 1
    <2>1. channels'[k] = [channels[k] EXCEPT !.refCount = @ - Closing(i, k)]
      BY <1>0, <1>4
    <2>2. channels[k] \in [id : Id, refCount : Nat] /\ channels[k].id # None
      BY <1>1, <1>3, <1>4 DEF None
    <2>3. Closing(i, k) \in Nat /\ channels[k].refCount - Closing(i, k) \in Nat
          /\ channels[k].refCount - Closing(i, k) >= 1
      BY <1>2, <1>3, <1>4, <2>2 DEF Closes
    <2> QED
      BY <2>1, <2>2, <2>3 DEF Live, NoChannel
  <1>5. \A k \in Key : ~Live(k) \/ Closes(i, k) => channels'[k] = NoChannel /\ ~Live(k)'
    BY <1>0 DEF Live, Closes
  <1>6. \A k \in Key : Live(k)' => Live(k) /\ ~Closes(i, k)
    BY <1>5
  <1>7. \A k \in Key : channels'[k].id = channels[k].id \/ channels'[k].id = None
    BY <1>4, <1>5 DEF NoChannel
  <1>8. ChannelTypes'
    <2>1. channels' \in [Key -> [id : Id, refCount : Nat]]
      <3>1. NoChannel \in [id : Id, refCount : Nat]
        BY <1>1 DEF NoChannel
      <3>2. \A k \in Key : channels'[k] \in [id : Id, refCount : Nat]
        BY <1>4, <1>5, <3>1
      <3> QED
        BY <1>0, <3>2
    <2>2. clients' \in [Inst -> [ClientType -> Id]]
      BY <1>0, <1>1
    <2>3. closed' \subseteq Id
      BY <1>0, <1>1 DEF Uses, ChannelTypes
    <2> QED
      BY <1>0, <2>1, <2>2, <2>3 DEF Uses, ChannelTypes
  <1>9. Numbered' /\ Apart' /\ Opened'
    <2>1. closed' \subseteq 1..created'
      BY <1>0, <1>3 DEF Uses, Numbered, Closes
    <2>2. Numbered'
      BY <1>0, <1>3, <1>4, <1>6, <2>1 DEF Uses, Numbered
    <2>3. Apart'
      BY <1>0, <1>3, <1>4, <1>6, <1>7 DEF Uses, Apart, None
    <2>4. ASSUME NEW k \in Key, Live(k)' PROVE channels'[k].id \notin closed'
      <3>1. Live(k) /\ ~Closes(i, k) /\ channels'[k].id = channels[k].id
        BY <1>4, <1>6, <2>4
      <3>2. channels[k].id \notin closed
        BY <3>1 DEF Uses, Opened
      <3>3. \A j \in Key : Closes(i, j) => channels[j].id # channels[k].id
        BY <3>1 DEF Uses, Apart
      <3> QED
        BY <1>0, <3>1, <3>2, <3>3
    <2> QED
      BY <2>2, <2>3, <2>4 DEF Opened
  <1>10. ASSUME NEW n \in 1..MaxChannels
         PROVE  On(n)' = {x \in On(n) : x[1] # i}
    <2>1. n # None
      BY DEF None
    <2>2. \A x \in AllPlaces : clients'[x[1]][x[2]] = IF x[1] = i THEN None ELSE clients[x[1]][x[2]]
      BY <1>0, <1>1 DEF AllPlaces
    <2> QED
      BY <2>1, <2>2 DEF On, AllPlaces
  <1>11. NotUsedYet'
    <2>1. \A n \in 1..MaxChannels : ToCome(n)' => Unused(n)
      BY <1>0 DEF Uses, NotUsedYet, ToCome
    <2>2. ASSUME NEW n \in 1..MaxChannels, Unused(n) PROVE n \notin closed'
      BY <1>0, <2>2 DEF Unused
    <2>3. \A n \in 1..MaxChannels : n # None
      BY DEF None
    <2> QED
      BY <1>0, <1>7, <1>10, <2>1, <2>2, <2>3 DEF NotUsedYet, Unused
  <1>12. ASSUME NEW k \in Key, Live(k), NEW n, n = channels[k].id
         PROVE  /\ n \in 1..MaxChannels /\ UsedUnder(n, k)'
                /\ Users(n) \in Nat /\ Users(n)' \in Nat
                /\ Users(n)' >= Users(n) - Closing(i, k)
                /\ joined = {} => Users(n)' = Users(n) - Closing(i, k)
    <2> DEFINE Gone == {x \in On(n) : x[1] = i}
    <2>1. n \in 1..MaxChannels /\ n # None
      BY <1>1, <1>3, <1>12 DEF None
    <2>2. UsedUnder(n, k)
      BY <1>12 DEF Uses, Keyed
    <2>3. Gone \subseteq Clients(i, k) /\ Gone \subseteq On(n) /\ On(n)' = On(n) \ Gone
      BY <1>10, <2>1, <2>2 DEF Clients, On, AllPlaces, UsedUnder
    <2>4. joined = {} => Gone = Clients(i, k)
      BY <1>12, <2>3 DEF Uses, Exact, Clients, On, AllPlaces
    <2>5. IsFiniteSet(On(n)) /\ Cardinality(On(n)) \in Nat /\ lost[n] \in Nat /\ Users(n) \in Nat
      BY <2>1, UserTypes, FinitePlaces DEF Uses, On, AllPlaces
    <2>6. On(n) \cap Gone = Gone
      OBVIOUS
    <2>7. Cardinality(Gone) \in Nat /\ Cardinality(On(n) \ Gone) = Cardinality(On(n)) - Cardinality(Gone)
      BY <2>3, <2>5, <2>6, FS_Difference, FS_Subset, FS_CardinalityType
    <2>8. Cardinality(Gone) <= Closing(i, k) /\ (joined = {} => Cardinality(Gone) = Closing(i, k))
      <3> DEFINE All == Clients(i, k)
      <3>1. IsFiniteSet(All) /\ Closing(i, k) = Cardinality(All)
        BY <1>2
      <3>2. Gone \in SUBSET All /\ (joined = {} => Gone = All)
        BY <2>3, <2>4
      <3> HIDE DEF Gone, All
      <3>3. Cardinality(Gone) <= Cardinality(All)
        BY <3>1, <3>2, FS_Subset
      <3> QED
        BY <3>1, <3>2, <3>3
    <2>9. Cardinality(On(n)') \in Nat /\ Cardinality(On(n)') = Cardinality(On(n)) - Cardinality(Gone)
      BY <1>8, <2>1, <2>3, <2>7, UserTypesNext
    <2> HIDE DEF Gone
    <2>10. Users(n)' \in Nat /\ Users(n)' = Users(n) - Cardinality(Gone)
      BY <1>0, <2>5, <2>7, <2>9 DEF Users
    <2>11. UsedUnder(n, k)'
      BY <1>0, <2>2, <2>3 DEF UsedUnder
    <2> QED
      BY <1>2, <2>1, <2>5, <2>7, <2>8, <2>10, <2>11
  <1>13. ASSUME NEW k \in Key, Live(k)', NEW n, n = channels[k].id
         PROVE  /\ channels'[k].id = n /\ UsedUnder(n, k)'
                /\ channels'[k].refCount <= Users(n)'
                /\ joined = {} => channels'[k].refCount = Users(n)'
    <2>1. Live(k) /\ ~Closes(i, k) /\ channels[k].refCount \in Nat /\ Closing(i, k) \in Nat
      BY <1>1, <1>2, <1>6, <1>13
    <2>2. /\ channels[k].refCount <= Users(n)
          /\ joined = {} => channels[k].refCount = Users(n)
      BY <1>13, <2>1 DEF Uses, NoChannelOutlivesItsUsers, Exact, Live
    <2>3. channels'[k].id = n /\ channels'[k].refCount = channels[k].refCount - Closing(i, k)
      BY <1>4, <1>13, <2>1
    <2>4. /\ UsedUnder(n, k)' /\ Users(n) \in Nat /\ Users(n)' \in Nat
          /\ Users(n)' >= Users(n) - Closing(i, k)
          /\ joined = {} => Users(n)' = Users(n) - Closing(i, k)
      BY <1>12, <1>13, <2>1
    <2> QED
      BY <2>1, <2>2, <2>3, <2>4
  <1>14. Keyed' /\ NoChannelOutlivesItsUsers'
    BY <1>4, <1>6, <1>13 DEF Keyed, NoChannelOutlivesItsUsers, Live
  <1>15. Exact'
    <2> SUFFICES ASSUME joined' = {} PROVE Exact'
      BY DEF Exact
    <2>0. joined = {}
      BY <1>0
    <2>1. \A k \in Key : Live(k)' => channels'[k].refCount = (Users(channels[k].id))'
      BY <1>4, <1>6, <1>13, <2>0
    <2>2. ASSUME NEW k \in Key, Closes(i, k), NEW n, n = channels[k].id
          PROVE  On(n)' = {} /\ authOn' # n
      <3>1. /\ n \in 1..MaxChannels /\ Users(n) \in Nat /\ Users(n)' \in Nat
            /\ Users(n)' = Users(n) - Closing(i, k)
        BY <1>12, <2>0, <2>2 DEF Closes
      <3>2. channels[k].refCount = Users(n) /\ Closing(i, k) \in Nat /\ channels[k].refCount <= Closing(i, k)
        BY <1>2, <2>0, <2>2 DEF Closes, Uses, Exact
      <3>3. Users(n)' = 0
        BY <3>1, <3>2
      <3>4. /\ Cardinality(On(n)') \in Nat /\ lost'[n] \in Nat
            /\ Cardinality(On(n)') = 0 <=> On(n)' = {}
        BY <1>8, <3>1, UserTypesNext
      <3> QED
        BY <3>3, <3>4 DEF Users
    <2>3. ASSUME NEW k \in Key, NEW n, n # None, channels[k].id = n, On(n)' # {} \/ authOn' = n
          PROVE  channels'[k].id = n
      <3>1. Live(k)
        BY <2>3 DEF Live, NoChannel
      <3> QED
        BY <1>4, <2>2, <2>3, <3>1
    <2>4. ASSUME NEW x \in AllPlaces, clients'[x[1]][x[2]] # None
          PROVE  channels'[makeChannelKey(x[2])].id = clients'[x[1]][x[2]]
      <3>1. clients'[x[1]][x[2]] = clients[x[1]][x[2]] /\ makeChannelKey(x[2]) \in Key
        BY <1>0, <1>1, <2>4, KeyType DEF AllPlaces
      <3>2. PICK n : n = clients'[x[1]][x[2]]
        OBVIOUS
      <3>3. channels[makeChannelKey(x[2])].id = n
        BY <2>0, <2>4, <3>1, <3>2 DEF Uses, Exact
      <3>4. x \in On(n)'
        BY <3>2 DEF On, AllPlaces
      <3> QED
        BY <2>3, <2>4, <3>1, <3>2, <3>3, <3>4
    <2>5. authOn' # None => channels'["unary"].id = authOn'
      BY <1>0, <2>0, <2>3 DEF Uses, Exact, Key
    <2> QED
      BY <2>1, <2>4, <2>5, <1>4, <1>6 DEF Exact
  <1> QED
    BY <1>8, <1>9, <1>11, <1>14, <1>15 DEF Uses

LEMMA UsesWhenCreated ==
  ASSUME Uses, Created, NEW k \in Key, ChannelCreated(k)
  PROVE  Uses'
  <1> DEFINE W == Waits(k)
  <1> PICK id : id = creating[k]
    OBVIOUS
  <1>0. /\ id # None
        /\ channels' = [channels EXCEPT ![k] = [id |-> id, refCount |-> 1]]
        /\ creating' = [creating EXCEPT ![k] = None]
        /\ joined' = IF Joiners(k) > 1 THEN joined \cup {id} ELSE joined
        /\ Register(W, id)
        /\ auth' = IF auth = "channel" /\ k = "unary" THEN "challenge" ELSE auth
        /\ authOn' = IF auth = "channel" /\ k = "unary" THEN id ELSE authOn
        /\ UNCHANGED <<closed, created>>
    BY DEF ChannelCreated
  <1>1. /\ channels \in [Key -> [id : Id, refCount : Nat]] /\ creating \in [Key -> Id]
        /\ created \in Nat /\ MaxChannels \in Nat /\ created <= MaxChannels
        /\ id \in 1..created /\ id \in 1..MaxChannels /\ id \in Id
        /\ W \in SUBSET Caller /\ None \in Id
    BY <1>0, ConnectionsAssumption
    DEF ConnectionsAssumption, Uses, Numbered, ChannelTypes, Id, None, Waits
  <1>2. ~Live(k) /\ Unused(id)
    BY <1>0, <1>1 DEF Uses, Numbered, NotUsedYet, ToCome
  <1>3. clients' = ClientsWith(W, id)
    BY <1>0, <1>1, RegisterParts
  <1>4. On(id)' = Places(W)
    BY <1>2, <1>3 DEF ClientsWith, Places, On, AllPlaces, Unused
  <1>5. /\ channels' \in [Key -> [id : Id, refCount : Nat]]
        /\ creating' \in [Key -> Id]
        /\ Live(k)' /\ channels'[k].id = id /\ channels'[k].refCount = 1
        /\ creating'[k] = None
        /\ \A j \in Key \ {k} : /\ channels'[j] = channels[j] /\ creating'[j] = creating[j]
                                /\ Live(j)' <=> Live(j)
    BY <1>0, <1>1 DEF Live, NoChannel, None
  <1>6. ChannelTypes'
    <2>1. clients' \in [Inst -> [ClientType -> Id]] /\ lost' \in [1..MaxChannels -> Nat]
      BY <1>0, <1>1, RegisterTypes DEF Uses
    <2>2. joined' \subseteq Id /\ authOn' \in Id /\ auth' \in {"none", "channel", "challenge"}
      BY <1>0, <1>1 DEF Uses, ChannelTypes
    <2> QED
      BY <1>0, <1>5, <2>1, <2>2 DEF Uses, ChannelTypes
  <1>7. auth = "channel" => authOn = None
    BY DEF Uses, Numbered
  <1>8. Numbered' /\ Apart' /\ Opened'
    <2>1. \A j \in Key : Live(j)' => channels'[j].id \in 1..created' /\ channels'[j].refCount >= 1
      BY <1>0, <1>1, <1>5 DEF Uses, Numbered
    <2>2. \A j \in Key : creating'[j] \in 0..created' /\ (creating'[j] # None => ~Live(j)')
      <3>1. \A j \in Key : creating[j] \in 0..created /\ (creating[j] # None => ~Live(j))
        BY DEF Uses, Numbered
      <3>2. 0 \in 0..created
        BY <1>1
      <3> QED
        BY <1>0, <1>5, <3>1, <3>2 DEF None
    <2>3. closed' \subseteq 1..created' /\ authOn' \in 0..created'
      BY <1>0, <1>1 DEF Uses, Numbered
    <2>4. auth' = "challenge" <=> authOn' # None
      BY <1>0, <1>7 DEF Uses, Numbered
    <2>5. Numbered'
      BY <2>1, <2>2, <2>3, <2>4 DEF Numbered
    <2>6. Apart'
      BY <1>0, <1>2, <1>5 DEF Uses, Apart, Unused
    <2>7. Opened'
      BY <1>0, <1>2, <1>5 DEF Uses, Opened, Unused
    <2> QED
      BY <2>5, <2>6, <2>7
  <1>9. ASSUME NEW n \in 1..MaxChannels, n # id
        PROVE  /\ On(n)' \subseteq On(n) /\ Users(n)' = Users(n)
               /\ authOn' = n <=> authOn = n
               /\ Unused(n) => lost'[n] = 0
    <2>1. /\ On(n)' = On(n) \ Places(W)
          /\ Cardinality(On(n)') + lost'[n] = Cardinality(On(n)) + lost[n]
      BY <1>0, <1>1, <1>9, RegisterOthers DEF Uses
    <2>2. authOn' = n <=> authOn = n
      BY <1>0, <1>7, <1>9 DEF None
    <2>3. Users(n)' = Users(n)
      BY <2>1, <2>2 DEF Users
    <2>4. Cardinality(On(n)') \in Nat /\ lost'[n] \in Nat
      BY <1>6, UserTypesNext
    <2>5. Unused(n) => Cardinality(On(n)) = 0 /\ lost[n] = 0
      BY FS_EmptySet DEF Unused
    <2>6. Unused(n) => lost'[n] = 0
      BY <2>1, <2>4, <2>5
    <2> QED
      BY <2>1, <2>2, <2>3, <2>6
  <1>10. NotUsedYet'
    <2>1. \A n \in 1..MaxChannels : ToCome(n)' => ToCome(n) /\ n # id
      BY <1>0, <1>1, <1>5 DEF ToCome, Uses, Apart, None
    <2>2. ASSUME NEW n \in 1..MaxChannels, n # id, Unused(n) PROVE Unused(n)'
      BY <1>0, <1>5, <1>9, <2>2 DEF Unused
    <2> QED
      BY <2>1, <2>2 DEF Uses, NotUsedYet
  <1>11. /\ UsedUnder(id, k)' /\ 1 <= Users(id)'
         /\ Joiners(k) <= 1 => Users(id)' = 1
    <2>1. authOn' = id <=> auth = "channel" /\ k = "unary"
      BY <1>0, <1>2 DEF Unused
    <2>2. UsedUnder(id, k)'
      BY <1>4, <2>1 DEF UsedUnder, Places, Waits
    <2>3. Cardinality(On(id)') \in Nat /\ lost'[id] \in Nat /\ (Cardinality(On(id)') = 0 <=> On(id)' = {})
      BY <1>1, <1>6, UserTypesNext
    <2>4. WaitsFor(k)
      BY <1>0 DEF Created
    <2>5. CASE W = {}
      <3>1. clients' = clients /\ lost' = lost
        BY <1>0, <1>1, <2>5, RegisterNone DEF Uses
      <3>2. authOn' = id
        BY <2>1, <2>4, <2>5 DEF WaitsFor
      <3>3. lost'[id] = 0 /\ Cardinality(On(id)') = 0
        BY <1>2, <1>4, <2>3, <2>5, <3>1 DEF Unused, Places
      <3> QED
        BY <2>2, <3>2, <3>3 DEF Users
    <2>6. CASE W # {}
      <3>1. On(id)' # {}
        <4>1. PICK c \in W : TRUE
          BY <2>6
        <4>2. <<InstOf[c], TypeOf[c]>> \in Places(W)
          BY <1>1, <4>1, ConnectionsAssumption DEF ConnectionsAssumption, Places, AllPlaces
        <4> QED
          BY <1>4, <4>2
      <3>2. Cardinality(On(id)') >= 1
        BY <2>3, <3>1
      <3>3. 1 <= Users(id)'
        BY <2>3, <3>2 DEF Users
      <3>4. ASSUME Joiners(k) <= 1 PROVE Users(id)' = 1
        <4>1. IsFiniteSet(W) /\ Cardinality(W) \in Nat /\ Cardinality(W) # 0
          BY <1>1, <2>6, ConnectionsAssumption, FS_Subset, FS_CardinalityType, FS_EmptySet
          DEF ConnectionsAssumption
        <4>2. Cardinality(W) = 1 /\ ~(auth = "channel" /\ k = "unary")
          BY <3>4, <4>1 DEF Joiners
        <4>3. PICK c : W = {c}
          BY <4>1, <4>2, FS_Singleton
        <4>4. c \in Caller /\ Register({c}, id)
          BY <1>0, <1>1, <4>3
        <4>5. Cardinality(On(id)') + lost'[id] = Cardinality(On(id)) + lost[id] + 1
          BY <1>1, <4>4, RegisterOne DEF Uses
        <4>6. Cardinality(On(id)) = 0 /\ lost[id] = 0
          BY <1>2, FS_EmptySet DEF Unused
        <4>7. authOn' # id
          BY <2>1, <4>2
        <4> QED
          BY <2>3, <4>5, <4>6, <4>7 DEF Users
      <3> QED
        BY <2>2, <3>3, <3>4
    <2> QED
      BY <2>5, <2>6
  <1>12. ASSUME NEW j \in Key, j # k, Live(j), NEW n, n = channels[j].id
         PROVE  /\ channels'[j] = channels[j] /\ UsedUnder(n, j)'
                /\ channels[j].refCount <= Users(n)' /\ Users(n)' = Users(n)
    <2>1. n \in 1..MaxChannels /\ n # id
      BY <1>1, <1>2, <1>12 DEF Uses, Numbered, Unused
    <2>2. On(n)' \subseteq On(n) /\ Users(n)' = Users(n) /\ (authOn' = n <=> authOn = n)
      BY <1>9, <2>1
    <2>3. UsedUnder(n, j) /\ channels[j].refCount <= Users(n)
      BY <1>12 DEF Uses, Keyed, NoChannelOutlivesItsUsers, Live
    <2> QED
      BY <1>5, <1>12, <2>2, <2>3 DEF UsedUnder
  <1>13. Keyed' /\ NoChannelOutlivesItsUsers'
    <2>1. Keyed'
      BY <1>5, <1>11, <1>12 DEF Keyed
    <2>2. NoChannelOutlivesItsUsers'
      BY <1>5, <1>11, <1>12 DEF NoChannelOutlivesItsUsers, Live
    <2> QED
      BY <2>1, <2>2
  <1>14. Exact'
    <2> SUFFICES ASSUME joined' = {} PROVE Exact'
      BY DEF Exact
    <2>0. joined = {} /\ Joiners(k) <= 1
      <3>1. Joiners(k) \in Nat
        BY <1>1, ConnectionsAssumption, FS_Subset, FS_CardinalityType DEF ConnectionsAssumption, Joiners
      <3> QED
        BY <1>0, <3>1
    <2>1. \A j \in Key : Live(j)' => channels'[j].refCount = (Users(channels[j].id))'
      BY <1>5, <1>11, <1>12, <2>0 DEF Uses, Exact
    <2>2. ASSUME NEW x \in AllPlaces, clients'[x[1]][x[2]] # None
          PROVE  channels'[makeChannelKey(x[2])].id = clients'[x[1]][x[2]]
      <3>1. makeChannelKey(x[2]) \in Key
        BY KeyType DEF AllPlaces
      <3>2. CASE x \in Places(W)
        <4>1. clients'[x[1]][x[2]] = id /\ makeChannelKey(x[2]) = k
          BY <1>3, <3>2 DEF ClientsWith, Places, AllPlaces, Waits
        <4> QED
          BY <1>5, <4>1
      <3>3. CASE x \notin Places(W)
        <4>1. clients'[x[1]][x[2]] = clients[x[1]][x[2]]
          BY <1>3, <3>3 DEF ClientsWith, Places, AllPlaces
        <4>2. channels[makeChannelKey(x[2])].id = clients[x[1]][x[2]]
          BY <2>0, <2>2, <4>1 DEF Uses, Exact
        <4>3. makeChannelKey(x[2]) # k
          BY <1>2, <2>2, <4>1, <4>2 DEF Live, NoChannel
        <4> QED
          BY <1>5, <3>1, <4>1, <4>2, <4>3
      <3> QED
        BY <3>2, <3>3
    <2>3. authOn' # None => channels'["unary"].id = authOn'
      <3>1. CASE auth = "channel" /\ k = "unary"
        BY <1>0, <1>5, <3>1
      <3>2. CASE ~(auth = "channel" /\ k = "unary")
        <4>1. authOn' = authOn /\ (authOn # None => channels["unary"].id = authOn)
          BY <1>0, <2>0, <3>2 DEF Uses, Exact
        <4>2. authOn # None => k # "unary"
          BY <1>2, <4>1 DEF Live, NoChannel
        <4> QED
          BY <1>5, <4>1, <4>2 DEF Key
      <3> QED
        BY <3>1, <3>2
    <2> QED
      BY <1>5, <2>1, <2>2, <2>3 DEF Exact
  <1> QED
    BY <1>6, <1>8, <1>10, <1>13, <1>14 DEF Uses

LEMMA UsesStep == Uses /\ Created /\ [Next]_vars => Uses'
  <1> SUFFICES ASSUME Uses, Created, [Next]_vars PROVE Uses'
    OBVIOUS
  <1>1. CASE \E c \in Caller : CreateClient(c) \/ HasToken(c) \/ CallStart(c) \/ CallSucceeds(c)
                                 \/ TokenRefused(c) \/ CallFails(c)
    BY <1>1, UsesKept DEF CreateClient, HasToken, CallStart, CallSucceeds, TokenRefused, CallFails, authVars
  <1>2. ASSUME NEW c \in Caller, AuthStart(c) PROVE Uses'
    <2>1. CASE ~Live("unary")
      <3>1. /\ StartsCreating("unary") /\ auth = "none" /\ auth' = "channel" /\ "unary" \in Key
            /\ UNCHANGED <<channels, closed, joined, clients, lost, authOn>>
        BY <1>2, <2>1 DEF AuthStart, Live, Key
      <3> QED
        BY <3>1, UsesWhenStarting
    <2> QED
      BY <1>2, <2>1, UsesWhenAuthenticating
  <1>3. ASSUME NEW c \in Caller, AcquireChannel(c) PROVE Uses'
    <2>1. makeChannelKey(TypeOf[c]) \in Key
      BY KeyType, ConnectionsAssumption DEF ConnectionsAssumption
    <2>2. CASE ~Live(makeChannelKey(TypeOf[c]))
      <3>1. /\ StartsCreating(makeChannelKey(TypeOf[c]))
            /\ UNCHANGED <<channels, closed, joined, clients, lost, auth, authOn>>
        BY <1>3, <2>2 DEF AcquireChannel, Live, authVars
      <3> QED
        BY <2>1, <3>1, UsesWhenStarting
    <2> QED
      BY <1>3, <2>2, UsesWhenAcquiring
  <1>4. CASE \E k \in Key : ChannelCreated(k) \/ ChannelFails(k)
    BY <1>4, UsesWhenCreated, UsesAfterFailure
  <1>5. CASE AuthSucceeds \/ AuthFails
    BY <1>5, UsesWhenReleasing
  <1>6. CASE AuthRetries \/ TokenEvicted \/ (\E t \in 1..MaxTokens : TokenExpires(t)) \/ UNCHANGED vars
    BY <1>6, UsesKept DEF AuthRetries, TokenEvicted, TokenExpires, vars, authVars
  <1>7. CASE \E i \in Inst : CloseConnections(i)
    BY <1>7, UsesWhenClosing
  <1> QED
    BY <1>1, <1>2, <1>3, <1>4, <1>5, <1>6, <1>7 DEF Next, Step

LEMMA UsesAlways == Spec => []Uses
  BY UsesInit, UsesStep, ChannelsAreAwaited, PTL DEF Spec

(***************************************************************************)
(* A channel never counts more users than it has, whoever shares, fails to *)
(* create, closes or loses it: none stays open with nobody left to close   *)
(* it but the clients that were replaced by a second of their kind.        *)
(***************************************************************************)
THEOREM ChannelsAreGivenUp == Spec => []NoChannelOutlivesItsUsers
  <1>1. Uses => NoChannelOutlivesItsUsers
    BY DEF Uses
  <1> QED
    BY <1>1, UsesAlways, PTL

(***************************************************************************)
(* As long as users never shared the creation of a channel, no channel is  *)
(* closed under a client or an authentication that still uses it.          *)
(***************************************************************************)
THEOREM UsedChannelsAreOpen == Spec => []ChannelInUseIsOpen
  <1>1. Uses => ChannelInUseIsOpen
    <2> SUFFICES ASSUME Uses, joined = {}, NEW n \in closed PROVE On(n) = {} /\ authOn # n
      BY DEF ChannelInUseIsOpen
    <2>1. n # None
      BY DEF Uses, Numbered, None
    <2>2. \A k \in Key : channels[k].id # n
      BY <2>1 DEF Uses, Opened, Live, NoChannel
    <2>3. On(n) = {}
      BY <2>1, <2>2, KeyType DEF Uses, Exact, On, AllPlaces
    <2>4. authOn # n
      BY <2>1, <2>2 DEF Uses, Exact, Key
    <2> QED
      BY <2>3, <2>4
  <1> QED
    BY <1>1, UsesAlways, PTL

-----------------------------------------------------------------------------
(***************************************************************************)
(* The types of the rest: the tokens, and who holds which.                 *)
(***************************************************************************)
TokenTypes ==
  /\ token \in 0..MaxTokens /\ issued \in 0..MaxTokens
  /\ expired \subseteq 1..MaxTokens
  /\ attempt \in 0..MaxAttempts
  /\ synced \subseteq Inst
  /\ sent \in [Caller -> 0..MaxTokens]

LEMMA TokenTypesInit == Init => TokenTypes
  BY ConnectionsAssumption DEF ConnectionsAssumption, Init, TokenTypes, None

LEMMA TokenTypesStep == TokenTypes /\ [Next]_vars => TokenTypes'
  <1> SUFFICES ASSUME TokenTypes, [Next]_vars PROVE TokenTypes'
    OBVIOUS
  <1> USE ConnectionsAssumption DEF ConnectionsAssumption, TokenTypes
  <1>1. ASSUME NEW c \in Caller, HasToken(c) PROVE TokenTypes'
    BY <1>1 DEF HasToken, tokenVars, authVars
  <1>2. ASSUME NEW c \in Caller, AuthStart(c) PROVE TokenTypes'
    BY <1>2 DEF AuthStart, tokenVars, callVars
  <1>3. CASE AuthSucceeds
    BY <1>3 DEF AuthSucceeds
  <1>4. CASE AuthRetries
    BY <1>4 DEF AuthRetries, tokenVars, callVars
  <1>5. ASSUME NEW c \in Caller, CallSucceeds(c) PROVE TokenTypes'
    BY <1>5 DEF CallSucceeds, authVars, None
  <1>6. ASSUME NEW c \in Caller, TokenRefused(c) PROVE TokenTypes'
    BY <1>6 DEF TokenRefused, authVars, None
  <1>7. ASSUME NEW t \in 1..MaxTokens, TokenExpires(t) PROVE TokenTypes'
    BY <1>7 DEF TokenExpires, authVars, callVars
  <1>8. CASE TokenEvicted
    BY <1>8 DEF TokenEvicted, authVars, callVars, None
  <1>9. CASE \/ \E c \in Caller : CreateClient(c) \/ AcquireChannel(c) \/ CallStart(c) \/ CallFails(c)
             \/ \E k \in Key : ChannelCreated(k) \/ ChannelFails(k)
             \/ AuthFails \/ (\E i \in Inst : CloseConnections(i)) \/ UNCHANGED vars
    BY <1>9 DEF CreateClient, AcquireChannel, CallStart, CallFails, ChannelCreated, ChannelFails,
                AuthFails, CloseConnections, vars, tokenVars, authVars, callVars
  <1> QED
    BY <1>1, <1>2, <1>3, <1>4, <1>5, <1>6, <1>7, <1>8, <1>9 DEF Next, Step

(***************************************************************************)
(* Every variable keeps its type; what could break it is the count of a    *)
(* channel, which no release takes below zero.                             *)
(***************************************************************************)
THEOREM CountsStayNatural == Spec => []TypeOK
  <1>1. Uses /\ Shape /\ TokenTypes => TypeOK
    BY DEF Uses, ChannelTypes, Shape, Place, TokenTypes, TypeOK
  <1> QED
    BY <1>1, UsesAlways, ChannelsAreAwaited, TokenTypesInit, TokenTypesStep, PTL DEF Spec
==============================================================================
