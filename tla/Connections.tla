----------------------------- MODULE Connections -----------------------------
(***************************************************************************)
(* ConnectionManager: the channels to one signing operator, shared by all  *)
(* instances and counted by users, the clients each instance keeps, and    *)
(* the session token that all instances of one identity share.             *)
(*                                                                         *)
(* Each Caller creates, or finds, a client of its type and makes one call  *)
(* through the middleware.  channelInflight and authInflight make calls    *)
(* that come while something is created wait for it.  Time does not appear *)
(* here: a token expires at the operator, or is evicted from the cache, at *)
(* any time.                                                               *)
(***************************************************************************)
EXTENDS Integers, FiniteSets

CONSTANTS
  Inst,          \* instances of ConnectionManager
  Caller,
  InstOf,        \* the instance each Caller belongs to
  TypeOf,        \* the client it needs
  MaxAttempts,   \* MAX_ATTEMPTS of authenticate
  MaxChannels,   \* bound: channels ever created
  MaxTokens      \* bound: tokens ever issued

ClientType == {"spark", "stream", "tokens"}
Key == {"unary", "stream"}
makeChannelKey(type) == IF type = "stream" THEN "stream" ELSE "unary"

ASSUME ConnectionsAssumption ==
  /\ InstOf \in [Caller -> Inst]
  /\ TypeOf \in [Caller -> ClientType]
  /\ IsFiniteSet(Inst) /\ IsFiniteSet(Caller)
  /\ MaxAttempts \in Nat \ {0} /\ MaxChannels \in Nat /\ MaxTokens \in Nat

VARIABLES
  channels,   \* channelCache: the channel of each key and its refCount
  creating,   \* channelInflight: the channel being created, or None
  closed,     \* channels that were closed
  created,    \* channels created so far
  joined,     \* channels whose creation several users waited for
  clients,    \* clientsByType: the channel of each instance's client
  lost,       \* for each channel, its clients no instance remembers
  token,      \* authTokenCache
  issued,     \* tokens issued so far
  expired,    \* tokens the operator no longer accepts
  auth,       \* authInflight: what the authentication under way waits for
  attempt,    \* its attempts
  authOn,     \* the channel it uses
  synced,     \* instances whose time is synced
  pc,         \* what each Caller waits for
  sent        \* the token of its call

channelVars == <<channels, creating, closed, created, joined, clients, lost>>
tokenVars == <<token, issued, expired, synced>>
authVars == <<auth, attempt, authOn>>
callVars == <<pc, sent>>
vars == <<channelVars, tokenVars, authVars, callVars>>

None == 0
NoChannel == [id |-> None, refCount |-> 0]

Init ==
  /\ channels = [k \in Key |-> NoChannel]
  /\ creating = [k \in Key |-> None]
  /\ closed = {} /\ created = 0 /\ joined = {}
  /\ clients = [i \in Inst |-> [t \in ClientType |-> None]]
  /\ lost = [n \in 1..MaxChannels |-> 0]
  /\ token = None /\ issued = 0 /\ expired = {}
  /\ auth = "none" /\ attempt = 0 /\ authOn = None
  /\ synced = {}
  /\ pc = [c \in Caller |-> "idle"]
  /\ sent = [c \in Caller |-> None]

Goto(c, place) == pc' = [pc EXCEPT ![c] = place]

-----------------------------------------------------------------------------
(***************************************************************************)
(* acquireChannel and releaseChannel.                                      *)
(***************************************************************************)
Waits(k) == {c \in Caller : pc[c] = "channel" /\ makeChannelKey(TypeOf[c]) = k}
Joiners(k) == Cardinality(Waits(k)) + (IF auth = "channel" /\ k = "unary" THEN 1 ELSE 0)

Counted(k) == [channels EXCEPT ![k].refCount = @ + 1]

\* A user that finds neither a channel nor one being created creates it.
StartsCreating(k) ==
  /\ channels[k] = NoChannel
  /\ IF creating[k] # None
     THEN UNCHANGED <<creating, created>>
     ELSE /\ created < MaxChannels
          /\ created' = created + 1
          /\ creating' = [creating EXCEPT ![k] = created + 1]

\* Mutant of releaseChannel: a key without a channel is counted down too.
releaseChannelAnyway(k) ==
  IF channels[k].refCount = 1
  THEN /\ channels' = [channels EXCEPT ![k] = NoChannel]
       /\ closed' = closed \cup {channels[k].id}
  ELSE /\ channels' = [channels EXCEPT ![k].refCount = @ - 1]
       /\ UNCHANGED closed

releaseChannel(k) ==
  IF channels[k] = NoChannel THEN UNCHANGED <<channels, closed>>
  ELSE IF channels[k].refCount = 1
  THEN /\ channels' = [channels EXCEPT ![k] = NoChannel]
       /\ closed' = closed \cup {channels[k].id}
  ELSE /\ channels' = [channels EXCEPT ![k].refCount = @ - 1]
       /\ UNCHANGED closed

\* The clients of these Callers are put in the maps of their instances; of two
\* for one place the second replaces the first, which nobody closes any more.
Register(callers, id) ==
  LET For(i, t) == {c \in callers : InstOf[c] = i /\ TypeOf[c] = t}
      Place == Inst \X ClientType
      Replaced(n) == Cardinality({x \in Place : For(x[1], x[2]) # {} /\ clients[x[1]][x[2]] = n})
      Doubled == Cardinality(callers) - Cardinality({x \in Place : For(x[1], x[2]) # {}})
  IN /\ clients' = [i \in Inst |-> [t \in ClientType |->
                      IF For(i, t) # {} THEN id ELSE clients[i][t]]]
     /\ lost' = [n \in 1..MaxChannels |->
                   lost[n] + Replaced(n) + (IF n = id THEN Doubled ELSE 0)]

\* createChannelWithTLS returns: everyone who waited has the channel, and its
\* count is 1 however many they are.
ChannelCreated(k) ==
  /\ creating[k] # None
  /\ channels' = [channels EXCEPT ![k] = [id |-> creating[k], refCount |-> 1]]
  /\ creating' = [creating EXCEPT ![k] = None]
  /\ joined' = IF Joiners(k) > 1 THEN joined \cup {creating[k]} ELSE joined
  /\ Register(Waits(k), creating[k])
  /\ pc' = [c \in Caller |-> IF c \in Waits(k) THEN "call" ELSE pc[c]]
  /\ auth' = IF auth = "channel" /\ k = "unary" THEN "challenge" ELSE auth
  /\ authOn' = IF auth = "channel" /\ k = "unary" THEN creating[k] ELSE authOn
  /\ UNCHANGED <<closed, created, tokenVars, attempt, sent>>

\* Mutant of ChannelFails: those who waited hear nothing.
ChannelFailsQuietly(k) ==
  /\ creating[k] # None
  /\ creating' = [creating EXCEPT ![k] = None]
  /\ UNCHANGED <<channels, closed, created, joined, clients, lost, tokenVars, authVars, callVars>>

ChannelFails(k) ==
  /\ creating[k] # None
  /\ creating' = [creating EXCEPT ![k] = None]
  /\ pc' = [c \in Caller |->
       IF c \in Waits(k) \/ (k = "unary" /\ auth = "channel" /\ pc[c] \in {"auth", "token", "retoken"})
       THEN "over" ELSE pc[c]]
  /\ auth' = IF auth = "channel" /\ k = "unary" THEN "none" ELSE auth
  /\ UNCHANGED <<channels, closed, created, joined, clients, lost, tokenVars, attempt, authOn, sent>>

-----------------------------------------------------------------------------
(***************************************************************************)
(* authenticate and getOrCreateAuthToken: the first Caller without a token *)
(* starts an authentication, the others wait for it.                       *)
(***************************************************************************)
Authenticating == {"auth", "token", "retoken"}
After(place) ==
  CASE place = "auth" -> "acquire" [] place = "token" -> "send" [] place = "retoken" -> "resend"

HasToken(c) ==
  /\ pc[c] \in Authenticating
  /\ token # None
  /\ Goto(c, After(pc[c]))
  /\ sent' = [sent EXCEPT ![c] = token]
  /\ UNCHANGED <<channelVars, tokenVars, authVars>>

AuthStart(c) ==
  /\ pc[c] \in Authenticating
  /\ token = None
  /\ auth = "none"
  /\ attempt' = 0
  /\ IF channels["unary"] # NoChannel
     THEN /\ auth' = "challenge"
          /\ authOn' = channels["unary"].id
          /\ channels' = Counted("unary")
          /\ UNCHANGED <<creating, created>>
     ELSE /\ auth' = "channel"
          /\ StartsCreating("unary")
          /\ UNCHANGED <<channels, authOn>>
  /\ UNCHANGED <<closed, joined, clients, lost, tokenVars, callVars>>

\* The channel of the authentication is released once, however it ends.
AuthSucceeds ==
  /\ auth = "challenge"
  /\ issued < MaxTokens
  /\ issued' = issued + 1
  /\ token' = issued + 1
  /\ auth' = "none" /\ authOn' = None
  /\ releaseChannel("unary")
  /\ pc' = [c \in Caller |-> IF pc[c] \in Authenticating THEN After(pc[c]) ELSE pc[c]]
  /\ sent' = [c \in Caller |-> IF pc[c] \in Authenticating THEN issued + 1 ELSE sent[c]]
  /\ UNCHANGED <<creating, created, joined, clients, lost, expired, synced, attempt>>

\* Mutant of AuthRetries: each attempt releases the channel.
AuthRetriesReleased ==
  /\ auth = "challenge"
  /\ attempt + 1 < MaxAttempts
  /\ attempt' = attempt + 1
  /\ releaseChannel("unary")
  /\ UNCHANGED <<creating, created, joined, clients, lost, tokenVars, auth, authOn, callVars>>

\* An expired challenge or a connection error; at once or after 250 ms.
AuthRetries ==
  /\ auth = "challenge"
  /\ attempt + 1 < MaxAttempts
  /\ attempt' = attempt + 1
  /\ UNCHANGED <<channelVars, tokenVars, auth, authOn, callVars>>

\* Mutant of AuthFails: the channel is not released.
AuthFailsUnreleased ==
  /\ auth = "challenge"
  /\ auth' = "none" /\ authOn' = None
  /\ pc' = [c \in Caller |-> IF pc[c] \in Authenticating THEN "over" ELSE pc[c]]
  /\ UNCHANGED <<channelVars, tokenVars, attempt, sent>>

\* Another error, or no attempt left: all who wait fail.
AuthFails ==
  /\ auth = "challenge"
  /\ auth' = "none" /\ authOn' = None
  /\ releaseChannel("unary")
  /\ pc' = [c \in Caller |-> IF pc[c] \in Authenticating THEN "over" ELSE pc[c]]
  /\ UNCHANGED <<creating, created, joined, clients, lost, tokenVars, attempt, sent>>

-----------------------------------------------------------------------------
(***************************************************************************)
(* getOrCreateClientInternal: nothing stops two Callers from creating one  *)
(* client.                                                                 *)
(***************************************************************************)
CreateClient(c) ==
  /\ pc[c] = "idle"
  /\ Goto(c, IF clients[InstOf[c]][TypeOf[c]] # None THEN "call" ELSE "auth")
  /\ UNCHANGED <<channelVars, tokenVars, authVars, sent>>

AcquireChannel(c) ==
  /\ pc[c] = "acquire"
  /\ LET k == makeChannelKey(TypeOf[c]) IN
       IF channels[k] # NoChannel
       THEN /\ channels' = Counted(k)
            /\ Register({c}, channels[k].id)
            /\ Goto(c, "call")
            /\ UNCHANGED <<creating, created>>
       ELSE /\ StartsCreating(k)
            /\ Goto(c, "channel")
            /\ UNCHANGED <<channels, clients, lost>>
  /\ UNCHANGED <<closed, joined, tokenVars, authVars, sent>>

\* closeConnections: the clients in the maps, and only those, are closed.
CloseConnections(i) ==
  LET Closing(k) == Cardinality({t \in ClientType : makeChannelKey(t) = k /\ clients[i][t] # None})
      Closes(k) == channels[k] # NoChannel /\ Closing(k) > 0 /\ channels[k].refCount <= Closing(k)
  IN /\ \E t \in ClientType : clients[i][t] # None
     /\ channels' = [k \in Key |->
          IF Closes(k) THEN NoChannel
          ELSE IF channels[k] # NoChannel THEN [channels[k] EXCEPT !.refCount = @ - Closing(k)]
          ELSE NoChannel]
     /\ closed' = closed \cup {channels[k].id : k \in {x \in Key : Closes(x)}}
     /\ clients' = [clients EXCEPT ![i] = [t \in ClientType |-> None]]
     /\ UNCHANGED <<creating, created, joined, lost, tokenVars, authVars, callVars>>

-----------------------------------------------------------------------------
(***************************************************************************)
(* A call: createMiddleware and handleMiddlewareError.                     *)
(***************************************************************************)
CallStart(c) ==
  /\ pc[c] = "call"
  /\ Goto(c, "token")
  /\ UNCHANGED <<channelVars, tokenVars, authVars, sent>>

\* The first answer an instance gets tells it the time of the operator; tokens
\* cached before that are dropped, those of other instances too.
CallSucceeds(c) ==
  /\ pc[c] \in {"send", "resend"}
  /\ sent[c] \notin expired
  /\ Goto(c, "over")
  /\ IF pc[c] = "send" /\ InstOf[c] \notin synced
     THEN synced' = synced \cup {InstOf[c]} /\ token' = None
     ELSE UNCHANGED <<synced, token>>
  /\ UNCHANGED <<channelVars, issued, expired, authVars, sent>>

\* "token has expired": whatever token is cached now goes, and the call is made
\* once more.
TokenRefused(c) ==
  /\ pc[c] \in {"send", "resend"}
  /\ sent[c] \in expired
  /\ IF pc[c] = "send"
     THEN Goto(c, "retoken") /\ token' = None
     ELSE Goto(c, "over") /\ UNCHANGED token
  /\ UNCHANGED <<channelVars, issued, expired, synced, authVars, sent>>

CallFails(c) ==
  /\ pc[c] \in {"send", "resend"}
  /\ Goto(c, "over")
  /\ UNCHANGED <<channelVars, tokenVars, authVars, sent>>

\* External: the operator's clock, and this one's.
TokenExpires(t) ==
  /\ t \in 1..issued
  /\ expired' = expired \cup {t}
  /\ UNCHANGED <<channelVars, token, issued, synced, authVars, callVars>>

TokenEvicted ==
  /\ token # None
  /\ token' = None
  /\ UNCHANGED <<channelVars, issued, expired, synced, authVars, callVars>>

Step(c) ==
  \/ CreateClient(c) \/ HasToken(c) \/ AuthStart(c) \/ AcquireChannel(c)
  \/ CallStart(c) \/ CallSucceeds(c) \/ TokenRefused(c) \/ CallFails(c)

Next ==
  \/ \E c \in Caller : Step(c)
  \/ \E k \in Key : ChannelCreated(k) \/ ChannelFails(k)
  \/ AuthSucceeds \/ AuthRetries \/ AuthFails
  \/ \E i \in Inst : CloseConnections(i)
  \/ \E t \in 1..MaxTokens : TokenExpires(t)
  \/ TokenEvicted

Spec == Init /\ [][Next]_vars

-----------------------------------------------------------------------------
(***************************************************************************)
(* Every variable keeps its type.                                          *)
(***************************************************************************)
Id == 0..MaxChannels
TypeOK ==
  /\ channels \in [Key -> [id : Id, refCount : Nat]]
  /\ creating \in [Key -> Id]
  /\ closed \subseteq Id /\ created \in Id /\ joined \subseteq Id
  /\ clients \in [Inst -> [ClientType -> Id]]
  /\ lost \in [1..MaxChannels -> Nat]
  /\ token \in 0..MaxTokens /\ issued \in 0..MaxTokens
  /\ expired \subseteq 1..MaxTokens
  /\ authOn \in Id
  /\ auth \in {"none", "channel", "challenge"} /\ attempt \in 0..MaxAttempts
  /\ synced \subseteq Inst
  /\ pc \in [Caller -> Authenticating \cup
               {"idle", "acquire", "channel", "call", "send", "resend", "over"}]
  /\ sent \in [Caller -> 0..MaxTokens]

(***************************************************************************)
(* A channel is open as long as an instance has a client on it or an       *)
(* authentication uses it.  Premise: no users ever shared the creation of  *)
(* a channel.  Those who do are counted as one, and because a client       *)
(* releases a key and not a channel, the release that is one too many may  *)
(* close a later channel of the key.                                       *)
(***************************************************************************)
On(n) == {x \in Inst \X ClientType : clients[x[1]][x[2]] = n}
ChannelInUseIsOpen ==
  joined = {} => \A n \in closed : On(n) = {} /\ authOn # n

(***************************************************************************)
(* A channel never counts more users than it has, so none outlives its     *)
(* users; clients replaced by a second of their kind are users for ever.   *)
(***************************************************************************)
Users(n) == Cardinality(On(n)) + lost[n] + (IF authOn = n THEN 1 ELSE 0)
NoChannelOutlivesItsUsers ==
  \A k \in Key : channels[k] # NoChannel => channels[k].refCount <= Users(channels[k].id)

(***************************************************************************)
(* Nobody waits for a channel or an authentication that nobody is making:  *)
(* whatever fails, and whoever started it, its waiters hear of it.         *)
(***************************************************************************)
WaitersHaveACreator ==
  /\ \A c \in Caller : pc[c] = "channel" => creating[makeChannelKey(TypeOf[c])] # None
  /\ auth = "channel" => creating["unary"] # None
  /\ \A k \in Key : creating[k] # None => Joiners(k) > 0
=============================================================================
