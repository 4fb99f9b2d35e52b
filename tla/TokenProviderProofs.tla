------------------------ MODULE TokenProviderProofs ------------------------
(***************************************************************************)
(* Theorems about TokenProvider, for any callers, lifetimes and margin.    *)
(*                                                                         *)
(* That the cache is conservative needs the same of a token still on its   *)
(* way (Pending), and that the cache has not moved under the caller that   *)
(* waits for it, which is what the mutex gives (Exclusive).  That the      *)
(* mutex comes free again needs the converse (Owned): on every way out of  *)
(* Token it is unlocked.                                                   *)
(***************************************************************************)
EXTENDS TokenProvider, TLAPS

\* A call past Lock is the one that holds the mutex.
Exclusive ==
    \A c \in Callers : pc[c] \in {"deciding", "requesting"} => mu = {c}

\* The mutex is held only by a call past Lock.
Owned == \A c \in Callers : mu = {c} => pc[c] \in {"deciding", "requesting"}

\* A token under way is newer than the cached one, and counting from the
\* request it is not taken to live longer than it does.
Pending ==
    \A c \in Callers :
        /\ pc[c] = "requesting" => requestedAt[c] <= now
        /\ reply[c] # NoToken =>
              /\ pc[c] = "requesting"
              /\ reply[c] <= issued
              /\ cachedToken < reply[c]
              /\ requestedAt[c] + lifetime[reply[c]] <= expiry[reply[c]]

Inv ==
    /\ TypeOK
    /\ Exclusive
    /\ Owned
    /\ Pending
    /\ cachedToken <= issued
    /\ ExpiryConservative

-----------------------------------------------------------------------------
\* The initial state satisfies the invariant.
LEMMA InvInit == Init => Inv
<1> SUFFICES ASSUME Init PROVE Inv
  OBVIOUS
<1> USE TimeAssumption DEF Init, Tokens, NoToken
<1>1. configured \in BOOLEAN /\ mu \in {{}} \union {{c} : c \in Callers}
  OBVIOUS
<1>2. pc \in [Callers -> PCs]
  BY DEF PCs
<1>3. /\ requestedAt \in [Callers -> Nat]
      /\ reply       \in [Callers -> Tokens \union {NoToken}]
      /\ returned    \in [Callers -> Tokens \union {NoToken}]
  OBVIOUS
<1>4. /\ now \in Nat /\ tokenExpiry \in Int /\ issued \in 0..MaxTokens
      /\ cachedToken \in Tokens \union {NoToken}
      /\ expiry \in [Tokens -> Int] /\ lifetime \in [Tokens -> Int]
  OBVIOUS
<1>5. TypeOK
  BY <1>1, <1>2, <1>3, <1>4 DEF TypeOK
<1>6. /\ Exclusive /\ Owned /\ Pending /\ cachedToken <= issued
      /\ ExpiryConservative
  BY DEF Exclusive, Owned, Pending, ExpiryConservative
<1> QED BY <1>5, <1>6 DEF Inv

\* A return that leaves the cache alone keeps the invariant.
LEMMA ReturnStep ==
    ASSUME Inv, NEW c \in Callers, NEW from \in {"deciding", "requesting"},
           NEW t \in Tokens \union {NoToken}, Return(c, from, t),
           UNCHANGED <<configured, now, cacheVars, idpVars>>
    PROVE  Inv'
<1> USE DEF Inv, TypeOK, PCs
<1>1. /\ pc[c] = from /\ mu' = {}
      /\ pc' = [pc EXCEPT ![c] = "done"]
      /\ returned' = [returned EXCEPT ![c] = t]
      /\ reply' = [reply EXCEPT ![c] = NoToken]
      /\ requestedAt' = [requestedAt EXCEPT ![c] = 0]
      /\ UNCHANGED <<configured, now, cachedToken, tokenExpiry, issued,
                     expiry, lifetime>>
  BY DEF Return, Goto, cacheVars, idpVars
<1>2. TypeOK'
  BY <1>1
<1>3. mu = {c}
  BY <1>1 DEF Exclusive
<1>4. \A k \in Callers : pc'[k] \notin {"deciding", "requesting"}
  BY <1>1, <1>3 DEF Exclusive
<1>5. Exclusive' /\ Owned'
  BY <1>1, <1>4 DEF Exclusive, Owned
<1>6. \A k \in Callers : reply'[k] = NoToken
  BY <1>1, <1>4 DEF Pending
<1>7. Pending'
  BY <1>4, <1>6 DEF Pending
<1>8. (cachedToken <= issued)' /\ ExpiryConservative'
  BY <1>1 DEF ExpiryConservative
<1> HIDE DEF TypeOK
<1> QED BY <1>2, <1>5, <1>7, <1>8 DEF Inv

\* A step of a call keeps it.
LEMMA CallStep ==
    ASSUME Inv, NEW c \in Callers,
           Call(c) \/ Lock(c) \/ Holding(c) \/ Ends(c) \/ Again(c)
    PROVE  Inv'
<1> USE TimeAssumption
        DEF Inv, TypeOK, Exclusive, Owned, Pending, ExpiryConservative, PCs,
            Tokens, NoToken, Goto, idpVars, cacheVars
<1>1. CASE Call(c)
  BY <1>1 DEF Call
<1>2. CASE Lock(c)
  BY <1>2 DEF Lock
<1>3. CASE UseCache(c)
  <2>1. cachedToken \in Tokens \union {NoToken}
    OBVIOUS
  <2> QED BY <1>3, <2>1, ReturnStep DEF UseCache
<1>4. CASE Misconfigured(c)
  BY <1>4, ReturnStep DEF Misconfigured
<1>5. CASE Request(c)
  <2>1. /\ pc' = [pc EXCEPT ![c] = "requesting"]
        /\ requestedAt' = [requestedAt EXCEPT ![c] = now]
        /\ UNCHANGED <<configured, now, mu, reply, returned, cachedToken,
                       tokenExpiry, issued, expiry, lifetime>>
        /\ pc[c] = "deciding" /\ mu = {c} /\ reply[c] = NoToken
    BY <1>5 DEF Request
  <2>2. TypeOK' /\ Exclusive' /\ Owned'
    BY <2>1
  <2>3. Pending'
    BY <2>1
  <2>4. (cachedToken <= issued)' /\ ExpiryConservative'
    BY <2>1
  <2> QED BY <2>2, <2>3, <2>4
<1>6. CASE RequestFails(c)
  BY <1>6, ReturnStep DEF RequestFails
<1>7. CASE RequestAnswered(c)
  <2>1. /\ pc' = [pc EXCEPT ![c] = "done"]
        /\ returned' = [returned EXCEPT ![c] = reply[c]]
        /\ reply' = [reply EXCEPT ![c] = NoToken]
        /\ requestedAt' = [requestedAt EXCEPT ![c] = 0]
        /\ cachedToken' = reply[c]
        /\ tokenExpiry' = requestedAt[c] + lifetime[reply[c]]
        /\ mu' = {}
        /\ UNCHANGED <<configured, now, issued, expiry, lifetime>>
    BY <1>7 DEF RequestAnswered, Return, ExpiryOf
  <2>2. /\ pc[c] = "requesting" /\ mu = {c} /\ reply[c] \in Tokens
        /\ reply[c] <= issued
        /\ requestedAt[c] + lifetime[reply[c]] <= expiry[reply[c]]
    BY <1>7 DEF RequestAnswered, Return
  <2>3. \A k \in Callers \ {c} :
           /\ pc[k] \notin {"deciding", "requesting"}
           /\ reply[k] = NoToken
    BY <2>2
  <2>4. TypeOK'
    <3>1. requestedAt[c] \in Nat /\ lifetime[reply[c]] \in Int
      BY <2>2
    <3>2. tokenExpiry' \in Int
      BY ONLY <2>1, <3>1
    <3>3. /\ mu' \in {{}} \union {{k} : k \in Callers}
          /\ cachedToken' \in Tokens \union {NoToken}
          /\ pc' \in [Callers -> PCs]
      BY <2>1, <2>2
    <3>4. /\ returned' \in [Callers -> Tokens \union {NoToken}]
          /\ reply' \in [Callers -> Tokens \union {NoToken}]
          /\ requestedAt' \in [Callers -> Nat]
      BY <2>1, <2>2
    <3> QED BY <2>1, <3>2, <3>3, <3>4
  <2>5. Exclusive' /\ Owned'
    BY <2>1, <2>3
  <2>7. \A k \in Callers : reply'[k] = NoToken /\ pc'[k] # "requesting"
    BY <2>1, <2>3
  <2>8. Pending'
    BY <2>7
  <2>6. (cachedToken <= issued)' /\ ExpiryConservative'
    BY <2>1, <2>2
  <2> QED BY <2>4, <2>5, <2>6, <2>8
<1>8. CASE Again(c)
  BY <1>8 DEF Again
<1> QED
  BY <1>1, <1>2, <1>3, <1>4, <1>5, <1>6, <1>7, <1>8 DEF Holding, Ends

\* So does the identity provider, however late in the request it issues.
LEMMA IssueStep ==
    ASSUME Inv, NEW c \in Callers, NEW l \in Lifetimes, Issue(c, l)
    PROVE  Inv'
<1> USE TimeAssumption DEF Issue, NoToken, cacheVars
<1>1. l \in Int /\ AsDuration(l) \union {DefaultLifetime} \subseteq Int
  BY DEF AsDuration
<1>2. PICK read \in Int :
         /\ read <= l
         /\ lifetime' = [lifetime EXCEPT ![issued + 1] = read]
  BY <1>1
<1>3. TypeOK'
  BY <1>1, <1>2 DEF Inv, TypeOK, Tokens
<1>4. Exclusive' /\ Owned' /\ (cachedToken <= issued)'
  BY DEF Inv, TypeOK, Exclusive, Owned, Tokens
<1>5. ExpiryConservative'
  BY DEF Inv, TypeOK, ExpiryConservative, Tokens
<1>6. Pending'
  <2> USE DEF Inv, TypeOK, Exclusive, Pending, Tokens
  <2>1. \A k \in Callers \ {c} : reply'[k] = NoToken /\ pc[k] # "requesting"
    OBVIOUS
  <2>2. /\ reply'[c] = issued + 1 /\ issued + 1 \in Tokens
        /\ requestedAt[c] <= now
        /\ expiry'[issued + 1] = now + l /\ lifetime'[issued + 1] <= l
        /\ lifetime'[issued + 1] \in Int
    BY <1>1, <1>2
  <2>3. cachedToken < issued + 1
    OBVIOUS
  <2>4. requestedAt[c] + lifetime'[issued + 1] <= expiry'[issued + 1]
    BY <1>1, <2>2
  <2> QED BY <2>1, <2>2, <2>3, <2>4
<1> QED BY <1>3, <1>4, <1>5, <1>6 DEF Inv

\* Inv is inductive.
LEMMA InvStep == Inv /\ [Next]_vars => Inv'
<1> SUFFICES ASSUME Inv, [Next]_vars PROVE Inv'
  OBVIOUS
<1>1. CASE UNCHANGED vars
  BY <1>1 DEF vars, callVars, cacheVars, idpVars, Inv, TypeOK, Exclusive,
              Owned, Pending, ExpiryConservative
<1>2. CASE Tick
  BY <1>2 DEF Tick, callVars, cacheVars, idpVars, Inv, TypeOK, Exclusive,
              Owned, Pending, ExpiryConservative
<1>3. ASSUME NEW c \in Callers, NEW l \in Lifetimes, Issue(c, l) PROVE Inv'
  BY <1>3, IssueStep
<1>4. ASSUME NEW c \in Callers,
             Call(c) \/ Lock(c) \/ Holding(c) \/ Ends(c) \/ Again(c)
      PROVE  Inv'
  BY <1>4, CallStep
<1> QED BY <1>1, <1>2, <1>3, <1>4 DEF Next

\* Inv holds in every reachable state.
LEMMA Invariance == Spec => []Inv
  BY InvInit, InvStep, PTL DEF Spec

\* Every reachable state is type-correct; the mutex has at most one holder.
THEOREM TypeCorrect == Spec => []TypeOK
<1>1. Inv => TypeOK
  BY DEF Inv
<1> QED BY <1>1, Invariance, PTL

\* The cached token really lives at least as long as the provider takes it to.
THEOREM CacheConservative == Spec => []ExpiryConservative
<1>1. Inv => ExpiryConservative
  BY DEF Inv
<1> QED BY <1>1, Invariance, PTL

\* At most one token request is under way, for any number of callers.
THEOREM OneRequestAtATime == Spec => []SingleFlight
<1>1. Inv => SingleFlight
  BY DEF Inv, Exclusive, SingleFlight
<1> QED BY <1>1, Invariance, PTL

\* Whoever waits for the mutex finds it free, or held by the only call that is
\* inside Token: no error and no stale cache leaves it locked behind a call
\* that is over.
MutexNeverLost ==
    LET inside == {c \in Callers : pc[c] \in {"deciding", "requesting"}}
    IN  mu = inside

\* A call that gives up the mutex is over, and no call takes it from another:
\* it is handed on only by being free.
MutexHandedOn ==
    \A c \in Callers : mu = {c} /\ mu' # {c} => mu' = {} /\ pc'[c] = "done"

\* No call of Token leaves the mutex locked: CallReturns without the fairness.
THEOREM MutexComesFree == Spec => []MutexNeverLost /\ [][MutexHandedOn]_vars
<1>1. Inv => MutexNeverLost
  BY DEF Inv, TypeOK, Exclusive, Owned, MutexNeverLost
<1>2. Inv /\ [Next]_vars => [MutexHandedOn]_vars
  <2> SUFFICES ASSUME Inv, Next, NEW c \in Callers, mu = {c}, mu' # {c}
               PROVE  mu' = {} /\ pc'[c] = "done"
    BY DEF MutexHandedOn, vars
  <2> USE DEF Goto, Return, Inv, TypeOK, Exclusive, Owned
  <2>1. PICK d \in Callers :
            UseCache(d) \/ Misconfigured(d) \/ Ends(d)
    BY DEF Next, Call, Lock, Holding, Request, Again, Issue, Tick, callVars
  <2>2. d = c
    BY <2>1 DEF UseCache, Misconfigured, Ends, RequestFails, RequestAnswered
  <2> QED
    BY <2>1, <2>2
       DEF UseCache, Misconfigured, Ends, RequestFails, RequestAnswered
<1> QED BY <1>1, <1>2, Invariance, PTL DEF Spec

\* A token handed out from the cache has more than the margin left.
THEOREM CacheHitsFresh == Spec => FreshFromCache
<1>1. Inv /\ [Next]_vars => [FreshStep]_vars
  <2> SUFFICES ASSUME Inv, Next, NEW c \in Callers,
                      pc[c] = "deciding", pc'[c] = "done",
                      returned'[c] # NoToken
               PROVE  expiry[returned'[c]] > now + Margin
    BY DEF FreshStep, vars
  <2> USE DEF Goto, Return, Inv, TypeOK, NoToken
  <2>1. UseCache(c) \/ Misconfigured(c)
    BY DEF Next, Call, Lock, Holding, UseCache, Misconfigured, Request, Ends,
           RequestFails, RequestAnswered, Again, Issue, Tick, callVars
  <2>2. UseCache(c)
    BY <2>1 DEF Misconfigured
  <2>3. /\ returned'[c] = cachedToken
        /\ cachedToken # NoToken
        /\ tokenExpiry > now + Margin
    BY <2>2 DEF UseCache, Fresh
  <2>4. /\ tokenExpiry <= expiry[cachedToken]
        /\ expiry[cachedToken] \in Int
    BY <2>3 DEF ExpiryConservative
  <2> QED BY <2>3, <2>4, TimeAssumption
<1> QED BY <1>1, Invariance, PTL DEF Spec, FreshFromCache

\* No late answer puts an older token back into the cache.
THEOREM CacheMovesForward == Spec => OnlyNewerTokens
<1>1. Inv /\ [Next]_vars => [NewerStep]_vars
  <2> SUFFICES ASSUME Inv, Next PROVE NewerStep
    BY DEF vars
  <2> USE TimeAssumption DEF NewerStep, Inv, TypeOK, Tokens, NoToken
  <2>1. ASSUME NEW c \in Callers, RequestAnswered(c) PROVE NewerStep
    BY <2>1 DEF RequestAnswered, Pending
  <2>2. CASE \A c \in Callers : ~RequestAnswered(c)
    BY <2>2
       DEF Next, Call, Lock, Holding, UseCache, Misconfigured, Request, Ends,
           RequestFails, Again, Issue, Tick, cacheVars
  <2> QED BY <2>1, <2>2
<1> QED BY <1>1, Invariance, PTL DEF Spec, OnlyNewerTokens
=============================================================================
