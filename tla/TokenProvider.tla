--------------------------- MODULE TokenProvider ---------------------------
(***************************************************************************)
(* ClientCredentialsTokenProvider.Token (auth/client_credentials.go),      *)
(* called by every request of the client, from any number of goroutines.   *)
(* One mutex is held for the whole call, the HTTP request to the identity  *)
(* provider included.  The provider is external: it issues a token at some *)
(* moment of the request, and its answer may come late or not at all.      *)
(* Time is discrete; tokens are numbered in the order they are issued.     *)
(***************************************************************************)
EXTENDS Integers, FiniteSets

CONSTANTS
    Callers,            \* the goroutines that call Token
    Lifetimes,          \* the lifetimes the identity provider may give
    Margin,             \* refreshMargin
    DefaultLifetime,    \* defaultTokenLifetime
    MaxDuration,        \* the largest time.Duration
    MaxTime,            \* bound on the clock
    MaxTokens           \* bound on the tokens issued

ASSUME TimeAssumption ==
    /\ Margin \in Nat
    /\ MaxDuration \in Nat
    /\ DefaultLifetime \in 0..MaxDuration
    /\ Lifetimes \subseteq {l \in Int : l >= -MaxDuration - 1}
    /\ MaxTime \in Nat
    /\ MaxTokens \in Nat

NoToken  == 0
Tokens   == 1..MaxTokens

VARIABLES
    configured,     \* TokenURL, ClientID and ClientSecret are set
    now,            \* the monotonic clock
    mu,             \* the mutex: the set of its holders
    pc,             \* pc[c]: where the call of c is
    requestedAt,    \* requestedAt[c]: when c sent its token request
    reply,          \* reply[c]: the token issued for that request
    returned,       \* returned[c]: what the call of c returned, or NoToken
    cachedToken,    \* the cache
    tokenExpiry,    \*   and when its token is taken to expire
    issued,         \* the number of tokens issued
    expiry,         \* expiry[t]: when token t really expires
    lifetime        \* lifetime[t]: the lifetime read from its response

callVars  == <<mu, pc, requestedAt, reply, returned>>
cacheVars == <<cachedToken, tokenExpiry>>
idpVars   == <<issued, expiry, lifetime>>
vars      == <<configured, now, callVars, cacheVars, idpVars>>

PCs == {"idle", "locking", "deciding", "requesting", "done"}

Init ==
    /\ configured \in BOOLEAN
    /\ now         = 0
    /\ mu          = {}
    /\ pc          = [c \in Callers |-> "idle"]
    /\ requestedAt = [c \in Callers |-> 0]
    /\ reply       = [c \in Callers |-> NoToken]
    /\ returned    = [c \in Callers |-> NoToken]
    /\ cachedToken = NoToken
    /\ tokenExpiry = 0
    /\ issued      = 0
    /\ expiry      = [t \in Tokens |-> 0]
    /\ lifetime    = [t \in Tokens |-> 0]

-----------------------------------------------------------------------------
Goto(c, from, to) ==
    /\ pc[c] = from
    /\ pc' = [pc EXCEPT ![c] = to]

\* The cached token has more than the margin left.
Fresh_Mutant == cachedToken # NoToken /\ tokenExpiry > now \* no margin
Fresh        == cachedToken # NoToken /\ tokenExpiry > now + Margin

\* Return t, or an error if t is NoToken, and unlock.
Return(c, from, t) ==
    /\ Goto(c, from, "done")
    /\ returned' = [returned EXCEPT ![c] = t]
    /\ reply' = [reply EXCEPT ![c] = NoToken]
    /\ mu' = {}
    /\ requestedAt' = [requestedAt EXCEPT ![c] = 0]

Call(c) ==
    /\ Goto(c, "idle", "locking")
    /\ UNCHANGED <<configured, now, mu, requestedAt, reply, returned, cacheVars,
                   idpVars>>

Lock_Mutant(c) ==                    \* no mutex
    /\ Goto(c, "locking", "deciding")
    /\ mu' = mu \union {c}
    /\ UNCHANGED <<configured, now, requestedAt, reply, returned, cacheVars,
                   idpVars>>

\* The wait for the mutex does not look at ctx.
Lock(c) ==
    /\ mu = {}
    /\ Goto(c, "locking", "deciding")
    /\ mu' = {c}
    /\ UNCHANGED <<configured, now, requestedAt, reply, returned, cacheVars,
                   idpVars>>

UseCache(c) ==
    /\ Fresh
    /\ Return(c, "deciding", cachedToken)
    /\ UNCHANGED <<configured, now, cacheVars, idpVars>>

Misconfigured(c) ==
    /\ ~Fresh
    /\ ~configured
    /\ Return(c, "deciding", NoToken)
    /\ UNCHANGED <<configured, now, cacheVars, idpVars>>

Request(c) ==
    /\ ~Fresh
    /\ configured
    /\ Goto(c, "deciding", "requesting")
    /\ requestedAt' = [requestedAt EXCEPT ![c] = now]
    /\ UNCHANGED <<configured, now, mu, reply, returned, cacheVars, idpVars>>

\* The transport fails, ctx ends, the status is not 2xx, or the body does not
\* decode, has no access_token or a malformed expires_in: the cache stays.
RequestFails_Mutant(c) ==            \* keeps the mutex on the error path
    /\ Goto(c, "requesting", "done")
    /\ reply' = [reply EXCEPT ![c] = NoToken]
    /\ UNCHANGED <<configured, now, mu, requestedAt, returned, cacheVars,
                   idpVars>>

RequestFails(c) ==
    /\ Return(c, "requesting", NoToken)
    /\ UNCHANGED <<configured, now, cacheVars, idpVars>>

\* What expires_in becomes as a Duration.  Of a float that is too large the
\* conversion makes the smallest or the largest one, as the processor has it.
AsDuration(l) ==
    IF l <= MaxDuration THEN {l} ELSE {-MaxDuration - 1, MaxDuration}

\* When the token of the response is taken to expire.
ExpiryOf_Mutant(c, t) == now + lifetime[t]     \* counts from the response
ExpiryOf(c, t)        == requestedAt[c] + lifetime[t]

RequestAnswered(c) ==
    /\ reply[c] # NoToken
    /\ Return(c, "requesting", reply[c])
    /\ cachedToken' = reply[c]
    /\ tokenExpiry' = ExpiryOf(c, reply[c])
    /\ UNCHANGED <<configured, now, idpVars>>

\* The caller makes its next request some time later.
Again(c) ==
    /\ Goto(c, "done", "idle")
    /\ returned' = [returned EXCEPT ![c] = NoToken]
    /\ UNCHANGED <<configured, now, mu, requestedAt, reply, cacheVars, idpVars>>

-----------------------------------------------------------------------------
\* External: the identity provider issues a token with lifetime l, and gives
\* l as expires_in.  It leaves expires_in out only for tokens that live at
\* least as long as defaultTokenLifetime.
Issue(c, l) ==
    /\ pc[c] = "requesting"
    /\ reply[c] = NoToken
    /\ issued < MaxTokens
    /\ issued' = issued + 1
    /\ reply' = [reply EXCEPT ![c] = issued + 1]
    /\ expiry' = [expiry EXCEPT ![issued + 1] = now + l]
    /\ \E read \in AsDuration(l) \union {DefaultLifetime} :
          /\ read <= l
          /\ lifetime' = [lifetime EXCEPT ![issued + 1] = read]
    /\ UNCHANGED <<configured, now, mu, pc, requestedAt, returned, cacheVars>>

Tick ==
    /\ now < MaxTime
    /\ now' = now + 1
    /\ UNCHANGED <<configured, callVars, cacheVars, idpVars>>

Ends(c) == RequestFails(c) \/ RequestAnswered(c)
Holding(c) == UseCache(c) \/ Misconfigured(c) \/ Request(c)

Next ==
    \/ \E c \in Callers : \/ Call(c) \/ Lock(c) \/ Holding(c) \/ Ends(c)
                          \/ Again(c)
                          \/ \E l \in Lifetimes : Issue(c, l)
    \/ Tick

Spec == Init /\ [][Next]_vars

\* A Go mutex starves nobody, and, as an assumption on the HTTPClient that is
\* configured, a token request ends.
Fairness ==
    \A c \in Callers : /\ SF_vars(Lock(c))
                       /\ WF_vars(Holding(c))
                       /\ WF_vars(Ends(c))

FairSpec == Spec /\ Fairness

-----------------------------------------------------------------------------
\* Every variable has its type.
TypeOK ==
    /\ now         \in Nat
    /\ configured  \in BOOLEAN
    /\ mu          \in {{}} \union {{c} : c \in Callers}
    /\ pc          \in [Callers -> PCs]
    /\ requestedAt \in [Callers -> Nat]
    /\ reply       \in [Callers -> Tokens \union {NoToken}]
    /\ returned    \in [Callers -> Tokens \union {NoToken}]
    /\ cachedToken \in Tokens \union {NoToken}
    /\ tokenExpiry \in Int
    /\ issued      \in 0..MaxTokens
    /\ expiry      \in [Tokens -> Int]
    /\ lifetime    \in [Tokens -> Int]

\* The provider never takes a token to live longer than it does, however long
\* the token endpoint took to answer, and whatever expires_in it gave: none, a
\* negative number, or one too large for a Duration.
ExpiryConservative ==
    cachedToken # NoToken => tokenExpiry <= expiry[cachedToken]

\* "Safe for concurrent use": callers that find the token stale together make
\* one token request at a time, each after looking at what the last one cached.
SingleFlight ==
    \A c, d \in Callers :
        pc[c] = "requesting" /\ pc[d] = "requesting" => c = d

\* A token handed out from the cache has more than the margin of its real
\* lifetime left.
FreshStep ==
    \A c \in Callers :
        pc[c] = "deciding" /\ pc'[c] = "done" /\ returned'[c] # NoToken
            => expiry[returned'[c]] > now + Margin

FreshFromCache == [][FreshStep]_vars

\* A token is only ever replaced by one issued after it: no late answer puts
\* an older token back.
NewerStep == cachedToken' >= cachedToken

OnlyNewerTokens == [][NewerStep]_vars

\* Every call returns, also when the request of another call failed.
CallReturns ==
    \A c \in Callers : pc[c] = "locking" ~> pc[c] = "done"
=============================================================================
