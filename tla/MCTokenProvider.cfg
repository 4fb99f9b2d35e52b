\* The cache and the mutex of the token provider, used by two callers.
CONSTANTS
    c1 = c1
    c2 = c2
    Callers <- MCCallers
    Lifetimes <- MCLifetimes
    Margin = 1
    DefaultLifetime = 3
    MaxDuration = 4
    MaxTime = 4
    MaxTokens = 2
SPECIFICATION FairSpec
INVARIANTS
    TypeOK
    ExpiryConservative
PROPERTIES
    FreshFromCache
    OnlyNewerTokens
    CallReturns
\* The clock and the number of tokens are bounded.
CHECK_DEADLOCK FALSE
