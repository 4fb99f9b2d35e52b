\* Every method against every answer.
CONSTANTS
    MaxRows = 2
    MaxHops = 2
    Refusals <- MCRefusals
SPECIFICATION Spec
INVARIANTS
    TypeOK
    OutcomeHonest
\* A call ends.
CHECK_DEADLOCK FALSE
