SPECIFICATION FairSpec
CONSTANTS
    c1 = c1
    c2 = c2
    Clients <- MCClients
    Term = 3
    RenewWait = 1
    CallTimeout = 2
    MaxDelay = 1
    MaxLate = 1
    MaxId = 6
INVARIANTS
    Inv
PROPERTIES
    Exclusive
    LeaseIsHeld
\* All clients may crash.
CHECK_DEADLOCK FALSE
