\* Two clients of any of the services, and every method of it.
SPECIFICATION Spec
CONSTANTS
    c1 = c1
    c2 = c2
    Clients <- MCClients
    Services <- AllServices
    MaxCalls = 2
SYMMETRY ClientSymmetry
INVARIANTS
    AckedWins
    Inv
\* The bound on calls ends every run.
CHECK_DEADLOCK FALSE
