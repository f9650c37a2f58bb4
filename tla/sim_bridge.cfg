SPECIFICATION FairSpec
CONSTANTS
    Reads <- MCReads
    QueueLen = 1
    MaxSent <- TwoBodyCommands
INVARIANTS
    BridgeInv
PROPERTIES
    AcceptedDrives
\* The simulation ends when it is closed.
CHECK_DEADLOCK FALSE
