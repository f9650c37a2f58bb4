SPECIFICATION FairSpec
CONSTANTS
    Reads <- MCReads
    QueueLen = 1
    MaxSent <- TwoBodyCommands
PROPERTIES
    CommandApplied
\* The simulation ends when it is closed.
CHECK_DEADLOCK FALSE
