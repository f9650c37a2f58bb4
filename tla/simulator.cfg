\* Two cameras with two parts to an image, three steps, three interrupts.
SPECIFICATION Spec
CONSTANTS
    Configs <- MCConfigs
    Cameras = 2
    Parts = 2
    MaxSteps = 3
    MaxInterrupts = 3
INVARIANT Inv
INVARIANT CleanEnd
PROPERTY CloseEnds
\* The program ends.
CHECK_DEADLOCK FALSE
