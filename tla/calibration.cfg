\* Five programs in a row; collections and datasets of one or three samples.
SPECIFICATION Spec
CONSTANTS
    Counts = {1, 3}
    Synthetic = {2}
    EpisodeLength = 2
    HistoryLen = 2
    Warmup = 1
    Iterations = 2
    MaxRuns = 5
INVARIANT Inv
INVARIANT DatasetWhole
\* Nobody has to start another program.
CHECK_DEADLOCK FALSE
