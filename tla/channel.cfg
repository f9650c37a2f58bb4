\* A queue of two samples and several subscriptions.
SPECIFICATION FairSpec
CONSTANTS
    QueueLen = 2
    MaxSent = 5
INVARIANTS QueueCount Pipeline LastCall
PROPERTIES ImplementsTopic AcceptedIsHandled CloseReturns
\* Close may wait for ever for the reader thread.
CHECK_DEADLOCK FALSE
