SPECIFICATION FairSpec
CONSTANTS
    c1 = c1
    c2 = c2
    move = move
    stop = stop
    Clients <- MCClients
    Apis <- MCApis
    PriorityApis <- MCPriorityApis
    EnablePriority = TRUE
    QueueMax = 1
    PrioMax = 1
    MaxCalls = 2
    FaultSets <- NoneOrAll
INVARIANTS
    OwnAnswer
    TruthfulResult
    ExecutionOrder
    Inv
PROPERTIES
    CallReturns
    Answered
\* The bound on calls ends every run.
CHECK_DEADLOCK FALSE
