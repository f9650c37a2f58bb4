\* A server without a budget, every fault, a client that completes its run and
\* one whose sequence counter overflows before its last tick.  Nothing is
\* assumed of the board.
CONSTANTS
  first = first
  second = second
  third = third
  NoClient = NoClient
  Clients <- TwoClients
  Steps <- Apart
  MaxSteps = 0
  History = 2
  MaxSequence = 3
  SocketBuffer = 2
  Backlog = 0
  Faults <- AllFaults
SPECIFICATION HostSpec
INVARIANTS ActionFromOwnObservation LockStep HistoryWindow IInv
PROPERTIES Contract ClientsEnd ServerEnds RunCompletes
