\* A server with a budget that its clients want to exceed, every fault, and
\* socket buffers that hold half a packet.
CONSTANTS
  first = first
  second = second
  third = third
  NoClient = NoClient
  Clients <- ThreeClients
  Steps <- Equal
  MaxSteps = 2
  History = 2
  MaxSequence = 9
  SocketBuffer = 1
  Backlog = 1
  Faults <- AllFaults
INIT Init
NEXT Next
SYMMETRY ClientSymmetry
INVARIANTS Framing CleanExit
