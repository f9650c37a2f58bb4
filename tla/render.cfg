\* Every fault of the GUI, the connection and the control loop;
\* the GUI is scheduled by nobody.
CONSTANTS
  Ticks = 4
  Faults = {"raise", "hang", "fail"}
SPECIFICATION HangSpec
INVARIANTS Inv ShownWhole
PROPERTIES ImplementsMailbox ControlEnds
