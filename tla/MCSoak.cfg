\* Six cycles, two of each scenario: what one leaves behind meets the next of
\* its own kind and of the others.  With two Ps one hung call is enough to
\* leave none to the next.
CONSTANTS
  Iterations = 2
  NumCPU = 1
  MinProcs = 2
  NumWorkers = 4
  MaxFaults = 1
  MaxStops = 1
SPECIFICATION Spec
INVARIANTS
  VerdictIsRight
  
PROPERTIES
  ProgramEnds
