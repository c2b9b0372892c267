\* Two goroutines whose calls race, three kinds of host, probes that may
\* misbehave.
CONSTANTS
  Goroutines = {g1, g2}
  Hosts = {"windows", "linux", "other"}
  Outcomes = {TRUE, FALSE}
  Probes = 2
  MaxCalls = 2
SPECIFICATION Spec
INVARIANTS
  BoundedNesting
  FalseHasReason
  MemoIsEarned
PROPERTIES
  EveryCallReturns
