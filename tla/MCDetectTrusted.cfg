\* A second goroutine asks while the self-test of the first is running.
CONSTANTS
  Goroutines = {g1, g2}
  Hosts = {"windows", "linux", "other"}
  Outcomes = {TRUE, FALSE}
  Probes = 2
  MaxCalls = 2
SPECIFICATION Spec
INVARIANT TestedBeforeTrusted
