\* The arguments of the C calls.
CONSTANTS
  Duration = 1
  Supply = 1
SPECIFICATION Spec
INVARIANTS
  CArgumentsArrive
