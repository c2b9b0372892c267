\* Three ticks, so that a call is interrupted early, late and repeatedly.
CONSTANTS
  Duration = 3
  Supply = 2
SPECIFICATION Spec
INVARIANTS
  RightCall
  KernelsWord
  WaitsOnce
  EffectsOnce
PROPERTIES
  NoForeignClose
  CallReturns
