\* Three targets (so a chain and a cycle of sources fit), limits at which the
\* temporaries fit and do not fit, a kernel with close_range.
CONSTANTS
  MaxFiles = 3
  Limit = 11
  Sources <- MCSources
  Opened <- MCOpened
  CloseRange = TRUE
SPECIFICATION Spec
INVARIANTS
  ChildTable
  EveryOtherClosed
  ErrorPipeKept
  NoSpuriousFailure
  FdsInv
