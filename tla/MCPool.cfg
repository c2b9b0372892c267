\* Three pool calls, one of them made inside another's function, and one
\* gort.Run, two workers, two Closes at any moment, a buffer of one.
SPECIFICATION Spec
CONSTANTS
  c1 = c1  c2 = c2  c3 = c3  c4 = c4
  w1 = w1  w2 = w2  k1 = k1  k2 = k2
  NoCall = NoCall
  Calls = {c1, c2, c3, c4}
  OneOff = {c4}
  Cancellable = {c2, c3}
  PreCancelled = {c3}
  Parent <- Nested
  Workers = {w1, w2}
  Closers = {k1, k2}
  QueueSize = 1
INVARIANTS
  AtMostOnce
  NilMeansCompleted
  RefusedNeverRuns
  CloseDrains
  PoolInv
PROPERTIES
  ImplementsService
  EveryCallEnds
  AcceptedEventuallyDone
  CloseReturns
