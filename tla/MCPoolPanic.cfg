\* A call passes the closed check, then Close closes the channel.
SPECIFICATION SafeSpec
CONSTANTS
  c1 = c1  c2 = c2  c3 = c3  c4 = c4
  w1 = w1  w2 = w2  k1 = k1  k2 = k2
  NoCall = NoCall
  Calls = {c1, c3}
  OneOff = {}
  Cancellable = {c3}
  PreCancelled = {c3}
  Parent <- Flat
  Workers = {w1, w2}
  Closers = {k1, k2}
  QueueSize = 1
INVARIANT
  SubmitNeverPanics
