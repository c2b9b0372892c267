\* Sources of up to four blocks read in chunks of two, partial answers at
\* every call, and another process that appends.
CONSTANTS
  MaxLen = 4
  Chunk = 2
  Appends = TRUE
SPECIFICATION Spec
INVARIANTS
  FdsClosed
  TransferIsPrefix
  NilMeansCopied
PROPERTY
  ChildSettled
