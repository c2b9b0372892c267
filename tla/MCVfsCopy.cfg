\* The file is left alone by other processes.
CONSTANTS
  MaxLen = 3
  Chunk = 2
  Appends = FALSE
SPECIFICATION Spec
PROPERTY CopyEnds
