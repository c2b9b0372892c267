\* Two Spawns at once and a spare thread to migrate to; close_range
\* may be missing.
CONSTANTS
  s1 = s1
  s2 = s2
  Spawns = {s1, s2}
  Threads = {t1, t2, t3}
  Wants <- MCWants
  Sweeps = {TRUE, FALSE}
SPECIFICATION Spec
INVARIANTS
  TypeOK
  ReturnsClean
  MaskRestored
  ChildSignals
  AnswerMatchesChild
PROPERTY
  EverySpawnReturns
