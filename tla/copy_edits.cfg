SPECIFICATION Spec
CONSTANTS
  e1 = e1
  e2 = e2
  e3 = e3
  p = p
  q = q
  f = f
  g = g
  Elements = {e1, e2, e3}
  Page <- MCPage
  File <- MCFile
  Commits = {c1, c2}
  Absent = Absent
  Wrong = Wrong
  Broken = Broken
  ChunkSize = 1
  MaxRepairs = 1
  MaxSaves = 2
  MaxFaults = 1
INVARIANT TypeOK
PROPERTIES
  ClearedIsWritten
  AppliedStays
  FirstPassAnswersForAll
  EveryCommitEnds
CHECK_DEADLOCK FALSE
