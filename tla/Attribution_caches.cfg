SPECIFICATION Spec
CONSTANTS
  p1 = p1
  p2 = p2
  d1 = d1
  d2 = d2
  c1 = c1
  c2 = c2
  Pids <- PidSet
  Dirs <- DirSet
  Branches = {branch}
  Connections <- ConnectionSet
  DirTTL = 1
  ResolverTTL = 1
  ReplyTime = 1
  MaxChanges = 1
SYMMETRY Symmetric
\* In place of the invariants, NextInteraction is refuted.
INVARIANTS
  AttributionTypeOK
  RecentWhenResolved
  OwnDirectory
CHECK_DEADLOCK FALSE
