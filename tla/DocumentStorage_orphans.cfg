SPECIFICATION FairSpec
CONSTANTS
  d1 = d1
  d2 = d2
  o1 = o1
  o2 = o2
  s1 = s1
  s2 = s2
  q1 = q1
  q2 = q2
  None = None
  Doc = {d1}
  Attached = {d1}
  Original = {}
  Offloader = {o1}
  Drainer = {s1}
  Single = {q1}
  Bulk = {}
  PageSize = 2
  MaxFault = 0
PROPERTY NeverOrphaned
CHECK_DEADLOCK FALSE
