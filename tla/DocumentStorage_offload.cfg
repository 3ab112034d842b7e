SPECIFICATION FairSpec
CONSTANTS
  d1 = d1
  d2 = d2
  o1 = o1
  o2 = o2
  s1 = s1
  s2 = s2
  q1 = q1
  q2 = q2
  None = None
  Doc = {d1}
  Attached = {d1}
  Original = {d1}
  Offloader = {o1, o2}
  Drainer = {s1}
  Single = {q1}
  Bulk = {q1}
  PageSize = 2
  MaxFault = 2
INVARIANTS Readable 
PROPERTIES EventuallyOffloaded QueueDrains
CHECK_DEADLOCK FALSE
