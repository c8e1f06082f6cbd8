SPECIFICATION FairSpec
CONSTANTS
  Starters = {a1, a2}
  Stoppers = {s1, s2}
  Requests = {r1}
  Workers = {k1}
  Wrappers = {w1}
  NoWrapper = NoWrapper
INVARIANTS StoresOutliveUsers StopMeansOver BodiesInterrupted
PROPERTIES StoresReleased
CHECK_DEADLOCK FALSE
