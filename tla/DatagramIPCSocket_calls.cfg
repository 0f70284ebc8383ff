\* Two objects and their copies that bind two paths, with and without override.
SPECIFICATION Spec
CONSTANTS
  Sockets = {s1, s2}
  Fds = {fd3, fd4, fd5}
  Paths = {p1, p2}
  MaxQueue = 1
SYMMETRY Symmetry
INVARIANTS TypeOK BoundIsReachable NoStaleFile NoLeak ReportsPathSentTo ReadyMeansReceives
PROPERTY ImplementsDescriptorTable
CHECK_DEADLOCK FALSE
