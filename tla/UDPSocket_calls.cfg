\* Two objects and every call, rebinding and copies included.
SPECIFICATION Spec
CONSTANTS
  Hostnames = {"localhost", "unknown"}
  Hosts = {"127.0.0.1", "::1"}
  GetAddrInfo <- LocalResolver
  Sockets = {s1, s2}
  Fds = {fd3, fd4, fd5}
  Ports = {1}
  Lengths = {1}
  ReceiveLengths = {1}
  MaxQueue = 1
SYMMETRY Symmetry
INVARIANTS TypeOK BoundAsReported NoLeak ReadyMeansReceives
PROPERTIES ReturnsBoundAddress FreshBindBinds ReceivesOwnAddress ImplementsDescriptorTable
CHECK_DEADLOCK FALSE
