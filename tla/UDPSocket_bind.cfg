\* bind() on an object that is bound: expected to be violated.
SPECIFICATION Spec
CONSTANTS
  Hostnames = {"localhost"}
  Hosts = {"127.0.0.1", "::1"}
  GetAddrInfo <- LocalResolver
  Sockets = {s1}
  Fds = {fd3, fd4}
  Ports = {1, 2}
  Lengths = {1}
  ReceiveLengths = {1}
  MaxQueue = 1
PROPERTY RebindBinds
CHECK_DEADLOCK FALSE
