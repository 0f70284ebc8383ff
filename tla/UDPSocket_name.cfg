\* A name whose first address is not the one listened on: expected to be violated.
SPECIFICATION Spec
CONSTANTS
  Hostnames = {"localhost"}
  Hosts = {"127.0.0.1", "::1"}
  GetAddrInfo <- LocalResolver
  Sockets = {s1, s2}
  Fds = {fd3, fd4}
  Ports = {1}
  Lengths = {1}
  ReceiveLengths = {1}
  MaxQueue = 1
PROPERTY DefaultReachesIPV4
CHECK_DEADLOCK FALSE
