\* close() of a stale copy: expected to be violated.
SPECIFICATION Spec
CONSTANTS
  Hostnames = {"localhost"}
  Hosts = {"127.0.0.1", "::1"}
  GetAddrInfo <- LocalResolver
  Servers = {h1, h2}
  Clients = {c1}
  Fds = {fd3, fd4}
  Ports = {1}
  EphemeralPort = 2
  Timeouts = {0}
  ClockTick = 1
  Backlog = 1
  MaxCopies = 1
PROPERTY ClosesOnlyItsOwn
CHECK_DEADLOCK FALSE
