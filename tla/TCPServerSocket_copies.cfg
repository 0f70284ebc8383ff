\* Copies of a server accept with a timeout: expected to be violated.
SPECIFICATION Spec
CONSTANTS
  Hostnames = {"localhost"}
  Hosts = {"127.0.0.1", "::1"}
  GetAddrInfo <- LocalResolver
  Servers = {h1, h2}
  Clients = {c1}
  Fds = {fd3, fd4, fd5}
  Ports = {1}
  EphemeralPort = 2
  Timeouts = {1}
  ClockTick = 1
  Backlog = 1
  MaxCopies = 1
INVARIANT AcceptTimesOut
CHECK_DEADLOCK FALSE
