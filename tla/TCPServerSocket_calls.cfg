\* Servers and a client that share the descriptor table.
SPECIFICATION Spec
CONSTANTS
  Hostnames = {"localhost", "unknown"}
  Hosts = {"127.0.0.1", "::1"}
  GetAddrInfo <- LocalResolver
  Servers = {h1, h2}
  Clients = {c1}
  Fds = {fd3, fd4}
  Ports = {1}
  EphemeralPort = 2
  Timeouts = {0, 1000001}
  ClockTick = 1000000
  Backlog = 1
  MaxCopies = 1
SYMMETRY Symmetry
INVARIANTS TypeOK ListensAsReported ConnectedAsReported NoOtherLeak TimedAcceptDoesNotBlock
PROPERTIES ImplementsDescriptorTable TimeoutIsWaited
CHECK_DEADLOCK FALSE
