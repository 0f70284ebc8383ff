\* A path that is in use: expected to be violated.
SPECIFICATION Spec
CONSTANTS
  Servers = {h1, h2}
  Clients = {c1}
  Fds = {fd3, fd4, fd5}
  Paths = {p1}
  Backlog = 0
PROPERTY BusyPathThrows
CHECK_DEADLOCK FALSE
