\* Two servers and a client, copies, shared and separate paths, crashes.
SPECIFICATION Spec
CONSTANTS
  Servers = {h1, h2}
  Clients = {c1}
  Fds = {fd3, fd4}
  Paths = {p1, p2}
  Backlog = 0
SYMMETRY Symmetry
INVARIANTS TypeOK ReachableAtPath NoStaleFile NoServerLeak
PROPERTIES OverrideRecovers ImplementsDescriptorTable
CHECK_DEADLOCK FALSE
