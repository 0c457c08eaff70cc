SPECIFICATION PortSpec
CONSTANTS
  s1 = s1
  a = a
  b = a
  Sessions = {s1}
  Sources = {x}
  Dests = {d1}
  Tags = {a}
  Routers <- MCRouters
  Entries = {1, 2}
  Ports = {1, 2}
  TTL = 1
  None = None
PROPERTIES StablePort
CHECK_DEADLOCK FALSE
