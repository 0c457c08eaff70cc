CONSTANTS
  c1 = c1
  c2 = c2
  c3 = c3
  i1 = i1
  i2 = i2
  Conns = {c1}
  Inbounds = {i1}
  Inbound <- MCInbound
  Tags = {a}
  GlobalMax = 2
  InboundMax <- MCInboundMax
  MaxBytes = 1
  None = None
SPECIFICATION NoResetSpec
INVARIANT ClosedTrafficCounted
