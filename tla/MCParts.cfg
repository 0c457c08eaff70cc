CONSTANTS
  Requests = {r1, r2, r3}
  FailureThreshold = 3
  SuccessThreshold = 2
  MaxRetries = 1
  None = None
\* Two streams; the frame queue and the channels hold one frame.
  Streams = {"s1", "s2"}
  OutCap = 1
  InCap = 1
  WireCap = 1
\* One connection allowed, with two streams, and two openers.
  Openers = {"o1", "o2"}
  MaxConnections = 1
  MaxStreams = 2
\* Two proxies, fast, within tolerance, slow or down; two connections.
  GroupSize = 2
  MaxLatency = 3
  Tolerance = 1
  Clients = {"c1", "c2"}
  MaxChanges = 2
\* A matching thread and a refresh; two versions, a crash or a reload.
  Matchers = {"m1"}
  Refreshers = {"r1"}
  MaxVersion = 2
  MaxRestarts = 1
\* Two threads of the host; two starts of the kernel and of the auto test.
  Threads = {"t1", "t2"}
  Gens = {"g1", "g2"}
  Autos = {"a1", "a2"}
\* Two rules on names of two labels and addresses of two bits.
  Labels = {"a", "b"}
  MaxLabels = 2
  Bits = 2
  MaxRules = 2
SPECIFICATION PartsSpec
INVARIANTS
  TypesOK BreakerSound AnswersFindStream OvershootBounded StreamsCounted
   OneKernel OneAutoTest RoutesFirstMatch
PROPERTIES
  BreakerCycle Recovers OpensFinish Settles EventuallyFresh
CHECK_DEADLOCK FALSE
