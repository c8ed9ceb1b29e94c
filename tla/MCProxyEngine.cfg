SPECIFICATION Spec
CONSTANTS
  c1 = c1
  c2 = c2
  c3 = c3
  f1 = f1
  f2 = f2
  Conn <- ThreeConns
  Forwarder <- Forwarders
  ForwarderOf <- TwoAndOne
  Type <- TcpAndSocks
  MaxSessions <- LimitOne
  HandlersMayRaise = TRUE
  WaitClosedBlocks = TRUE
  MaxStarts = 1
  MaxDeletes = 1
SYMMETRY TcpSymmetry
CHECK_DEADLOCK FALSE
INVARIANT TcpSessionLimit
INVARIANT SessionsAgree
INVARIANT ClosedEventIsLast
