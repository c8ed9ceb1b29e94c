SPECIFICATION Spec
CONSTANTS
  d1 = d1
  d2 = d2
  d3 = d3
  r1 = r1
  a1 = a1
  a2 = a2
  Datagram <- TwoDatagrams
  Reply <- OneReply
  Client <- OneClient
  ClientOf <- SameClient
  MaxSessions = 1
  Embedded = TRUE
  MaxStarts = 1
  MaxCalls = 1
SYMMETRY RaceSymmetry
CHECK_DEADLOCK FALSE
INVARIANT FlowsAgree
INVARIANT VerdictGoverns
PROPERTY CaptureIsLive
