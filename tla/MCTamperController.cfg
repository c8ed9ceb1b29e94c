SPECIFICATION FairSpec
CONSTANTS
  u1 = u1
  u2 = u2
  s1 = s1
  s2 = s2
  NoFilter = NoFilter
  Unit <- MCUnit
  Session <- MCSession
  Direction <- MCDirection
  SessionOf <- MCSessionOf
  DirectionOf <- MCDirectionOf
  SessionSets <- MCSessionSets
  RuleSets <- MCRuleSets

CHECK_DEADLOCK FALSE
INVARIANT IInv
INVARIANT ReturnsAcceptedVerdict
INVARIANT WaitingIsReachable
INVARIANT NothingHeldWhileDisabled
PROPERTY ImplementsGate
PROPERTY DisableReleases
