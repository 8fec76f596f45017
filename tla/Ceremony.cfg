SPECIFICATION Spec
CONSTANTS
  s1 = s1
  s2 = s2
  t1 = t1
  t2 = t2
  t3 = t3
  Calls = {s1, s2}
  FIELD_PRIME = 11
  MaxByte = 7
  MaxX = 3
  Secret = 5
  Trustees = {t1, t2, t3}
  Shares <- DealtShares
  NoShare = NoShare
  Submitted <- TrusteeShares
  MaxCalls = 4
  MaxCrashes = 1
INVARIANTS
  ReadyHasQuorum
  KeyHeldUntilVotingCloses
  KeyIsCoordinators
PROPERTIES
  QuorumIsNoticed
