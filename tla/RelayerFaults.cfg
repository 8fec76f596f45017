SPECIFICATION RelayerSafety
SYMMETRY WorkerSymmetry
CONSTANTS
  aea = aea
  n1 = n1
  k1 = k1
  k2 = k2
  c1 = c1
  c2 = c2
  w1 = w1
  w2 = w2
  Workers = {w1, w2}
  Submissible <- OneVoterPosts
  MaxRows = 2
  MaxFaults = 1
  Accounts = {aea}
  Owner = aea
  NoAddress = NoAddress
  TallyVerifiers = {}
  DecryptionVerifiers = {}
  VerifierCandidates = {}
  Nullifiers = {n1}
  VotingKeys = {k1}
  MalformedKey = MalformedKey
  Unbound = Unbound
  Ciphertexts = {c1}
  ActaKinds = {}
  Snapshots = {}
  Proofs = {}
  ValidProofs = {}
  Permits <- OneVoterPermits
  BallotSigs <- OneVoterBallotSigs
  MaxElections = 1
  MaxRepeats = 0
INVARIANTS
  AtMostOneBroadcast
  SuccessIsOnChain
  IncidentsTruthful
  FailuresReported
  NoOrphanFromRpcErrors
PROPERTIES
  VerdictsStand
