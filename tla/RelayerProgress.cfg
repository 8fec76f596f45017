SPECIFICATION RelayerSpec
CONSTANTS
  aea = aea
  n1 = n1
  k1 = k1
  k2 = k2
  c1 = c1
  c2 = c2
  w1 = w1
  w2 = w2
  Workers = {w1}
  Submissible <- TwoKeyPosts
  MaxRows = 2
  MaxFaults = 1
  Accounts = {aea}
  Owner = aea
  NoAddress = NoAddress
  TallyVerifiers = {}
  DecryptionVerifiers = {}
  VerifierCandidates = {}
  Nullifiers = {n1}
  VotingKeys = {k1, k2}
  MalformedKey = MalformedKey
  Unbound = Unbound
  Ciphertexts = {c1}
  ActaKinds = {}
  Snapshots = {}
  Proofs = {}
  ValidProofs = {}
  Permits <- TwoKeyPermits
  BallotSigs = {}
  MaxElections = 1
  MaxRepeats = 0
PROPERTIES
  QueueDrains
