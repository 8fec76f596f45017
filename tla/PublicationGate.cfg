SPECIFICATION Spec
CONSTANTS
  aea = aea
  rea = rea
  tv = tv
  dv = dv
  n1 = n1
  n2 = n2
  k1 = k1
  k2 = k2
  c1 = c1
  c2 = c2
  Accounts = {aea, rea}
  Owner = aea
  NoAddress = NoAddress
  TallyVerifiers = {tv}
  DecryptionVerifiers = {dv}
  VerifierCandidates = {tv, dv, rea}
  Nullifiers = {n1, n2}
  VotingKeys = {k1, k2}
  MalformedKey = MalformedKey
  Unbound = Unbound
  Ciphertexts = {c1, c2}
  ActaKinds = {ACTA_CIERRE}
  Snapshots = {snapshot}
  Proofs = {valid, invalid}
  ValidProofs = {valid}
  Permits <- OneVoterPermits
  BallotSigs <- OneVoterBallotSigs
  MaxElections = 1
  MaxRepeats = 1
INVARIANTS
  PublishedOnlyProved
PROPERTIES
  Settled
