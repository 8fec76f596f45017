SPECIFICATION BoardSpec
SYMMETRY RunSymmetry
CONSTANTS
  Runs = {a, b}
  MaxJobs = 2
  MaxFaults = 1
  MaxReads = 1
  MaxRefused = 1
INVARIANTS
  RowsTruthful
  PayloadBacked
  PublicationLeavesEvidence
  BundlesBacked
CHECK_DEADLOCK FALSE
