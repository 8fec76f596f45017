SPECIFICATION BoardSpec
SYMMETRY RunSymmetry
CONSTANTS
  Runs = {a, b}
  MaxJobs = 2
  MaxFaults = 0
  MaxReads = 0
  MaxRefused = 0
INVARIANTS
  PublishedJobIsProved
CHECK_DEADLOCK FALSE
