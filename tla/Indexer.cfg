SPECIFICATION Spec
CONSTANTS
  e1 = e1
  NoTx = NoTx
  Elections <- MCElections
  Txs <- RewriteTxs
  CONFIRMATIONS = 1
  BATCH_SIZE = 2
  MaxBlocks = 6
  MaxRewrites = 2
  MaxCrashes = 2
INVARIANTS
  CursorIsTruthful
  NeverFalselyReset
  StartFindsDivergence
  ResetLeavesTrace
PROPERTIES
  CatchesUp
