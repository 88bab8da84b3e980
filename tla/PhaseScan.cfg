CONSTANTS
  Txs <- MCTxs
  Block <- MCBlock
  Amount <- MCAmount
  Provider <- MCProvider
  Staker <- MCStaker
  Invalid = {5}
  EndHeight = 6
  Starts <- MCStarts
  PhasesEnd = 5
  BatchSize = 2
  Cap = 3
  Target = 5
  Near = 4
  Quiet = 0
  Reindexed = {1, 2}
  MaxFaults = 2
  MaxRestarts = 1
SPECIFICATION FairSpec
INVARIANTS ResumeCoverage ExactWhenUndisturbed NeverCountedTwice PhaseTotalsHold
PROPERTY Terminates
CHECK_DEADLOCK FALSE
