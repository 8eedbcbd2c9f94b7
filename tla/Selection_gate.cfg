SPECIFICATION SelectionSpec
CONSTANTS
  Lengths = {2, 6, 9}
  Horizons = {2, 3}
  Candidates <- MCCandidates
  Walks <- MCWalks
  MinTrain = 1
  MinPoints = 3
  MaxFolds = 4
  HoldoutMin = 1
  HoldoutTotal = 3
  HoldoutPct = 30
  EdgePct = 10
  MinPaired = 3
  Undecided = Undecided
INVARIANTS GateSeesSelectionOnly
CHECK_DEADLOCK FALSE
