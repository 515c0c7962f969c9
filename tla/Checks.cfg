CONSTANTS
  MaxTokens = 6
  MaxCoins = 3
  MinCoins = 1
  Exact = 4
  MaxTransfer = 5
SPECIFICATION Spec
INVARIANTS RefusedWasShort SendsWhatItHas EndsWithAMark
