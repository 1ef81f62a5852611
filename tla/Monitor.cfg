SPECIFICATION FairSpec
CONSTANTS
  DefaultNonArchivalWindow = 1
  StockMaxExtraOpcodeBudget = 1
  MaxSimulateGroups = 3
  MaxSimulateRounds = 3
  MaxExtraOpcodeBudget = 4
  MaxResourceLimitMultiplier = 2
  Configs <- MCConfigs
  Overrides <- MCOverrides
  Nodes <- MCNodes
  Limits <- MCLimits
  FirstRound = 2
  MaxRound = 3
  MaxRestarts = 1
PROPERTIES MeasuredTruly ClaimsAreCorrected LimitsAreLearnt
