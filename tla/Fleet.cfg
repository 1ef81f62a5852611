SPECIFICATION Spec
CONSTANTS
  n1 = n1
  n2 = n2
  ext = ext
  Self = n1
  Others = {n2}
  Ext = ext
  Facts = {0, 1}
  None = None
  MaxChanges = 2
  MaxFaults = 2
  MaxRestarts = 1
  Tolerance = 1
  DefaultNonArchivalWindow = 3
  StockMaxExtraOpcodeBudget = 1
  MaxSimulateGroups = 3
  MaxSimulateRounds = 3
  MaxExtraOpcodeBudget = 4
  MaxResourceLimitMultiplier = 2
  Rank <- MCRank
  Situations <- MCSituations
  Requests <- MCRequests
INVARIANTS RightRound RefusedOnlyWhenNobodyHas LimitsAreServed OutageNeverRelaxes
PROPERTIES RegistryIsLearnt RecordIsSetRight
