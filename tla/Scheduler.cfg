\* Three calls, one of which never returns, two workers, room for two; the
\* scheduler may stop and start again.
SPECIFICATION FairSpec
CONSTANTS
  label1 = label1
  label2 = label2
  batch = batch
  Free = Free
  Down = Down
  Calls = {label1, label2, batch}
  Workers = {w1, w2}
  QueueMax = 2
  KindOf <- Kinds
  LevelOf <- Levels
  Stuck = {label1}
  MaxStops = 1
INVARIANTS StatsAccount
PROPERTIES NoInversion ContractSpec CallerAnswered QueueDrains
\* Every call was answered and every job is over, or stuck for good.
CHECK_DEADLOCK FALSE
