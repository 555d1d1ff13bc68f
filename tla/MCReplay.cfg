SPECIFICATION CampaignSpec
CONSTANTS
  LaneCount = 2
  Plans <- SmallPlans
  Concurrency = 2
  Reserve = 2
  MaxPerSlot = 5
  MaxTotal = 3
  HardCeiling = 10
INVARIANT FinishedRunReplays
CHECK_DEADLOCK FALSE
