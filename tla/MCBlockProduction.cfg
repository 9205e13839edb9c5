CONSTANTS
  n1 = n1
  n2 = n2
  m1 = m1
  m2 = m2
  m3 = m3
  None = None
  Nodes = {n1, n2}
  Miners = {m1, m2, m3}
  Controls <- ControlsDef
  Stale = {n1}
  Required = 3300
  Window = 4
  Genesis = 4
  Initial <- EverySecond
  Proposed <- Slower
  InitialMiners <- First
  Elections <- TwoOrThree
  Rekeying = {m3}
  Fees = {3}
  Reward <- Rewards
  Era = 3
  Wealth = 30
  MaxLate = 1
  MaxTime = 14
SPECIFICATION Spec
INVARIANTS TypeOK SlotAfterHead SupplyMatches ScheduleFollowsVote NoSlotWasted
