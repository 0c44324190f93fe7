SPECIFICATION Spec
CONSTANTS
  c1 = c1
  c2 = c2
  c3 = c3
  Content <- AllContent
  Seeds <- TwoSeeds
  SeedsDetDone <- FlaggedSeed
  MaxPaths = 3
  MaxKills = 3
  KillPoints <- Steps
  FreshOverLeftover = FALSE
INVARIANTS
  NothingLost
