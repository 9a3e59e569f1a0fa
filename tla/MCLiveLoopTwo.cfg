CONSTANTS
  NIFTY = NIFTY
  SENSEX = SENSEX
  NoPrice = NoPrice
  NoTrade = NoTrade
  Underlyings <- MCTwo
  Window <- MCShortWindow
  Setups <- MCTwoSetups
  FormingSetups <- MCNone
  Prices = {1, 2}
  KeyGrain = 1
  MaxTier = 1
  Interval = 1
  MaxGap = 2
  MaxCrashes = 1
  Horizon = 6
  DayLength = 7
  Cooldown = 1
SPECIFICATION FairSpec
PROPERTIES
  SlotSpec
  EveryTradeConcludes
