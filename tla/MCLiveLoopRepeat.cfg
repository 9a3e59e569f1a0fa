CONSTANTS
  NIFTY = NIFTY
  SENSEX = SENSEX
  NoPrice = NoPrice
  NoTrade = NoTrade
  Underlyings <- MCOne
  Window <- MCWindow
  Setups <- MCOneSetups
  FormingSetups <- MCForming
  Prices = {1, 2, 3}
  KeyGrain = 1
  MaxTier = 2
  Interval = 1
  MaxGap = 2
  MaxCrashes = 0
  Horizon = 8
  DayLength = 8
  Cooldown = 2
SPECIFICATION Spec
PROPERTIES
  RepeatWasSeenBefore
