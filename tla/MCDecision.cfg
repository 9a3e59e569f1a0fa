SPECIFICATION Spec
CONSTANTS
  None = None
  Prices = {0, 100}
  Invalidations <- MCInvalidations
  Zones <- MCZones
  Impulses <- MCImpulses
  HalfRanges <- MCHalfRanges
  Chains <- MCChains
  Observations <- MCObservations
  Underlying = NIFTY
  NoTrade = NoTrade
  DayLength = 8
  Window <- MCWindow
  Times = {0, 3, 6}
INVARIANTS
  TypeOK
  TierCeiling
  NoSecondChanceLost
  ReadyNeedsMargin
  DoubleCountedConflictVetoes
  LevelTradesAreAlive
  RaisesOnlyForBadQuotes
  NoDominatedContract
  OutcomeIsTheLoops
