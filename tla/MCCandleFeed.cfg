SPECIFICATION Spec
CONSTANTS
  None = None
  Lookback = 1
  OpeningPeriods = 2
  PrevDay <- MCPrevDay
  Shapes <- MCShapes
  Periods = 5
  Resends = 1
  Correctable = 2
  Widths <- MCWidths
  Mirror = 20000
INVARIANTS
  TypeOK
  NoLookahead
  MirrorImage
  PullbackLiesInTheImpulse
  FadesTradeWithTheClose

  SwingsAreFinal
  AggregatesAreFinal
