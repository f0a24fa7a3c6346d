SPECIFICATION Spec
CONSTANTS
  Specs <- SmallSpecs
  Configs <- SmallConfigs
  UnknownKey = 0
  MaxSelected = 2
  FloatCap = 7
  MaxCombinations = 6
  Unit = 2
  None = None
  Bad = Bad
  Unsupported = Unsupported
  Spellings <- SmallSpellings
  BaseCandles <- SmallCandles
  MaxCandles = 4
  MonthEnds = {5, 33, 64}
  Equity <- SmallPoints
  Symbols = 2
  LastBar = 4
  NaN = NaN
  Settings <- SmallSettings
  Shapes <- SmallShapes
  MaxFrame = 5
  Frames <- SmallFrames
INVARIANTS
  SignalsIgnoreTheFuture
  HeldOnlyWithTheTrend
  CachedEvaluationIsFresh
  GridIsExact
  RefusalIsExplained
  BarsPartitionTheTable
  BarsDoNotDependOnTheWindow
  PortfolioReturnIsMean
  PortfolioDrawdownBounded
CHECK_DEADLOCK FALSE
