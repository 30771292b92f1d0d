CONSTANTS
  Samples <- MCSamples
  AnyTree <- MCAnyTree
  Beyond <- MCBeyond
  Nodes <- MCNodes
  Limit <- MCLimit
  HIST_BUCKETS = 4
  HIST_WIDTH = 4
  Page = 160
SPECIFICATION Report
INVARIANTS
  TypeOK
  SameAverage
  FiguresInOrder
  HistogramIsWhole
  DepthIsExact
PROPERTIES
  ReportEnds
