SPECIFICATION BenchSpec
CONSTANTS
  kAuthUserLen = 32
  kAuthPassLen = 16
  Publishers = {p1, p2}
  Warmup = 1
  Duration = 2
  PayloadSize = 256
  Target = 1
  MaxFrames = 2
INVARIANTS BenchTypeOK ReportConsistent
PROPERTIES EndsOrWaitsInRecv EndsWithHub
CHECK_DEADLOCK FALSE
