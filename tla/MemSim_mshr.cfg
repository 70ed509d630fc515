SPECIFICATION Spec
CONSTANTS
  p0 = p0  p1 = p1  p2 = p2  p3 = p3  p4 = p4
  NumCores = 1
  VPages = {1, 2}
  Pages = {p0, p1, p2, p3}
  Page0 = p0
  NoPage = NoPage
  LinesInPage = 1
  Lines <- MCLines
  NoLine = NoLine
  Assoc = 1
  ReplPolicies = {"LRU"}
  SrripMax = 2
  SrripInit = 1
  RobSize = 4
  CoreWidth = 2
  L3Latency = 1
  InstLimit = 4
  TraceLen = 5
  ChannelOf <- MCChannelOf
  ReadQueueSize = 2
CHECK_DEADLOCK FALSE
INVARIANT MissesOnce

