SPECIFICATION FairSpec
CONSTANTS
  p0 = p0  p1 = p1  p2 = p2  p3 = p3  p4 = p4
  NumCores = 2
  VPages = {1}
  Pages = {p0, p1, p2}
  Page0 = p0
  NoPage = NoPage
  LinesInPage = 1
  Lines <- MCLines
  NoLine = NoLine
  Assoc = 1
  ReplPolicies = {"LRU"}
  SrripMax = 2
  SrripInit = 1
  RobSize = 3
  CoreWidth = 2
  L3Latency = 1
  InstLimit = 3
  TraceLen = 4
  ChannelOf <- MCChannelOf
  ReadQueueSize = 1
CHECK_DEADLOCK FALSE
INVARIANTS TypeOK RobInBounds WaitersTracked FramesExclusive

 
