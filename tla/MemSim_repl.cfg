SPECIFICATION Spec
CONSTANTS
  p0 = p0  p1 = p1  p2 = p2  p3 = p3  p4 = p4
  NumCores = 1
  VPages = {1, 2}
  Pages = {p0, p1, p2}
  Page0 = p0
  NoPage = NoPage
  LinesInPage = 2
  Lines <- MCLines
  NoLine = NoLine
  Assoc = 2
  ReplPolicies = {"LRU", "RND", "SRRIP"}
  SrripMax = 2
  SrripInit = 1
  RobSize = 3
  CoreWidth = 2
  L3Latency = 1
  InstLimit = 3
  TraceLen = 4
  ChannelOf <- MCChannelOf
  ReadQueueSize = 1
CHECK_DEADLOCK FALSE
SYMMETRY PageSymmetry
INVARIANTS WaitersTracked NoZombie

