SPECIFICATION LiveSpec
CONSTANTS
  Parts = {"sleep", "pipe", "console", "clock", "disk"}
  CPUs = {}
  Locks = {}
  l1 = l1
  l2 = l2
  Rank <- NoLocks
  Contenders = {p1, p2, p3}
  Pipers = {p1, p2, p3}
  Readers = {p1, p2}
  Writers = {p3}
  PIPESIZE = 1
  PipeW = 1
  NB = 1
  PipeMaxN = 2
  PipeVictims = {}
  Typists = {p1}
  Chars = {"x", "nl", "eof"}
  INPUT_BUF = 2
  ConsW = 2
  ConsMaxN = 2
  ConsVictims = {}
  Nappers = {p1, p2}
  TicksW = 2
  Naps <- TwoNaps
  TicksVictims = {p2}
  Users = {p1, p2}
  Blocks = {k1, k2}
  NBUF = 2
  Values = {0}
  MaxPinned = 0
  DiskErrors = 0
PROPERTIES EveryWaitEnds
CHECK_DEADLOCK FALSE
