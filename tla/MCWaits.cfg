SPECIFICATION Spec
CONSTANTS
  Parts = {"spin", "sleep", "pipe", "console", "clock"}
  CPUs = {c1, c2}
  Locks = {l1, l2}
  l1 = l1
  l2 = l2
  Rank <- LockOrder
  Contenders = {p1, p2, p3}
  Pipers = {p1, p2, p3}
  Readers = {p1, p2}
  Writers = {p2, p3}
  PIPESIZE = 2
  PipeW = 2
  NB = 3
  PipeMaxN = 3
  PipeVictims = {p3}
  Typists = {p1, p2}
  Chars = {"x", "nl", "eof"}
  INPUT_BUF = 2
  ConsW = 2
  ConsMaxN = 3
  ConsVictims = {p2}
  Nappers = {p1, p2}
  TicksW = 2
  Naps <- ShortNaps
  TicksVictims = {p2}
  Users = {p1, p2}
  Blocks = {k1, k2}
  NBUF = 2
  Values = {0}
  MaxPinned = 0
  DiskErrors = 0
INVARIANTS SyncSound NoDeadlock RingsSound
PROPERTIES ImplementsMutex ImplementsByteStream ImplementsLineInput SleptEnough
CHECK_DEADLOCK FALSE
