CONSTANTS
  p1 = p1
  p2 = p2
  Parts = {"files", "data", "memory"}
  Procs = {p1, p2}
  First = p1
  NFILE = 3
  NOFILE = 2
  Inodes = {1}
  NPIPE = 1
  DataInodes = {1, 2}
  Opens = {1, 2}
  Ino <- InoOf
  NBLOCKS = 6
  BSIZE = 2
  NDIRECT = 2
  NINDIRECT = 3
  BPB = 1
  MAXOPBLOCKS = 10
  Counts = {3, 7}
  NPAGES = 12
  PGSIZE = 2
  NPTENTRIES = 2
  NPDENTRIES = 2
  KTABLES = 1
  Images = {1, 3, 8}
  Sbrks <- Shrink
  UINT = 24
SPECIFICATION Spec
INVARIANTS FilesSound BlocksOwned ContentsSound WriteFits PagesSound NeverPanics
