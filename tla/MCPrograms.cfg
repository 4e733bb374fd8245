SPECIFICATION FairSpec
CONSTANTS
  Parts = {"editor", "parser", "shell", "heap"}
  MaxLines = 3
  Texts = {"x", "y"}
  Loaded <- EditedFiles
  Page = 2
  Sessions <- EditSessions
  MAXARGS = 3
  Typed <- TypedLines
  NPROC = 7
  NPIPE = 3
  Cmds <- Commands
  MaxCmds = 2
  Top = 9
  Chunk = 3
  Sizes = {2, 3, 4}
INVARIANTS ListSound AskedBeforeLoss ProcessesSound HeapSound
PROPERTIES EditsAsTold RunsWhatWasTyped PromptReturns
CHECK_DEADLOCK FALSE
