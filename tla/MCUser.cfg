SPECIFICATION UserSpec
CONSTANTS
  MAX_THREAD = 5
  Priorities = {1, 2, 3}
  LIVE = 4
  MAXARGS = 4
  PIPEROOM = 1
  NPIDS = 6
  FAILS = 1
  Typed <- MCTyped
  Sessions <- MCSessions
  BSIZE = 2
  NDIRECT = 2
  NINDIRECT = 2
  LOGSIZE = 6
  IPB = 2
  BPB = 32
  FSSIZE = 22
  NINODES = 4
  ImageFiles <- MCImageFiles
  Writes <- MCWrites
  ReadSizes = {1, 3}
  HEADER = 2
  MORE = 4
  HEAP = 12
  Requests = {0, 3, 8}
  UMAX = 16
  LMAX = 256
  MAXERROR = 7
  Tasks <- MCTasks
  GREPBUF = 4
  WCBUF = 2
  Queries <- MCQueries
  COLS = 3
  ROWS = 3
  CONSBUFSIZE = 3
  BUFLEN = 4
  LINE_BUF = 3
  ARGS = 2
  Scripts <- MCScripts
INVARIANTS ThreadsSound ParseInverts PromptReturns OutputIs FileContents  HeapSound FormatRight  TerminalRight
  
CHECK_DEADLOCK FALSE
