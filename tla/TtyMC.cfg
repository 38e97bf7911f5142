\* Three processes that read and write one terminal: texts of a line and a half,
\* and lines that are empty, are read in parts, or are shorter than is asked for.
CONSTANTS
  Proc = {p1, p2, p3}
  Idle = Idle
  None = None
  Tty = {t1}
  TERMINAL_MAX_LINE = 2
  WriteLen = {3}
  ReadLen = {1, 3}
  LineLen = {0, 2}
  MaxWrites = 3
  MaxLines = 2
SPECIFICATION Spec
INVARIANT TypeOK
INVARIANT PlacedOnce
INVARIANT InputInOrder
INVARIANT OneReaderPerLine
PROPERTY ImplementsStream
PROPERTY EveryWriteReturns
