\* Three processes, a table that grows from one pipe to two, two values of
\* bytes, and buffers of two that grow to four: they wrap around, and grow
\* when they have.  Only the pipes at index 0 hold bytes.
CONSTANTS
  Proc = {p1, p2, p3}
  Idle = Idle
  None = None
  INITIAL_PIPE_COUNT = 1
  PIPE_BUFFER_LEN = 2
  Byte = {x, y}
  WriteLen = {1, 2}
  ReadLen = {1, 3}
  MAX_PIPES = 2
  Written = {0}
  MaxBytes = 4
SPECIFICATION Spec
INVARIANT TypeOK
INVARIANT OpenIsLowestUnused
INVARIANT OnlyWokenReadersLoseTheirPipe
INVARIANT PlacedOnce
INVARIANT NoReaderBesideBytes
PROPERTY ImplementsStream
PROPERTY BytesReachReaders
