\* Every document of up to four of fourteen characters, read one or three
\* characters at a time.
SPECIFICATION Spec
CONSTANTS
  Alphabet = {"n", "D", "7", "0", "-", ".", "'", "BSL", "SP", "LF", "CR", "#", "?", "NUL"}
  MaxLength = 4
  Reads = {1, 3}
  ReadAhead = 2
  TrimAt = 2
  IntegerMax = 31
CHECK_DEADLOCK FALSE
INVARIANTS ReadsTheDocument PositionExact
