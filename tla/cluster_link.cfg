\* Every combination of safe and clear peers, with a fault at any moment.
SPECIFICATION Spec
CONSTANTS
  PrefixSize = 2
  Base = 2
  HandshakeSize = 2
  SafeLink = {TRUE, FALSE}
  Sizes = {1, 3}
  ClientSends = 2
  ServerSends = 0
  Faulty = TRUE
CHECK_DEADLOCK FALSE
INVARIANTS TypeOK InOrder  WriterAwake
