\* Two peers over TLS, with a fault at any moment.
SPECIFICATION FairSpec
CONSTANTS
  PrefixSize = 2
  Base = 2
  HandshakeSize = 1
  SafeLink = {TRUE}
  Sizes = {2}
  ClientSends = 1
  ServerSends = 0
  Faulty = TRUE
CHECK_DEADLOCK FALSE
PROPERTIES  BothReleased
