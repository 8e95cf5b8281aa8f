\* Two watchers, and an acceptor whose system may refuse to open it.
SPECIFICATION FairPeersSpec
CONSTANTS
  Watchers = {w1, w2}
  Ids = {c1, c2}
  reuse_addr = FALSE
  OsFaults = {"open"}
CHECK_DEADLOCK FALSE
INVARIANTS OneConnection
 
