\* Two acceptors, as in run/config.info, and one place more than the bound.
SPECIFICATION AcceptorFairSpec
CONSTANTS
  Acceptors = {default, test_ipv6}
  Connections = {c1, c2, c3, c4, c5}
  connection_limit_hard = 3
  connection_limit_soft = 2
  reuse_addr = {}
  OsFaults = {"open"}
CHECK_DEADLOCK FALSE
INVARIANTS CountsLive HardLimit SoftLimit
 
