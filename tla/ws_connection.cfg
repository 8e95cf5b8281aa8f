\* One client connection, with three messages to it and any number from it.
SPECIFICATION FairSpec
CONSTANTS
  ws_setup_timeout = 1
  ws_timeout = 1
  Slack = 2
  Second = 1
  rate_limit_messages = 1
  rate_limit_bytes = 2
  Lengths = {1}
  MaxSends = 3
CHECK_DEADLOCK FALSE
INVARIANTS InOrder WriterAwake Watched 
PROPERTIES OneWriteAtATime ExpiresOnlyAfterSilence LifeSpec
PROPERTIES DroppedIsReleased SilenceEnds Settles QueueDrains
