\* The rate limiter against every timing of up to MaxMessages messages.
SPECIFICATION LimiterSpec
CONSTANTS
  rate_limit_messages = 2
  rate_limit_bytes = 3
  Second = 1
  MaxLength = 2
  MaxMessages = 7
  MaxClock = 4
CHECK_DEADLOCK FALSE
INVARIANTS BoundedBurst KillIsDeserved
