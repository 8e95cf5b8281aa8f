------------------------------ MODULE RateLimiter ------------------------------
(***************************************************************************)
(* The rate limiter of one WsConnection run against a clock, with the      *)
(* whole history of the messages it saw, to say what the counters of       *)
(* RateLimit guarantee.  The counters are only compared with the clock     *)
(* when one of them is over its limit, so a window is not "the last        *)
(* second": it starts at the message that reset the counters and lasts     *)
(* until a later message exceeds a limit.                                  *)
(***************************************************************************)
EXTENDS Naturals, Sequences, RateLimit

CONSTANTS
  MaxLength,    \* front::message_max_size
  MaxMessages,  \* bound: messages a client sends
  MaxClock      \* bound: clock ticks

ASSUME LimiterAssumption ==
  MaxLength \in Nat /\ MaxMessages \in Nat /\ MaxClock \in Nat

VARIABLES
  rate,    \* the counters
  killed,  \* check_rate_limit has aborted the connection
  \* History, not in the code:
  clock,
  times,   \* times[i]: when the i-th message was read
  totals,  \* totals[i]: bytes of the first i messages
  reset,   \* the last message that reset the counters (0: the constructor)
  before   \* the one that reset them before that

limiterVars == <<rate, killed, clock, times, totals, reset, before>>

\* When the counters were reset, and the bytes read by then.
At(i) == IF i = 0 THEN 0 ELSE times[i]
Total(i) == IF i = 0 THEN 0 ELSE totals[i]

LimiterInit ==
  /\ rate = ZeroCounters
  /\ killed = FALSE
  /\ clock = 0
  /\ times = <<>> /\ totals = <<>>
  /\ reset = 0 /\ before = 0

Tick ==
  /\ clock < MaxClock
  /\ clock' = clock + 1
  /\ rate' = Older(rate)
  /\ UNCHANGED <<killed, times, totals, reset, before>>

\* The first lines of on_read: count the message, then check_rate_limit.
OnRead(len) ==
  /\ ~killed
  /\ Len(times) < MaxMessages
  /\ times' = Append(times, clock)
  /\ totals' = Append(totals, Total(Len(totals)) + len)
  /\ LET charged == Charge(rate, len) IN
     IF RateKill(charged)
     THEN /\ killed' = TRUE
          /\ rate' = charged
          /\ UNCHANGED <<reset, before>>
     ELSE /\ rate' = Checked(charged)
          /\ IF OverLimit(charged)
             THEN reset' = Len(times) + 1 /\ before' = reset
             ELSE UNCHANGED <<reset, before>>
          /\ UNCHANGED killed
  /\ UNCHANGED clock

LimiterNext == Tick \/ \E len \in 0 .. MaxLength : OnRead(len)

LimiterSpec == LimiterInit /\ [][LimiterNext]_limiterVars

--------------------------------------------------------------------------------
\* The messages on_read let through: all but the one it killed the client for.
Passed == IF killed THEN Len(times) - 1 ELSE Len(times)

\* Whatever the client does, the messages let through within one second (from
\* the i-th to the j-th) are at most twice the limit and one, and their bytes
\* at most twice the limit and one message (check_rate_limit).
BoundedBurst ==
  \A j \in 1 .. Passed : \A i \in 1 .. j :
    times[j] - times[i] <= Second =>
      /\ j - i + 1 <= 2 * rate_limit_messages + 1
      /\ Total(j) - Total(i - 1) <= 2 * rate_limit_bytes + MaxLength

\* A client is only killed when it did exceed a limit: the messages since the
\* i-th, the last of them the one it was killed for, were all read within one
\* second and are more messages, or more bytes, than the limit.
KillIsDeserved ==
  killed =>
    \E i \in 1 .. Len(times) :
      /\ times[Len(times)] - times[i] <= Second
      /\ \/ Len(times) - i + 1 > rate_limit_messages
         \/ Total(Len(times)) - Total(i - 1) > rate_limit_bytes
================================================================================
