------------------------------- MODULE RateLimit -------------------------------
(***************************************************************************)
(* The rate limiter of WsConnection: the three counters of                 *)
(* WsConnection.hpp and what check_rate_limit decides from them.  The      *)
(* operators are pure; WsConnection applies them to its own counters and   *)
(* RateLimiter runs them against a clock to say what they guarantee.       *)
(*                                                                         *)
(* rate_limit_start_ is kept as its age, now - rate_limit_start_, in clock *)
(* ticks.  The code only asks whether that age is more than one second, so *)
(* ages beyond Second + 1 are not told apart.                              *)
(***************************************************************************)
EXTENDS Naturals

CONSTANTS
  rate_limit_messages,  \* front::rate_limit_messages
  rate_limit_bytes,     \* front::rate_limit_bytes
  Second                \* clock ticks in one second

ASSUME RateAssumption ==
  /\ rate_limit_messages \in Nat
  /\ rate_limit_bytes \in Nat
  /\ Second \in Nat \ {0}

Counters == [messages : Nat, bytes : Nat, age : 0 .. (Second + 1)]

ZeroCounters == [messages |-> 0, bytes |-> 0, age |-> 0]

\* One tick of the steady clock.
Older(rate) ==
  [rate EXCEPT !.age = IF @ > Second THEN @ ELSE @ + 1]

\* on_read counts the message before it asks check_rate_limit.
Charge(rate, len) ==
  [messages |-> rate.messages + 1, bytes |-> rate.bytes + len, age |-> rate.age]

\* Mutant: the limit itself is too much.
AtLimit(rate) ==
  rate.messages >= rate_limit_messages \/ rate.bytes >= rate_limit_bytes

OverLimit(rate) ==
  rate.messages > rate_limit_messages \/ rate.bytes > rate_limit_bytes

\* Mutant: off by one in the comparison.
WindowReached(rate) ==
  rate.age >= Second

WindowElapsed(rate) ==
  rate.age > Second

\* The branch of check_rate_limit that aborts the connection.
RateKill(rate) ==
  OverLimit(rate) /\ ~WindowElapsed(rate)

\* The counters check_rate_limit leaves behind when it returns false.
Checked(rate) ==
  IF OverLimit(rate) /\ WindowElapsed(rate) THEN ZeroCounters ELSE rate
================================================================================
