------------------------------ MODULE PartsProofs ------------------------------
(***************************************************************************)
(* Theorems about the rate limiter, which a connection calls on its        *)
(* strand, about the watchers and the acceptor that make the connections   *)
(* of a cluster, and about the front server's main thread with its         *)
(* configuration.                                                          *)
(*                                                                         *)
(* What the rate limiter guarantees holds for all limits, lengths and      *)
(* timings. A window lasts from one reset to the next. The counters are    *)
(* those of the current window; the one before lasted more than a second,  *)
(* so within one second no message of a third window can have been read.   *)
(*                                                                         *)
(* A watcher has at most one connection, for any set of watchers: what is  *)
(* alive at its side is what connection_ refers to.                        *)
(*                                                                         *)
(* The front server, for any number of io_contexts, thread counts, values  *)
(* and signals at any moment. First FrontMain: which instances are without *)
(* threads at each place of main's loop, and what is left to do for a      *)
(* signal that came while the server was up. Then FrontConfig, which       *)
(* implements FrontMain, so that these invariants hold for it; a thread    *)
(* that builds a value is inside run(), so main, which has joined all      *)
(* threads, is alone when it loads the configuration.                      *)
(***************************************************************************)
EXTENDS RateLimiter, ClusterPeers, FrontConfig, FiniteSetTheorems, SequenceTheorems, TLAPS

--------------------------------------------------------------------------------
(* The rate limiter. *)

\* At and Total, with the log they look into.
In(log, i) == IF i = 0 THEN 0 ELSE log[i]

\* The history is in order, and the resets are places in it.
LogInv ==
  /\ clock \in Nat /\ killed \in BOOLEAN /\ rate \in Counters
  /\ times \in Seq(Nat) /\ totals \in Seq(Nat) /\ Len(totals) = Len(times)
  /\ reset \in 0 .. Len(times) /\ before \in 0 .. reset
  /\ \A i \in 1 .. Len(times) : times[i] <= clock
  /\ \A i, j \in 1 .. Len(times) : i <= j => times[i] <= times[j] /\ totals[i] <= totals[j]

\* The current window, which check_rate_limit has found within the limits.
CurrentInv ==
  ~killed =>
    /\ rate.messages = Len(times) - reset /\ rate.messages <= rate_limit_messages
    /\ rate.bytes = In(totals, Len(times)) - In(totals, reset) /\ rate.bytes <= rate_limit_bytes
    /\ IF rate.age <= Second THEN rate.age = clock - In(times, reset)
       ELSE clock - In(times, reset) > Second

\* The window before it, with the message that ended it.
PreviousInv ==
  IF reset = 0 THEN before = 0
  ELSE /\ In(times, reset) - In(times, before) > Second
       /\ reset - before <= rate_limit_messages + 1
       /\ In(totals, reset) - In(totals, before) <= rate_limit_bytes + MaxLength

LimiterInv == LogInv /\ CurrentInv /\ PreviousInv

\* The entries of a log are in order too, from the constructor on.
LEMMA Monotone ==
  ASSUME LogInv, NEW i \in 0 .. Len(times), NEW j \in 0 .. Len(times), i <= j
  PROVE  /\ In(times, i) \in Nat /\ In(totals, i) \in Nat
         /\ In(times, i) <= In(times, j) /\ In(totals, i) <= In(totals, j) /\ In(times, j) <= clock
<1>1. \A k \in 1 .. Len(times) : times[k] \in Nat /\ totals[k] \in Nat
  BY DEF LogInv
<1>2. CASE i = 0
  BY <1>1, <1>2 DEF LogInv, In
<1>3. CASE i # 0
  BY <1>1, <1>3 DEF LogInv, In
<1> QED
  BY <1>2, <1>3

\* The bound for the messages up to the last.
LEMMA LastBurst ==
  ASSUME LimiterInv, ~killed, NEW i \in 1 .. Len(times),
         times[Len(times)] - times[i] <= Second
  PROVE  /\ Len(times) - i + 1 <= 2 * rate_limit_messages + 1
         /\ In(totals, Len(times)) - In(totals, i - 1) <= 2 * rate_limit_bytes + MaxLength
<1> DEFINE n == Len(times)
<1>0. n \in Nat /\ n >= 1 /\ i \in 0 .. n /\ i - 1 \in 0 .. n /\ n \in 0 .. n
  BY DEF LimiterInv, LogInv
<1>1. times[n] = In(times, n) /\ times[i] = In(times, i)
  BY <1>0 DEF In
<1>2. reset \in 0 .. n /\ before \in 0 .. n /\ before <= reset
  BY DEF LimiterInv, LogInv
<1>3. i > before
  <2>1. CASE reset = 0
    BY <1>2, <2>1
  <2>2. CASE reset # 0
    <3>1. In(times, reset) - In(times, before) > Second
      BY <2>2 DEF LimiterInv, PreviousInv
    <3>2. SUFFICES ASSUME i <= before PROVE FALSE
      BY <1>0, <1>2
    <3>3. In(times, i) <= In(times, before) /\ In(times, i) \in Nat /\ In(times, before) \in Nat
      BY <1>0, <1>2, <3>2, Monotone DEF LimiterInv
    <3>4. In(times, reset) <= In(times, n) /\ In(times, reset) \in Nat /\ In(times, n) \in Nat
      <4>1. LogInv /\ reset <= n /\ n <= n
        BY <1>0, <1>2 DEF LimiterInv
      <4> HIDE DEF n
      <4> QED
        BY <1>0, <1>2, <4>1, Monotone, Zenon DEF n
    <3> QED
      BY <1>1, <3>1, <3>3, <3>4, RateAssumption
  <2> QED
    BY <2>1, <2>2
<1>4. In(totals, before) <= In(totals, i - 1) /\ In(totals, before) \in Nat /\ In(totals, i - 1) \in Nat
  <2>1. LogInv /\ before <= i - 1 /\ i - 1 <= i - 1
    BY <1>0, <1>2, <1>3 DEF LimiterInv
  <2> QED
    BY <1>0, <1>2, <2>1, Monotone, Zenon
<1>5. In(totals, reset) \in Nat /\ In(totals, n) \in Nat
  <2>1. LogInv /\ reset <= reset /\ n <= n
    BY <1>0, <1>2 DEF LimiterInv
  <2> QED
    BY <1>0, <1>2, <2>1, Monotone, Zenon
<1>6. /\ n - reset <= rate_limit_messages
      /\ In(totals, n) - In(totals, reset) <= rate_limit_bytes
  BY DEF LimiterInv, CurrentInv
<1>7. /\ reset - before <= rate_limit_messages + 1
      /\ In(totals, reset) - In(totals, before) <= rate_limit_bytes + MaxLength
  <2>1. CASE reset = 0
    <3>1. In(totals, reset) = In(totals, before)
      BY <1>2, <2>1
    <3> QED
      BY <1>2, <1>5, <2>1, <3>1, RateAssumption, LimiterAssumption
  <2>2. CASE reset # 0
    BY <2>2 DEF LimiterInv, PreviousInv
  <2> QED
    BY <2>1, <2>2
<1>8. rate_limit_messages \in Nat /\ rate_limit_bytes \in Nat /\ MaxLength \in Nat
  BY RateAssumption, LimiterAssumption
<1>9. n - i + 1 <= 2 * rate_limit_messages + 1
  <2> HIDE DEF n
  <2> QED
    BY <1>0, <1>2, <1>3, <1>6, <1>7, <1>8
<1>10. In(totals, n) - In(totals, i - 1) <= 2 * rate_limit_bytes + MaxLength
  <2> DEFINE a == In(totals, before) b == In(totals, i - 1) c == In(totals, reset) d == In(totals, n)
  <2>1. /\ a \in Nat /\ b \in Nat /\ c \in Nat /\ d \in Nat /\ a <= b
        /\ d - c <= rate_limit_bytes /\ c - a <= rate_limit_bytes + MaxLength
    BY <1>4, <1>5, <1>6, <1>7
  <2> HIDE DEF a, b, c, d
  <2>2. d - b <= 2 * rate_limit_bytes + MaxLength
    BY <1>8, <2>1
  <2> QED
    BY <2>2 DEF b, d
<1> QED
  BY <1>9, <1>10

\* At first nothing has been read.
LEMMA InitLimiterInv == LimiterInit => LimiterInv
<1> SUFFICES ASSUME LimiterInit PROVE LimiterInv
  OBVIOUS
<1>1. ZeroCounters \in Counters
  BY RateAssumption DEF ZeroCounters, Counters
<1>2. LogInv
  <2>1. times \in Seq(Nat) /\ totals \in Seq(Nat) /\ Len(times) = 0 /\ Len(totals) = 0
    BY DEF LimiterInit
  <2>2. 1 .. Len(times) = {} /\ 0 \in 0 .. 0
    BY <2>1
  <2> QED
    BY <1>1, <2>1, <2>2 DEF LimiterInit, LogInv
<1>3. CurrentInv
  BY RateAssumption DEF LimiterInit, CurrentInv, ZeroCounters, In
<1> QED
  BY <1>2, <1>3 DEF LimiterInit, LimiterInv, PreviousInv

\* Time keeps the windows.
LEMMA TickLimiter == LimiterInv /\ Tick => LimiterInv'
<1> SUFFICES ASSUME LimiterInv, Tick PROVE LimiterInv'
  OBVIOUS
<1>1. times' = times /\ totals' = totals /\ reset' = reset /\ before' = before
  BY DEF Tick, In
<1>2. In(times, reset) \in Nat /\ In(times, reset) <= clock
  BY Monotone DEF LimiterInv, LogInv
<1>3. /\ rate' \in Counters /\ rate'.messages = rate.messages /\ rate'.bytes = rate.bytes
      /\ rate'.age = IF rate.age > Second THEN rate.age ELSE rate.age + 1
  <2>1. rate \in Counters /\ rate' = Older(rate)
    BY DEF LimiterInv, LogInv, Tick
  <2> QED
    BY <2>1, RateAssumption DEF Older, Counters
<1>4. LogInv'
  BY <1>3 DEF LimiterInv, LogInv, Tick
<1>5. CurrentInv'
  <2>1. rate.age \in Nat /\ clock \in Nat
    BY RateAssumption DEF LimiterInv, LogInv, Counters
  <2> QED
    BY <1>1, <1>2, <1>3, <2>1, RateAssumption DEF LimiterInv, CurrentInv, Tick
<1>6. PreviousInv'
  BY <1>1 DEF LimiterInv, PreviousInv, Tick
<1> QED
  BY <1>4, <1>5, <1>6 DEF LimiterInv

\* A message is read: the history grows by one place, and what was there stays.
LEMMA Grown ==
  ASSUME LogInv, NEW len \in 0 .. MaxLength, OnRead(len)
  PROVE  /\ times' \in Seq(Nat) /\ totals' \in Seq(Nat)
         /\ Len(times') = Len(times) + 1 /\ Len(totals') = Len(times) + 1
         /\ \A k \in 0 .. Len(times) : In(times', k) = In(times, k) /\ In(totals', k) = In(totals, k)
         /\ \A k \in 1 .. Len(times) : times'[k] = times[k] /\ totals'[k] = totals[k]
         /\ times'[Len(times) + 1] = clock
         /\ totals'[Len(times) + 1] = In(totals, Len(times)) + len
<1> DEFINE n == Len(times)
<1>1. /\ times \in Seq(Nat) /\ totals \in Seq(Nat) /\ Len(totals) = n /\ n \in Nat
      /\ clock \in Nat /\ len \in Nat
  BY LimiterAssumption DEF LogInv
<1>2. In(totals, n) \in Nat
  BY <1>1, Monotone
<1>3. times' = Append(times, clock) /\ totals' = Append(totals, In(totals, n) + len)
  BY <1>1 DEF OnRead, Total, In
<1>4. /\ times' \in Seq(Nat) /\ Len(times') = n + 1 /\ times'[n + 1] = clock
      /\ \A k \in 1 .. n : times'[k] = times[k]
  BY <1>1, <1>3
<1> DEFINE t == In(totals, n) + len
<1>5. t \in Nat
  BY <1>1, <1>2
<1>6. /\ totals' \in Seq(Nat) /\ Len(totals') = n + 1 /\ totals'[n + 1] = t
      /\ \A k \in 1 .. n : totals'[k] = totals[k]
  <2>1. totals' = Append(totals, t)
    BY <1>3
  <2> HIDE DEF t
  <2> QED
    BY <1>1, <1>5, <2>1
<1>7. \A k \in 0 .. n : In(times', k) = In(times, k) /\ In(totals', k) = In(totals, k)
  BY <1>1, <1>4, <1>6 DEF In
<1> QED
  BY <1>4, <1>6, <1>7

\* A message keeps the history in order.
LEMMA ReadLog ==
  ASSUME LimiterInv, NEW len \in 0 .. MaxLength, OnRead(len)
  PROVE  LogInv'
<1> DEFINE n == Len(times)
<1>0. LogInv /\ n \in Nat /\ len \in Nat
  BY LimiterAssumption DEF LimiterInv, LogInv
<1>1. rate \in Counters /\ Charge(rate, len) \in Counters
  BY <1>0, RateAssumption DEF LogInv, Charge, Counters
<1>2. clock' = clock /\ clock' \in Nat /\ killed' \in BOOLEAN
  BY <1>0 DEF LogInv, OnRead
<1>3. rate' \in Counters
  <2>1. ZeroCounters \in Counters
    BY RateAssumption DEF ZeroCounters, Counters
  <2> QED
    BY <1>1, <2>1 DEF OnRead, Checked
<1>4. reset' \in 0 .. n + 1 /\ before' \in 0 .. reset'
  BY <1>0 DEF LogInv, OnRead
<1>5. \A k \in 1 .. n : times[k] <= clock /\ times[k] \in Nat /\ totals[k] \in Nat
  BY <1>0 DEF LogInv
<1>6. \A k \in 1 .. n : totals[k] <= In(totals, n)
  <2> SUFFICES ASSUME NEW k \in 1 .. n PROVE totals[k] <= In(totals, n)
    OBVIOUS
  <2>1. n \in 1 .. n /\ k <= n /\ n # 0
    BY <1>0
  <2>2. totals[k] <= totals[n]
    BY <1>0, <2>1 DEF LogInv
  <2> QED
    BY <2>1, <2>2 DEF In
<1>7. In(totals, n) \in Nat
  BY <1>0, Monotone
<1>8. \A k \in 1 .. n + 1 : times'[k] <= clock
  <2> SUFFICES ASSUME NEW k \in 1 .. n + 1 PROVE times'[k] <= clock
    OBVIOUS
  <2>1. CASE k \in 1 .. n
    BY <1>0, <1>5, <2>1, Grown
  <2>2. CASE k = n + 1
    <3>1. times'[k] = clock
      BY <1>0, <2>2, Grown
    <3> QED
      BY <1>2, <3>1
  <2> QED
    BY <1>0, <2>1, <2>2
<1>9. \A i, j \in 1 .. n + 1 : i <= j => times'[i] <= times'[j] /\ totals'[i] <= totals'[j]
  <2> SUFFICES ASSUME NEW i \in 1 .. n + 1, NEW j \in 1 .. n + 1, i <= j
               PROVE  times'[i] <= times'[j] /\ totals'[i] <= totals'[j]
    OBVIOUS
  <2>1. CASE j <= n
    <3>1. i \in 1 .. n /\ j \in 1 .. n
      BY <1>0, <2>1
    <3>2. times[i] <= times[j] /\ totals[i] <= totals[j]
      BY <1>0, <3>1 DEF LogInv
    <3> QED
      BY <1>0, <3>1, <3>2, Grown
  <2>2. CASE j = n + 1 /\ i <= n
    <3>1. i \in 1 .. n
      BY <1>0, <2>2
    <3>2. times'[i] = times[i] /\ totals'[i] = totals[i]
      BY <1>0, <3>1, Grown
    <3>3. times'[j] = clock /\ totals'[j] = In(totals, n) + len
      BY <1>0, <2>2, Grown
    <3>4. totals[i] <= In(totals, n) /\ totals[i] \in Nat /\ times[i] <= clock
      BY <1>5, <1>6, <3>1
    <3> QED
      BY <1>0, <1>7, <3>2, <3>3, <3>4
  <2>3. CASE j = n + 1 /\ i = n + 1
    <3>1. times'[i] = clock /\ totals'[i] = In(totals, n) + len /\ i = j
      BY <1>0, <2>3, Grown
    <3> QED
      BY <1>0, <1>2, <1>7, <3>1
  <2> QED
    BY <1>0, <2>1, <2>2, <2>3
<1>10. Len(times') = n + 1 /\ Len(totals') = n + 1 /\ times' \in Seq(Nat) /\ totals' \in Seq(Nat)
  BY <1>0, Grown
<1> QED
  BY <1>2, <1>3, <1>4, <1>8, <1>9, <1>10 DEF LogInv

\* What is known of the counters when a message has been counted.
LEMMA Charged ==
  ASSUME LimiterInv, NEW len \in 0 .. MaxLength, OnRead(len)
  PROVE  /\ Charge(rate, len).messages = (Len(times) + 1) - reset
         /\ Charge(rate, len).messages <= rate_limit_messages + 1
         /\ Charge(rate, len).bytes = In(totals', Len(times) + 1) - In(totals, reset)
         /\ Charge(rate, len).bytes <= rate_limit_bytes + MaxLength
         /\ Charge(rate, len).age = rate.age /\ rate.age \in Nat
         /\ In(times', Len(times) + 1) = clock /\ In(totals', Len(times) + 1) \in Nat
<1> DEFINE n == Len(times)
<1>0. LogInv /\ n \in Nat /\ len \in Nat /\ len <= MaxLength /\ ~killed /\ reset \in 0 .. n
  BY LimiterAssumption DEF LimiterInv, LogInv, OnRead
<1>1. rate.messages \in Nat /\ rate.bytes \in Nat /\ rate.age \in Nat
  BY <1>0, RateAssumption DEF LogInv, Counters
<1>2. /\ rate.messages = n - reset /\ rate.messages <= rate_limit_messages
      /\ rate.bytes = In(totals, n) - In(totals, reset) /\ rate.bytes <= rate_limit_bytes
  BY <1>0 DEF LimiterInv, CurrentInv
<1>3. /\ Charge(rate, len).messages = rate.messages + 1
      /\ Charge(rate, len).bytes = rate.bytes + len
      /\ Charge(rate, len).age = rate.age
  BY DEF Charge
<1>4. In(times', n + 1) = clock /\ In(totals', n + 1) = In(totals, n) + len
  <2>1. times'[n + 1] = clock /\ totals'[n + 1] = In(totals, n) + len /\ n + 1 # 0
    BY <1>0, Grown
  <2> QED
    BY <2>1 DEF In
<1>5. In(totals, n) \in Nat /\ In(totals, reset) \in Nat
  BY <1>0, Monotone
<1>6. rate_limit_messages \in Nat /\ rate_limit_bytes \in Nat /\ MaxLength \in Nat
  BY RateAssumption, LimiterAssumption
<1>7. /\ rate.messages + 1 = (n + 1) - reset
      /\ rate.messages + 1 <= rate_limit_messages + 1
  BY <1>0, <1>1, <1>2, <1>6
<1>8. /\ rate.bytes + len = (In(totals, n) + len) - In(totals, reset)
      /\ rate.bytes + len <= rate_limit_bytes + MaxLength
      /\ In(totals, n) + len \in Nat
  <2> DEFINE a == In(totals, n) b == In(totals, reset)
  <2>1. a \in Nat /\ b \in Nat /\ rate.bytes = a - b
    BY <1>2, <1>5
  <2> HIDE DEF a, b
  <2>2. /\ rate.bytes + len = (a + len) - b
        /\ rate.bytes + len <= rate_limit_bytes + MaxLength
        /\ a + len \in Nat
    BY <1>0, <1>1, <1>2, <1>6, <2>1
  <2> QED
    BY <2>2 DEF a, b
<1> DEFINE c == Charge(rate, len)
<1>9. c.messages = (n + 1) - reset /\ c.messages <= rate_limit_messages + 1
  BY <1>3, <1>7
<1> DEFINE new == In(totals', n + 1) old == In(totals, reset)
<1>10. c.bytes = new - old /\ c.bytes <= rate_limit_bytes + MaxLength /\ new \in Nat
  <2>1. c.bytes = rate.bytes + len
    BY <1>3
  <2>2. new = In(totals, n) + len
    BY <1>4
  <2>3. rate.bytes + len = new - old
    BY <1>8, <2>2
  <2>4. new \in Nat
    BY <1>8, <2>2
  <2> HIDE DEF c, new, old
  <2> QED
    BY <1>8, <2>1, <2>3, <2>4
<1>11. c.age = rate.age
  BY <1>3
<1>12. In(times', n + 1) = clock
  BY <1>4
<1> QED
  BY <1>1, <1>9, <1>10, <1>11, <1>12, Zenon

\* A message belongs to the current window, or resets the counters and begins one.
LEMMA ReadWindows ==
  ASSUME LimiterInv, NEW len \in 0 .. MaxLength, OnRead(len)
  PROVE  CurrentInv' /\ PreviousInv'
<1> DEFINE charged == Charge(rate, len)
           n == Len(times) + 1
<1>0. /\ LogInv /\ ~killed /\ clock' = clock /\ n \in Nat /\ Len(times') = n
      /\ reset \in 0 .. Len(times) /\ before \in 0 .. Len(times)
  BY Grown DEF LimiterInv, LogInv, OnRead
<1>1. IF rate.age <= Second THEN rate.age = clock - In(times, reset)
      ELSE clock - In(times, reset) > Second
  BY <1>0 DEF LimiterInv, CurrentInv
<1>2. /\ In(times', reset) = In(times, reset) /\ In(totals', reset) = In(totals, reset)
      /\ In(times', before) = In(times, before) /\ In(totals', before) = In(totals, before)
  BY <1>0, Grown
<1>3. CASE reset' = reset /\ before' = before
  <2>1. PreviousInv'
    BY <1>2, <1>3 DEF LimiterInv, PreviousInv
  <2>2. ASSUME ~killed' PROVE rate' = charged /\ ~OverLimit(charged)
    <3>1. ~RateKill(charged)
      BY <2>2 DEF OnRead
    <3>2. ~OverLimit(charged)
      <4>1. SUFFICES ASSUME OverLimit(charged) PROVE FALSE
        OBVIOUS
      <4>2. reset' = n
        BY <3>1, <4>1 DEF OnRead
      <4> QED
        BY <1>0, <1>3, <4>2
    <3> QED
      BY <3>1, <3>2 DEF OnRead, Checked
  <2>3. CurrentInv'
    <3> SUFFICES ASSUME ~killed' PROVE CurrentInv'
      BY DEF CurrentInv
    <3>1. charged.messages = n - reset /\ charged.bytes = In(totals', n) - In(totals, reset)
          /\ charged.age = rate.age
      BY Charged
    <3>2. charged.messages <= rate_limit_messages /\ charged.bytes <= rate_limit_bytes
      <4>1. charged.messages \in Nat /\ charged.bytes \in Nat
        <5>1. rate \in Counters /\ len \in Nat
          BY <1>0, LimiterAssumption DEF LogInv
        <5> QED
          BY <5>1 DEF Charge, Counters
      <4> QED
        BY <2>2, <4>1, RateAssumption DEF OverLimit
    <3>3. rate' = charged
      BY <2>2
    <3> HIDE DEF charged
    <3> QED
      BY <1>0, <1>1, <1>2, <1>3, <3>1, <3>2, <3>3 DEF CurrentInv
  <2> QED
    BY <2>1, <2>3
<1>4. CASE /\ OverLimit(charged) /\ ~RateKill(charged)
           /\ reset' = n /\ before' = reset
  <2>1. rate' = ZeroCounters /\ rate.age > Second
    <3>1. WindowElapsed(charged)
      BY <1>4 DEF RateKill
    <3>2. rate.age > Second
      BY <3>1, Charged DEF WindowElapsed
    <3> QED
      BY <1>4, <3>1, <3>2 DEF OnRead, Checked
  <2>2. clock - In(times, reset) > Second
    BY <1>1, <2>1, Charged, RateAssumption
  <2>3. In(times', n) = clock /\ clock \in Nat /\ In(totals', n) \in Nat
    BY <1>0, Charged DEF LogInv
  <2>4. CurrentInv'
    <3>1. rate'.messages = 0 /\ rate'.bytes = 0 /\ rate'.age = 0
      BY <2>1 DEF ZeroCounters
    <3>2. n - n = 0 /\ In(totals', n) - In(totals', n) = 0 /\ clock - clock = 0
      BY <1>0, <2>3
    <3>3. 0 <= rate_limit_messages /\ 0 <= rate_limit_bytes /\ 0 <= Second
      BY RateAssumption
    <3> QED
      BY <1>0, <1>4, <2>3, <3>1, <3>2, <3>3 DEF CurrentInv
  <2>5. PreviousInv'
    <3>1. n - reset <= rate_limit_messages + 1
      BY Charged
    <3>2. In(totals', n) - In(totals, reset) <= rate_limit_bytes + MaxLength
      BY Charged
    <3> QED
      BY <1>0, <1>2, <1>4, <2>2, <2>3, <3>1, <3>2 DEF PreviousInv
  <2> QED
    BY <2>4, <2>5
<1> QED
  BY <1>0, <1>3, <1>4 DEF OnRead

\* Every step keeps the windows.
LEMMA NextLimiterInv == LimiterInv /\ [LimiterNext]_limiterVars => LimiterInv'
<1> SUFFICES ASSUME LimiterInv, [LimiterNext]_limiterVars PROVE LimiterInv'
  OBVIOUS
<1>1. CASE Tick
  BY <1>1, TickLimiter
<1>2. CASE \E len \in 0 .. MaxLength : OnRead(len)
  BY <1>2, ReadLog, ReadWindows DEF LimiterInv
<1>3. CASE UNCHANGED limiterVars
  BY <1>3 DEF LimiterInv, LogInv, CurrentInv, PreviousInv, limiterVars
<1> QED
  BY <1>1, <1>2, <1>3 DEF LimiterNext

\* The two properties, with In for Total.
Burst(i, j) ==
  times[j] - times[i] <= Second =>
    /\ j - i + 1 <= 2 * rate_limit_messages + 1
    /\ In(totals, j) - In(totals, i - 1) <= 2 * rate_limit_bytes + MaxLength

Deserved(i) ==
  /\ times[Len(times)] - times[i] <= Second
  /\ \/ Len(times) - i + 1 > rate_limit_messages
     \/ In(totals, Len(times)) - In(totals, i - 1) > rate_limit_bytes

Bursts == \A j \in 1 .. Passed : \A i \in 1 .. j : Burst(i, j)

DeservedKill == killed => \E i \in 1 .. Len(times) : Deserved(i)

\* BoundedBurst, burst by burst.
LEMMA BurstIsBounded == Bursts <=> BoundedBurst
BY DEF Bursts, BoundedBurst, Burst, In, Total

\* KillIsDeserved, message by message.
LEMMA DeservedIsKill == DeservedKill <=> KillIsDeserved
BY DEF DeservedKill, KillIsDeserved, Deserved, In, Total

\* The bursts that end with the last message are bounded.
LEMMA LastBursts ==
  LimiterInv /\ ~killed => \A i \in 1 .. Len(times) : Burst(i, Len(times))
BY LastBurst DEF Burst

\* So they are after a step.
LEMMA LastBurstsNext ==
  (LimiterInv /\ ~killed => \A i \in 1 .. Len(times) : Burst(i, Len(times)))'
BY LastBursts, PTL

\* A message let through adds the bursts that end with it; the others are as they were.
LEMMA NextBursts == LimiterInv /\ Bursts /\ [LimiterNext]_limiterVars => Bursts'
<1> SUFFICES ASSUME LimiterInv, Bursts, [LimiterNext]_limiterVars PROVE Bursts'
  OBVIOUS
<1>1. CASE Tick \/ UNCHANGED limiterVars
  BY <1>1 DEF Tick, limiterVars, Bursts, Burst, Passed
<1>2. ASSUME NEW len \in 0 .. MaxLength, OnRead(len) PROVE Bursts'
  <2> DEFINE n == Len(times)
  <2>1. LogInv /\ ~killed /\ n \in Nat /\ Len(times') = n + 1 /\ killed' \in BOOLEAN
    <3>1. LogInv /\ ~killed /\ n \in Nat
      BY <1>2 DEF LimiterInv, LogInv, OnRead
    <3>2. LogInv'
      BY <1>2, ReadLog
    <3> QED
      BY <1>2, <3>1, <3>2, Grown DEF LogInv
  <2>2. Passed = n /\ Passed' = IF killed' THEN n ELSE n + 1
    BY <2>1 DEF Passed
  <2> SUFFICES ASSUME NEW j \in 1 .. Passed', NEW i \in 1 .. j PROVE Burst(i, j)'
    BY DEF Bursts
  <2>3. CASE j \in 1 .. n
    <3>1. Burst(i, j)
      BY <2>2, <2>3 DEF Bursts
    <3>2. i \in 1 .. n /\ i - 1 \in 0 .. n /\ j \in 0 .. n
      BY <2>1, <2>3
    <3>3. /\ times'[i] = times[i] /\ times'[j] = times[j]
          /\ In(totals', j) = In(totals, j) /\ In(totals', i - 1) = In(totals, i - 1)
      BY <1>2, <2>1, <2>3, <3>2, Grown
    <3> QED
      BY <3>1, <3>3 DEF Burst
  <2>4. CASE j = n + 1 /\ ~killed'
    <3>1. LimiterInv'
      BY NextLimiterInv
    <3>2. \A k \in 1 .. Len(times') : Burst(k, Len(times))'
      BY <2>4, <3>1, LastBurstsNext
    <3> QED
      BY <2>1, <2>4, <3>2 DEF Burst
  <2> QED
    BY <2>1, <2>2, <2>3, <2>4
<1> QED
  BY <1>1, <1>2 DEF LimiterNext

\* The client is killed for the window that began after the last reset, which is
\* at most a second old when check_rate_limit finds it over a limit.
LEMMA NextDeserved == LimiterInv /\ DeservedKill /\ [LimiterNext]_limiterVars => DeservedKill'
<1> SUFFICES ASSUME LimiterInv, DeservedKill, [LimiterNext]_limiterVars PROVE DeservedKill'
  OBVIOUS
<1>1. CASE Tick \/ UNCHANGED limiterVars
  BY <1>1 DEF Tick, limiterVars, DeservedKill, Deserved
<1>2. ASSUME NEW len \in 0 .. MaxLength, OnRead(len), killed' PROVE DeservedKill'
  <2> DEFINE n == Len(times) + 1
             charged == Charge(rate, len)
             i == reset + 1
  <2>1. LogInv /\ ~killed /\ n \in Nat /\ Len(times') = n /\ reset \in 0 .. Len(times)
    BY <1>2, Grown DEF LimiterInv, LogInv, OnRead
  <2>2. RateKill(charged)
    BY <1>2, <2>1 DEF OnRead
  <2>3. charged.age = rate.age /\ rate.age \in Nat
    BY <1>2, Charged
  <2>4. clock - In(times, reset) <= Second
    <3>1. rate.age <= Second
      BY <2>2, <2>3, RateAssumption DEF RateKill, WindowElapsed
    <3>2. rate.age = clock - In(times, reset)
      BY <2>1, <3>1 DEF LimiterInv, CurrentInv
    <3> QED
      BY <3>1, <3>2
  <2>5. times'[n] - times'[i] <= Second
    <3>1. times'[n] = clock /\ clock \in Nat
      BY <1>2, <2>1, Grown DEF LogInv
    <3>2. CASE i = n
      BY <3>1, <3>2, RateAssumption
    <3>3. CASE i # n
      <4>1. i \in 1 .. Len(times) /\ reset <= i
        BY <2>1, <3>3
      <4>2. times'[i] = times[i] /\ times[i] = In(times, i)
        BY <1>2, <2>1, <4>1, Grown DEF In
      <4>3. In(times, reset) <= In(times, i) /\ In(times, reset) \in Nat /\ In(times, i) \in Nat
        BY <2>1, <4>1, Monotone
      <4> HIDE DEF i, n
      <4> QED
        BY <2>4, <3>1, <4>2, <4>3, RateAssumption
    <3> QED
      BY <3>2, <3>3
  <2>6. n - i + 1 > rate_limit_messages \/ In(totals', n) - In(totals', i - 1) > rate_limit_bytes
    <3>1. charged.messages > rate_limit_messages \/ charged.bytes > rate_limit_bytes
      BY <2>2 DEF RateKill, OverLimit
    <3>2. charged.messages = n - reset /\ charged.bytes = In(totals', n) - In(totals, reset)
      BY <1>2, Charged
    <3>3. i - 1 = reset /\ n - i + 1 = n - reset
      BY <2>1
    <3>4. In(totals', i - 1) = In(totals, reset)
      BY <1>2, <2>1, <3>3, Grown
    <3> HIDE DEF i, n, charged
    <3> QED
      BY <3>1, <3>2, <3>3, <3>4
  <2>7. i \in 1 .. n
    BY <2>1
  <2>8. \E k \in 1 .. n :
          /\ times'[n] - times'[k] <= Second
          /\ n - k + 1 > rate_limit_messages \/ In(totals', n) - In(totals', k - 1) > rate_limit_bytes
    BY <2>5, <2>6, <2>7, Zenon
  <2> HIDE DEF n
  <2> QED
    BY <2>1, <2>8 DEF DeservedKill, Deserved
<1> QED
  BY <1>1, <1>2 DEF LimiterNext, DeservedKill

\* Whatever the limits, the lengths and the timing, the messages check_rate_limit
\* lets through within one second are at most twice the limit and one, and their
\* bytes at most twice the limit and one message.
THEOREM BurstsAreBounded == LimiterSpec => []BoundedBurst
<1>1. LimiterInit => LimiterInv /\ Bursts
  <2>1. LimiterInit => Bursts
    BY DEF LimiterInit, Bursts, Passed
  <2> QED
    BY <2>1, InitLimiterInv
<1>2. LimiterInv /\ Bursts /\ [LimiterNext]_limiterVars => LimiterInv' /\ Bursts'
  BY NextLimiterInv, NextBursts
<1> QED
  BY <1>1, <1>2, BurstIsBounded, PTL DEF LimiterSpec

\* Whatever the limits, the lengths and the timing, a client that check_rate_limit
\* aborted did send more than a limit within one second.
THEOREM KillsAreDeserved == LimiterSpec => []KillIsDeserved
<1>1. LimiterInit => LimiterInv /\ DeservedKill
  <2>1. LimiterInit => DeservedKill
    BY DEF LimiterInit, DeservedKill
  <2> QED
    BY <2>1, InitLimiterInv
<1>2. LimiterInv /\ DeservedKill /\ [LimiterNext]_limiterVars => LimiterInv' /\ DeservedKill'
  BY NextLimiterInv, NextDeserved
<1> QED
  BY <1>1, <1>2, DeservedIsKill, PTL DEF LimiterSpec

--------------------------------------------------------------------------------
(* The watchers. *)

AtMostOne(S) == \A a, b \in S : a = b

WatcherInv(w) ==
  /\ client[w] \subseteq connection[w]
  /\ AtMostOne(connection[w]) /\ AtMostOne(socket[w])
  /\ watcher[w] # "waiting" => client[w] = {}

PeersInv == \A w \in Watchers : WatcherInv(w)

\* Every step preserves the types.
LEMMA PeersNextType == PeersType /\ [PeersNext]_peersVars => PeersType'
<1> SUFFICES ASSUME PeersType, [PeersNext]_peersVars PROVE PeersType'
  OBVIOUS
<1> USE DEF PeersType, acceptorVars, watcherVars
<1>1. CASE Open
  BY <1>1 DEF Open
<1>2. ASSUME NEW x \in Watchers \X Ids, OnAccept(x) \/ OnAcceptThrow(x) \/ ServerEnds(x)
      PROVE  PeersType'
  BY Zenon, <1>2 DEF OnAccept, OnAcceptThrow, ServerEnds
<1>3. ASSUME NEW w \in Watchers, ConnectFails(w) \/ OnConnectError(w) \/ OnTimer(w)
      PROVE  PeersType'
  BY Zenon, <1>3 DEF ConnectFails, OnConnectError, OnTimer
<1>4. ASSUME NEW w \in Watchers, OnConnect(w) \/ OnConnectThrow(w) PROVE PeersType'
  <2>1. CASE OnConnectThrow(w)
    BY <2>1 DEF OnConnectThrow
  <2>2. CASE OnConnect(w)
    <3>1. client' \in [Watchers -> SUBSET Ids]
      BY <2>2 DEF OnConnect
    <3>2. connection' \in [Watchers -> SUBSET Ids] /\ socket' \in [Watchers -> SUBSET Ids]
      BY <2>2 DEF OnConnect
    <3> QED
      BY <2>2, <3>1, <3>2 DEF OnConnect
  <2> QED
    BY <1>4, <2>1, <2>2
<1>5. ASSUME NEW w \in Watchers, NEW id \in Ids, Connect(w, id) \/ ClientEnds(w, id)
      PROVE  PeersType'
  <2>1. CASE ClientEnds(w, id)
    BY <2>1 DEF ClientEnds
  <2>2. CASE Connect(w, id)
    <3>1. backlog' \subseteq Watchers \X Ids
      BY <2>2 DEF Connect
    <3>2. socket' \in [Watchers -> SUBSET Ids]
      BY <2>2 DEF Connect
    <3>3. watcher' \in [Watchers -> {"connecting", "connected", "refused", "waiting"}]
      BY <2>2 DEF Connect
    <3> QED
      BY <2>2, <3>1, <3>2, <3>3 DEF Connect
  <2> QED
    BY <1>5, <2>1, <2>2
<1>6. CASE UNCHANGED peersVars
  BY <1>6 DEF peersVars
<1> QED
  BY <1>1, <1>2, <1>3, <1>4, <1>5, <1>6 DEF PeersNext, WatcherStep

\* Every step preserves what connection_ says of the connections.
LEMMA PeersNextInv == PeersType /\ PeersInv /\ [PeersNext]_peersVars => PeersInv'
<1> SUFFICES ASSUME PeersType, PeersInv, [PeersNext]_peersVars, NEW v \in Watchers PROVE WatcherInv(v)'
  BY DEF PeersInv
<1>1. /\ WatcherInv(v)
      /\ watcher \in [Watchers -> {"connecting", "connected", "refused", "waiting"}]
      /\ socket \in [Watchers -> SUBSET Ids]
      /\ client \in [Watchers -> SUBSET Ids]
      /\ connection \in [Watchers -> SUBSET Ids]
  BY DEF PeersInv, PeersType
<1> USE <1>1 DEF WatcherInv, AtMostOne, acceptorVars, watcherVars
<1>2. CASE UNCHANGED <<watcherVars, client>>
  BY <1>2
<1>3. ASSUME NEW w \in Watchers, ConnectFails(w) PROVE WatcherInv(v)'
  BY <1>3 DEF ConnectFails
<1>4. ASSUME NEW w \in Watchers, OnConnectError(w) PROVE WatcherInv(v)'
  BY <1>4 DEF OnConnectError
<1>5. ASSUME NEW w \in Watchers, OnTimer(w) PROVE WatcherInv(v)'
  BY <1>5 DEF OnTimer
<1>6. ASSUME NEW w \in Watchers, OnConnect(w) PROVE WatcherInv(v)'
  BY <1>6 DEF OnConnect
<1>7. ASSUME NEW w \in Watchers, OnConnectThrow(w) PROVE WatcherInv(v)'
  BY <1>7 DEF OnConnectThrow
<1>8. ASSUME NEW w \in Watchers, NEW id \in Ids, Connect(w, id) PROVE WatcherInv(v)'
  BY <1>8 DEF Connect
<1>9. ASSUME NEW w \in Watchers, NEW id \in Ids, ClientEnds(w, id) PROVE WatcherInv(v)'
  BY <1>9 DEF ClientEnds
<1>10. Open \/ (\E x \in Watchers \X Ids : OnAccept(x) \/ OnAcceptThrow(x) \/ ServerEnds(x))
         => UNCHANGED <<watcherVars, client>>
  BY DEF Open, OnAccept, OnAcceptThrow, ServerEnds
<1>11. UNCHANGED peersVars => UNCHANGED <<watcherVars, client>>
  BY DEF peersVars
<1> QED
  BY <1>2, <1>3, <1>4, <1>5, <1>6, <1>7, <1>8, <1>9, <1>10, <1>11 DEF PeersNext, WatcherStep

\* The types and the invariant, in every reachable state.
THEOREM PeersTypeCorrect == PeersSpec => [](PeersType /\ PeersInv)
<1>1. PeersInit => PeersType /\ PeersInv
  BY Zenon DEF PeersInit, PeersType, PeersInv, WatcherInv, AtMostOne
<1>2. PeersType /\ PeersInv /\ [PeersNext]_peersVars => (PeersType /\ PeersInv)'
  BY PeersNextType, PeersNextInv
<1> QED
  BY <1>1, <1>2, PTL DEF PeersSpec

\* A watcher never has two connections, for any number of watchers: it connects
\* only when connection_ has expired (on_connect, on_timer).
THEOREM WatcherHasOneConnection == PeersSpec => []OneConnection
<1>1. PeersInv => OneConnection
  BY DEF PeersInv, WatcherInv, AtMostOne, OneConnection
<1> QED
  BY <1>1, PeersTypeCorrect, PTL

--------------------------------------------------------------------------------
(* The threads of the pool. *)

Outside == {"check", "load", "update", "clear", "returned"}

\* run() has not reached instance k yet, or has joined its threads.
Unreached(k) ==
  \/ pc = "restart" /\ k >= instance
  \/ pc = "start" /\ k > instance
  \/ pc = "join" /\ k < instance
  \/ pc \in Outside

PoolInv ==
  /\ \A k \in 1 .. N : running[k] <= workers[k]
  /\ \A k \in 1 .. N : Unreached(k) => workers[k] = 0
  /\ pc \in Outside => instance = 1

Places == {"restart", "start", "join", "check", "load", "update", "clear", "returned"}
Outcomes == {"running", "shutting down", "reload failed", "without signal"}

\* main stays at a place of its loop, at an instance of the pool.
LEMMA MainType == TypeOK /\ Main => /\ pc' \in Places /\ instance' \in 1 .. N
                                    /\ outcome' \in Outcomes /\ threads' \in [1 .. N -> ThreadCounts]
<1> SUFFICES ASSUME TypeOK, Main
             PROVE  /\ pc' \in Places /\ instance' \in 1 .. N
                    /\ outcome' \in Outcomes /\ threads' \in [1 .. N -> ThreadCounts]
  OBVIOUS
<1>0. instance \in 1 .. N
  BY DEF TypeOK
<1>1. instance \in 1 .. N /\ 1 \in 1 .. N
  BY <1>0, MainAssumption
<1>2. pc \in Places /\ outcome \in Outcomes /\ threads \in [1 .. N -> ThreadCounts]
  BY DEF TypeOK, Places, Outcomes
<1>3. CASE Restart \/ StartWorker
  BY <1>1, <1>2, <1>3 DEF Restart, StartWorker, Places
<1>4. CASE Started
  <2>1. instance' \in 1 .. N
    BY <1>1, <1>4, MainAssumption DEF Started
  <2>2. pc' \in Places
    BY <1>4 DEF Started, Places
  <2> QED
    BY <1>2, <1>4, <2>1, <2>2 DEF Started
<1>5. CASE Join
  <2>1. instance' \in 1 .. N
    BY <1>1, <1>5, MainAssumption DEF Join
  <2>2. pc' \in Places
    BY <1>2, <1>5 DEF Join, Places
  <2> QED
    BY <1>2, <1>5, <2>1, <2>2 DEF Join
<1>6. CASE Check \/ Load \/ Loaded \/ Clear
  BY <1>1, <1>2, <1>6 DEF Check, Load, Loaded, Clear, Return, Places, Outcomes
<1> QED
  BY <1>3, <1>4, <1>5, <1>6 DEF Main

\* The counts of threads stay numbers.
LEMMA CountsType == TypeOK /\ [Next]_vars =>
                      workers' \in [1 .. N -> Nat] /\ running' \in [1 .. N -> Nat]
<1> SUFFICES ASSUME TypeOK, [Next]_vars
             PROVE  workers' \in [1 .. N -> Nat] /\ running' \in [1 .. N -> Nat]
  OBVIOUS
<1>1. instance \in 1 .. N /\ workers \in [1 .. N -> Nat] /\ running \in [1 .. N -> Nat]
  BY DEF TypeOK
<1>2. CASE StartWorker
  <2>1. workers' \in [1 .. N -> Nat]
    BY <1>1, <1>2 DEF StartWorker
  <2>2. running' \in [1 .. N -> Nat]
    BY <1>1, <1>2 DEF StartWorker
  <2> QED
    BY <2>1, <2>2
<1>3. CASE Join
  BY <1>1, <1>3 DEF Join
<1>4. ASSUME NEW k \in 1 .. N, WorkerEnds(k)
      PROVE  workers' \in [1 .. N -> Nat] /\ running' \in [1 .. N -> Nat]
  BY <1>1, <1>4 DEF WorkerEnds
<1>5. CASE UNCHANGED <<workers, running>>
  BY <1>1, <1>5
<1>6. Restart \/ Started \/ Check \/ Load \/ Loaded \/ Clear => UNCHANGED <<workers, running>>
  BY DEF Restart, Started, Check, Load, Loaded, Clear, poolVars
<1>7. \A s \in Signals : Raise(s) \/ StopInstance(s) => UNCHANGED <<workers, running>>
  BY DEF Raise, StopInstance, poolVars
<1>8. UNCHANGED vars => UNCHANGED <<workers, running>>
  BY DEF vars, poolVars
<1>9. \A k \in 1 .. N, count \in ThreadCounts : OnUpdate(k, count) => UNCHANGED <<workers, running>>
  BY DEF OnUpdate, poolVars
<1> QED
  BY <1>2, <1>3, <1>4, <1>5, <1>6, <1>7, <1>8, <1>9 DEF Next, Step, Main

\* The handlers stop instances of the pool, and the flags stay Booleans.
LEMMA SignalsType == TypeOK /\ [Next]_vars =>
                       /\ handler' \in [Signals -> 0 .. N] /\ raised' \in 0 .. MaxSignals
                       /\ should_stop' \in BOOLEAN /\ should_reload' \in BOOLEAN /\ early' \in BOOLEAN
<1> SUFFICES ASSUME TypeOK, [Next]_vars
             PROVE  /\ handler' \in [Signals -> 0 .. N] /\ raised' \in 0 .. MaxSignals
                    /\ should_stop' \in BOOLEAN /\ should_reload' \in BOOLEAN /\ early' \in BOOLEAN
  OBVIOUS
<1>1. handler \in [Signals -> 0 .. N] /\ raised \in 0 .. MaxSignals
  BY DEF TypeOK
<1>2. should_stop \in BOOLEAN /\ should_reload \in BOOLEAN /\ early \in BOOLEAN
  BY Zenon DEF TypeOK
<1>3. ASSUME NEW s \in Signals, Raise(s)
      PROVE  /\ handler' \in [Signals -> 0 .. N] /\ raised' \in 0 .. MaxSignals
             /\ should_stop' \in BOOLEAN /\ should_reload' \in BOOLEAN /\ early' \in BOOLEAN
  <2>1. handler' \in [Signals -> 0 .. N] /\ raised' \in 0 .. MaxSignals
    BY <1>1, <1>3, MainAssumption DEF Raise
  <2>2. should_stop' \in BOOLEAN /\ should_reload' \in BOOLEAN /\ early' \in BOOLEAN
    BY <1>3, Zenon DEF Raise
  <2> QED
    BY <2>1, <2>2
<1>4. ASSUME NEW s \in Signals, StopInstance(s)
      PROVE  /\ handler' \in [Signals -> 0 .. N] /\ raised' \in 0 .. MaxSignals
             /\ should_stop' \in BOOLEAN /\ should_reload' \in BOOLEAN /\ early' \in BOOLEAN
  <2>1. handler' \in [Signals -> 0 .. N] /\ raised' \in 0 .. MaxSignals
    BY <1>1, <1>4, MainAssumption DEF StopInstance
  <2>2. should_stop' \in BOOLEAN /\ should_reload' \in BOOLEAN /\ early' \in BOOLEAN
    BY <1>2, <1>4, Zenon DEF StopInstance
  <2> QED
    BY <2>1, <2>2
<1>5. CASE Clear
  BY <1>1, <1>2, <1>5 DEF Clear
<1>6. CASE UNCHANGED signalVars
  BY <1>1, <1>2, <1>6 DEF signalVars
<1>7. Restart \/ StartWorker \/ Started \/ Join \/ Check \/ Load \/ Loaded => UNCHANGED signalVars
  BY DEF Restart, StartWorker, Started, Join, Check, Load, Loaded
<1>8. \A k \in 1 .. N : WorkerEnds(k) => UNCHANGED signalVars
  BY DEF WorkerEnds
<1>9. UNCHANGED vars => UNCHANGED signalVars
  BY DEF vars
<1>10. \A k \in 1 .. N, count \in ThreadCounts : OnUpdate(k, count) => UNCHANGED signalVars
  BY DEF OnUpdate
<1> QED
  BY <1>3, <1>4, <1>5, <1>6, <1>7, <1>8, <1>9, <1>10 DEF Next, Step, Main

\* Every step preserves the types.
LEMMA NextType == TypeOK /\ [Next]_vars => TypeOK'
<1> SUFFICES ASSUME TypeOK, [Next]_vars PROVE TypeOK'
  OBVIOUS
<1>1. workers' \in [1 .. N -> Nat] /\ running' \in [1 .. N -> Nat]
  BY CountsType
<1>2. /\ handler' \in [Signals -> 0 .. N] /\ raised' \in 0 .. MaxSignals
      /\ should_stop' \in BOOLEAN /\ should_reload' \in BOOLEAN /\ early' \in BOOLEAN
  BY SignalsType
<1>3. /\ pc' \in Places /\ instance' \in 1 .. N
      /\ outcome' \in Outcomes /\ threads' \in [1 .. N -> ThreadCounts]
  <2>1. CASE Main
    BY <2>1, MainType
  <2>2. CASE UNCHANGED <<pc, instance, outcome, threads>>
    BY <2>2, Zenon DEF TypeOK, Places, Outcomes
  <2>3. (\E k \in 1 .. N : WorkerEnds(k)) => UNCHANGED <<pc, instance, outcome, threads>>
    BY DEF WorkerEnds
  <2>4. (\E s \in Signals : Raise(s) \/ StopInstance(s)) => UNCHANGED <<pc, instance, outcome, threads>>
    BY DEF Raise, StopInstance
  <2>5. UNCHANGED vars => UNCHANGED <<pc, instance, outcome, threads>>
    BY DEF vars
  <2>6. ASSUME NEW k \in 1 .. N, NEW count \in ThreadCounts, OnUpdate(k, count)
        PROVE  /\ pc' \in Places /\ instance' \in 1 .. N
               /\ outcome' \in Outcomes /\ threads' \in [1 .. N -> ThreadCounts]
    <3>1. threads' \in [1 .. N -> ThreadCounts]
      BY <2>6, Zenon DEF OnUpdate, TypeOK
    <3> QED
      BY <2>6, <3>1, Zenon DEF OnUpdate, TypeOK, Places, Outcomes
  <2> QED
    BY <2>1, <2>2, <2>3, <2>4, <2>5, <2>6 DEF Next, Step
<1>4. stopped' \in [1 .. N -> BOOLEAN]
  <2>1. stopped \in [1 .. N -> BOOLEAN]
    BY Zenon DEF TypeOK
  <2>2. CASE Restart
    BY <2>1, <2>2, Zenon DEF Restart
  <2>3. ASSUME NEW s \in Signals, StopInstance(s) PROVE stopped' \in [1 .. N -> BOOLEAN]
    BY <2>1, <2>3, Zenon DEF StopInstance
  <2>4. CASE UNCHANGED stopped
    BY <2>1, <2>4
  <2>5. StartWorker \/ Started \/ Join \/ Check \/ Load \/ Loaded \/ Clear => UNCHANGED stopped
    BY DEF StartWorker, Started, Join, Check, Load, Loaded, Clear, poolVars
  <2>6. (\E k \in 1 .. N : WorkerEnds(k)) \/ (\E s \in Signals : Raise(s)) => UNCHANGED stopped
    BY DEF WorkerEnds, Raise, poolVars
  <2>7. UNCHANGED vars => UNCHANGED stopped
    BY DEF vars, poolVars
  <2>8. \A k \in 1 .. N, count \in ThreadCounts : OnUpdate(k, count) => UNCHANGED stopped
    BY DEF OnUpdate, poolVars
  <2> QED
    BY <2>2, <2>3, <2>4, <2>5, <2>6, <2>7, <2>8 DEF Next, Step, Main
<1> QED
  BY <1>1, <1>2, <1>3, <1>4, Zenon DEF TypeOK, Places, Outcomes

\* run() leaves the instances it has joined, and those it has not reached yet,
\* without threads; the handlers create none.
LEMMA NextPool == TypeOK /\ PoolInv /\ [Next]_vars => PoolInv'
<1> SUFFICES ASSUME TypeOK, PoolInv, [Next]_vars PROVE PoolInv'
  OBVIOUS
<1>1. instance \in 1 .. N /\ workers \in [1 .. N -> Nat] /\ running \in [1 .. N -> Nat]
  BY DEF TypeOK
<1>2. CASE Restart
  <2>1. \A k \in 1 .. N : Unreached(k)' => workers'[k] = 0
    BY <1>1, <1>2, MainAssumption DEF Restart, PoolInv, Unreached, Outside
  <2> QED
    BY <1>2, <2>1 DEF Restart, PoolInv, Outside
<1>3. CASE StartWorker
  <2>1. \A k \in 1 .. N : running'[k] <= workers'[k]
    BY <1>1, <1>3 DEF StartWorker, PoolInv
  <2>2. \A k \in 1 .. N : Unreached(k)' => workers'[k] = 0
    BY <1>1, <1>3, MainAssumption DEF StartWorker, PoolInv, Unreached, Outside
  <2> QED
    BY <1>3, <2>1, <2>2 DEF StartWorker, PoolInv
<1>4. CASE Started
  <2>1. \A k \in 1 .. N : Unreached(k)' => workers'[k] = 0
    BY <1>1, <1>4, MainAssumption DEF Started, PoolInv, Unreached, Outside, poolVars
  <2>2. pc' \notin Outside
    BY <1>4 DEF Started, Outside
  <2>3. UNCHANGED <<workers, running>>
    BY <1>4 DEF Started, poolVars
  <2> QED
    BY <2>1, <2>2, <2>3 DEF PoolInv
<1>5. CASE Join
  <2>1. running[instance] = 0 /\ workers' = [workers EXCEPT ![instance] = 0] /\ UNCHANGED running
    BY <1>5 DEF Join
  <2>2. \A k \in 1 .. N : running'[k] <= workers'[k]
    BY <1>1, <2>1 DEF PoolInv
  <2>3. \A k \in 1 .. N : Unreached(k)' => workers'[k] = 0
    <3> SUFFICES ASSUME NEW k \in 1 .. N, k # instance, Unreached(k)' PROVE workers[k] = 0
      BY <1>1, <2>1
    <3>1. pc = "join" /\ k < instance
      BY <1>1, <1>5, MainAssumption DEF Join, Unreached, Outside
    <3> QED
      BY <3>1 DEF PoolInv, Unreached
  <2>4. pc' \in Outside => instance' = 1
    BY <1>5 DEF Join, Outside
  <2> QED
    BY <2>2, <2>3, <2>4 DEF PoolInv
<1>6. CASE Check \/ Load \/ Loaded
  BY <1>1, <1>6 DEF Check, Load, Loaded, Return, PoolInv, Unreached, Outside, poolVars
<1>7. CASE Clear
  BY <1>1, <1>7 DEF Clear, PoolInv, Unreached, Outside, poolVars
<1>8. ASSUME NEW k \in 1 .. N, WorkerEnds(k) PROVE PoolInv'
  <2>1. \A j \in 1 .. N : running'[j] <= workers'[j]
    BY <1>1, <1>8 DEF WorkerEnds, PoolInv
  <2> QED
    BY <1>8, <2>1 DEF WorkerEnds, PoolInv, Unreached
<1>9. CASE UNCHANGED <<pc, instance, workers, running>>
  BY <1>9 DEF PoolInv, Unreached
<1>10. (\E s \in Signals : Raise(s) \/ StopInstance(s)) => UNCHANGED <<pc, instance, workers, running>>
  BY DEF Raise, StopInstance, poolVars
<1>11. UNCHANGED vars => UNCHANGED <<pc, instance, workers, running>>
  BY DEF vars, poolVars
<1>12. \A k \in 1 .. N, count \in ThreadCounts : OnUpdate(k, count) => UNCHANGED <<pc, instance, workers, running>>
  BY DEF OnUpdate, poolVars
<1> QED
  BY <1>2, <1>3, <1>4, <1>5, <1>6, <1>7, <1>8, <1>9, <1>10, <1>11, <1>12 DEF Next, Step, Main

\* The pool starts without threads.
LEMMA InitMain == Init => TypeOK /\ PoolInv
<1>1. Init => TypeOK
  <2>1. Init => instance \in 1 .. N /\ handler \in [Signals -> 0 .. N] /\ raised \in 0 .. MaxSignals
    BY MainAssumption DEF Init
  <2>2. Init => workers \in [1 .. N -> Nat] /\ running \in [1 .. N -> Nat]
    BY DEF Init
  <2>3. Init => stopped \in [1 .. N -> BOOLEAN] /\ should_stop \in BOOLEAN /\ should_reload \in BOOLEAN /\ early \in BOOLEAN
    BY Zenon DEF Init
  <2> QED
    BY <2>1, <2>2, <2>3, Zenon DEF Init, TypeOK
<1>2. Init => PoolInv
  BY MainAssumption DEF Init, PoolInv, Outside
<1> QED
  BY <1>1, <1>2

\* The types, and the places without threads, in every reachable state.
THEOREM MainTypeCorrect == Spec => [](TypeOK /\ PoolInv)
<1>1. TypeOK /\ PoolInv /\ [Next]_vars => (TypeOK /\ PoolInv)'
  BY NextType, NextPool
<1> QED
  BY <1>1, InitMain, PTL DEF Spec

\* No thread of the pool is left when main reloads the configuration or returns.
THEOREM ThreadsAreJoined == Spec => []AllJoined
<1>1. TypeOK /\ PoolInv => AllJoined
  <2> SUFFICES ASSUME TypeOK, PoolInv, pc \in {"load", "update", "returned"}, NEW k \in 1 .. N
               PROVE  workers[k] = 0 /\ running[k] = 0
    BY DEF AllJoined
  <2>1. workers[k] = 0 /\ running[k] <= workers[k]
    BY DEF PoolInv, Unreached, Outside
  <2>2. running[k] \in Nat
    BY DEF TypeOK
  <2> QED
    BY <2>1, <2>2
<1> QED
  BY <1>1, MainTypeCorrect, PTL

\* restart() is never called on an io_context that a thread is running.
THEOREM RestartIsSafe == Spec => RestartsWhenIdle
<1>1. TypeOK /\ PoolInv => \A k \in 1 .. N : pc = "restart" /\ instance = k => running[k] = 0
  <2> SUFFICES ASSUME TypeOK, PoolInv, NEW k \in 1 .. N, pc = "restart", instance = k
               PROVE  running[k] = 0
    OBVIOUS
  <2>1. running[k] \in Nat
    BY DEF TypeOK
  <2>2. workers[k] = 0 /\ running[k] <= workers[k]
    BY MainAssumption DEF PoolInv, Unreached
  <2> QED
    BY <2>1, <2>2
<1> QED
  BY <1>1, MainTypeCorrect, PTL DEF RestartsWhenIdle

--------------------------------------------------------------------------------
(* Signals that come while the server is up. *)

\* No flag is set and no handler is active: the instances run() has started run
\* all their threads, so that Join gets past those without threads only.
Quiet ==
  /\ ~should_stop /\ ~should_reload
  /\ \A s \in Signals : handler[s] = 0
  /\ pc \in {"restart", "start", "join", "check", "returned"}
  /\ pc \in {"restart", "start"} => \A k \in 1 .. N : k < instance => ~stopped[k] /\ running[k] = threads[k]
  /\ pc = "start" => ~stopped[instance] /\ running[instance] = workers[instance] /\ workers[instance] <= threads[instance]
  /\ pc = "join" => \A k \in 1 .. N : ~stopped[k] /\ running[k] = threads[k] /\ (k < instance => threads[k] = 0)
  /\ pc \in {"check", "returned"} => \A k \in 1 .. N : threads[k] = 0

\* A signal came while the server was up: its handler has every instance from
\* some one on still to stop, so that main does not leave run() before it.
Asked ==
  /\ should_stop \/ should_reload
  /\ pc \in {"join", "check", "load", "update", "clear", "returned"}
  /\ pc # "join" => \A s \in Signals : handler[s] = 0
  /\ \A s, t \in Signals : handler[s] # 0 /\ handler[t] # 0 => s = t
  /\ \A s \in Signals : handler[s] # 0 =>
       instance <= handler[s] /\ \A k \in 1 .. N : k >= handler[s] => ~stopped[k] /\ running[k] > 0
  /\ pc \in {"load", "update", "clear"} => ~should_stop
  /\ outcome # "without signal"

\* Only the return of main sets the outcome.
ReturnedInv == outcome # "running" => pc = "returned"

AnsweredInv == ~early => Quiet \/ Asked

\* run() starts every thread of an instance that is not stopped.
LEMMA StartAnswered ==
  TypeOK /\ PoolInv /\ Quiet /\ (Restart \/ StartWorker \/ Started) => Quiet'
<1> SUFFICES ASSUME TypeOK, PoolInv, Quiet, Restart \/ StartWorker \/ Started PROVE Quiet'
  OBVIOUS
<1>1. /\ instance \in 1 .. N /\ workers \in [1 .. N -> Nat] /\ running \in [1 .. N -> Nat]
      /\ threads \in [1 .. N -> Nat] /\ stopped \in [1 .. N -> BOOLEAN]
  BY MainAssumption DEF TypeOK
<1>2. ~should_stop' /\ ~should_reload' /\ \A s \in Signals : handler'[s] = 0
  BY DEF Quiet, Restart, StartWorker, Started, signalVars
<1>3. CASE Restart
  <2>1. workers[instance] = 0 /\ running[instance] = 0
    BY <1>1, <1>3 DEF PoolInv, Unreached, Restart
  <2>2. \A k \in 1 .. N : k < instance => ~stopped'[k] /\ running'[k] = threads'[k]
    BY <1>1, <1>3 DEF Restart, Quiet
  <2>3. ~stopped'[instance'] /\ running'[instance'] = workers'[instance'] /\ workers'[instance'] <= threads'[instance']
    BY <1>1, <1>3, <2>1 DEF Restart
  <2> QED
    BY <1>2, <1>3, <2>2, <2>3 DEF Restart, Quiet
<1>4. CASE StartWorker
  <2>1. \A k \in 1 .. N : k < instance => ~stopped'[k] /\ running'[k] = threads'[k]
    BY <1>1, <1>4 DEF StartWorker, Quiet
  <2>2. ~stopped'[instance'] /\ running'[instance'] = workers'[instance'] /\ workers'[instance'] <= threads'[instance']
    BY <1>1, <1>4 DEF StartWorker, Quiet
  <2> QED
    BY <1>2, <1>4, <2>1, <2>2 DEF StartWorker, Quiet
<1>5. CASE Started
  <2>1. \A k \in 1 .. N : k <= instance => ~stopped[k] /\ running[k] = threads[k]
    BY <1>1, <1>5 DEF Started, Quiet
  <2>2. UNCHANGED <<stopped, running, threads>>
    BY <1>5 DEF Started, poolVars
  <2>3. CASE instance < N
    <3>1. pc' = "restart" /\ instance' = instance + 1
      BY <1>5, <2>3 DEF Started
    <3> QED
      BY <1>1, <1>2, <2>1, <2>2, <3>1 DEF Quiet
  <2>4. CASE ~(instance < N)
    <3>1. pc' = "join" /\ instance' = 1 /\ instance = N
      BY <1>1, <1>5, <2>4, MainAssumption DEF Started
    <3> QED
      BY <1>1, <1>2, <2>1, <2>2, <3>1, MainAssumption DEF Quiet
  <2> QED
    BY <2>3, <2>4
<1> QED
  BY <1>3, <1>4, <1>5

\* A handler that is not through holds main in run(): Join does not get past the
\* instances it has still to stop.
LEMMA JoinAnswered == TypeOK /\ (Quiet \/ Asked) /\ Join => Quiet' \/ Asked'
<1> SUFFICES ASSUME TypeOK, Quiet \/ Asked, Join PROVE Quiet' \/ Asked'
  OBVIOUS
<1>1. /\ instance \in 1 .. N /\ running \in [1 .. N -> Nat] /\ threads \in [1 .. N -> Nat]
      /\ handler \in [Signals -> 0 .. N]
  BY MainAssumption DEF TypeOK
<1>2. pc = "join" /\ running[instance] = 0
  BY DEF Join
<1>3. UNCHANGED <<stopped, running, threads, should_stop, should_reload, handler, outcome>>
  BY DEF Join, signalVars
<1>4. CASE Quiet
  <2>1. \A k \in 1 .. N : k <= instance => threads[k] = 0
    BY <1>1, <1>2, <1>4 DEF Quiet
  <2>2. CASE instance < N
    <3>1. pc' = "join" /\ instance' = instance + 1
      BY <1>2, <2>2 DEF Join
    <3> QED
      BY <1>1, <1>2, <1>3, <1>4, <2>1, <3>1 DEF Quiet
  <2>3. CASE ~(instance < N)
    <3>1. pc' = "check" /\ instance = N
      BY <1>1, <2>3, MainAssumption DEF Join
    <3> QED
      BY <1>1, <1>2, <1>3, <1>4, <2>1, <3>1 DEF Quiet
  <2> QED
    BY <2>2, <2>3
<1>5. CASE Asked
  <2>1. \A s \in Signals : handler[s] # 0 => instance < handler[s]
    <3> SUFFICES ASSUME NEW s \in Signals, handler[s] # 0 PROVE instance < handler[s]
      OBVIOUS
    <3>0. handler[s] \in 0 .. N
      BY <1>1
    <3>1. instance <= handler[s] /\ handler[s] \in 1 .. N
      <4>1. instance <= handler[s]
        BY <1>5 DEF Asked
      <4> QED
        BY <3>0, <4>1, MainAssumption
    <3>2. instance >= handler[s] => running[instance] > 0
      BY <1>1, <1>5 DEF Asked
    <3> QED
      BY <1>1, <1>2, <3>1, <3>2
  <2>2. CASE instance < N
    <3>1. pc' = "join" /\ instance' = instance + 1
      BY <1>2, <2>2 DEF Join
    <3>2. \A s \in Signals : handler'[s] # 0 =>
            instance' <= handler'[s] /\ \A k \in 1 .. N : k >= handler'[s] => ~stopped'[k] /\ running'[k] > 0
      <4> SUFFICES ASSUME NEW s \in Signals, handler[s] # 0
                   PROVE  instance + 1 <= handler[s] /\ \A k \in 1 .. N : k >= handler[s] => ~stopped[k] /\ running[k] > 0
        BY <1>3, <3>1
      <4>1. instance < handler[s] /\ handler[s] \in 0 .. N
        BY <1>1, <2>1
      <4>2. instance + 1 <= handler[s]
        BY <1>1, <4>1, MainAssumption
      <4> QED
        BY <1>5, <4>2 DEF Asked
    <3> QED
      BY <1>3, <1>5, <3>1, <3>2 DEF Asked
  <2>3. CASE ~(instance < N)
    <3>1. pc' = "check" /\ instance = N
      BY <1>1, <2>3, MainAssumption DEF Join
    <3>2. \A s \in Signals : handler[s] = 0
      BY <1>1, <2>1, <3>1
    <3> QED
      BY <1>3, <1>5, <3>1, <3>2 DEF Asked
  <2> QED
    BY <2>2, <2>3
<1> QED
  BY <1>4, <1>5

\* main's loop: it answers the flag that is set, and clears should_reload only.
LEMMA LoopAnswered ==
  TypeOK /\ PoolInv /\ (Quiet \/ Asked) /\ (Check \/ Load \/ Loaded \/ Clear) => Quiet' \/ Asked'
<1> SUFFICES ASSUME TypeOK, PoolInv, Quiet \/ Asked, Check \/ Load \/ Loaded \/ Clear
             PROVE  Quiet' \/ Asked'
  OBVIOUS
<1>1. CASE Check /\ Quiet
  BY <1>1 DEF Check, Quiet, Return, poolVars, signalVars
<1>2. CASE Check /\ Asked
  BY <1>2 DEF Check, Asked, Return, poolVars, signalVars
<1>3. CASE Load \/ Loaded
  <2>1. Asked
    BY <1>3 DEF Load, Loaded, Quiet
  <2> QED
    BY <1>3, <2>1 DEF Load, Loaded, Asked, Return, poolVars, signalVars
<1>4. CASE Clear
  <2>1. Asked /\ pc = "clear"
    BY <1>4 DEF Clear, Quiet
  <2>2. ~should_stop /\ \A s \in Signals : handler[s] = 0
    BY <2>1 DEF Asked
  <2>3. instance = 1
    BY <2>1 DEF PoolInv, Outside
  <2>4. \A k \in 1 .. N : ~(k < instance)
    BY <2>3, MainAssumption
  <2> QED
    BY <1>4, <2>2, <2>4 DEF Clear, Quiet
<1> QED
  BY <1>1, <1>2, <1>3, <1>4

\* A signal that comes while the server is up finds every instance running, main
\* before the first of them, and no other handler active.
LEMMA RaiseAnswered ==
  ASSUME NEW s \in Signals, TypeOK, PoolInv, Quiet \/ Asked, Raise(s), Up
  PROVE  Asked'
<1>1. instance \in 1 .. N /\ handler \in [Signals -> 0 .. N] /\ running \in [1 .. N -> Nat]
  BY DEF TypeOK
<1>2. pc = "join" /\ \A t \in Signals : handler[t] = 0
  BY DEF Up, Waiting
<1>3. \A k \in 1 .. N : ~stopped[k] /\ running[k] > 0
  BY DEF Up, Waiting
<1>4. UNCHANGED <<pc, instance, outcome, stopped, running>> /\ handler' = [handler EXCEPT ![s] = 1]
  BY DEF Raise, poolVars
<1>5. instance = 1
  <2> SUFFICES ASSUME instance # 1 PROVE FALSE
    OBVIOUS
  <2>1. 1 \in 1 .. N /\ 1 < instance
    BY <1>1, MainAssumption
  <2>2. workers[1] = 0 /\ running[1] <= workers[1]
    BY <1>2, <2>1 DEF PoolInv, Unreached
  <2> QED
    BY <1>1, <1>3, <2>1, <2>2
<1>6. should_stop' \/ should_reload'
  BY Zenon DEF Raise
<1>7. \A t \in Signals : handler'[t] # 0 => t = s /\ handler'[t] = 1
  BY <1>1, <1>2, <1>4
<1>8. outcome' # "without signal"
  BY <1>4 DEF Raise
<1>9. \A t \in Signals : handler'[t] # 0 =>
        instance' <= handler'[t] /\ \A k \in 1 .. N : k >= handler'[t] => ~stopped'[k] /\ running'[k] > 0
  <2>1. \A t \in Signals : handler'[t] # 0 => instance' <= handler'[t]
    BY <1>4, <1>5, <1>7
  <2>2. \A k \in 1 .. N : ~stopped'[k] /\ running'[k] > 0
    BY <1>3, <1>4
  <2> QED
    BY <2>1, <2>2
<1>10. pc' = "join"
  BY <1>2, <1>4
<1> QED
  BY <1>6, <1>7, <1>8, <1>9, <1>10, Zenon DEF Asked

\* A handler stops the instances in order, and main follows it.
LEMMA StopAnswered ==
  ASSUME NEW s \in Signals, TypeOK, Quiet \/ Asked, StopInstance(s)
  PROVE  Asked'
<1>1. /\ instance \in 1 .. N /\ handler \in [Signals -> 0 .. N] /\ handler[s] # 0
      /\ stopped \in [1 .. N -> BOOLEAN]
  BY DEF TypeOK, StopInstance
<1>2. Asked
  BY <1>1 DEF Quiet
<1>3. handler[s] \in 1 .. N
  BY <1>1, MainAssumption
<1>4. pc = "join" /\ \A t \in Signals : t # s => handler[t] = 0
  BY <1>1, <1>2 DEF Asked
<1>5. /\ UNCHANGED <<pc, instance, outcome, running, should_stop, should_reload>>
      /\ stopped' = [stopped EXCEPT ![handler[s]] = TRUE]
      /\ handler' = [handler EXCEPT ![s] = IF handler[s] < N THEN handler[s] + 1 ELSE 0]
  BY DEF StopInstance
<1>6. \A t \in Signals : handler'[t] # 0 => t = s /\ handler'[t] = handler[s] + 1
  BY <1>1, <1>4, <1>5
<1>7. /\ instance <= handler[s]
      /\ \A k \in 1 .. N : k >= handler[s] => ~stopped[k] /\ running[k] > 0
  BY <1>1, <1>2 DEF Asked
<1>8. \A t \in Signals : handler'[t] # 0 =>
        instance' <= handler'[t] /\ \A k \in 1 .. N : k >= handler'[t] => ~stopped'[k] /\ running'[k] > 0
  <2> SUFFICES ASSUME NEW t \in Signals, handler'[t] # 0
               PROVE  instance' <= handler'[t] /\ \A k \in 1 .. N : k >= handler'[t] => ~stopped'[k] /\ running'[k] > 0
    OBVIOUS
  <2>1. handler'[t] = handler[s] + 1
    BY <1>6
  <2>2. \A k \in 1 .. N : k >= handler[s] + 1 => k # handler[s] /\ k >= handler[s]
    BY <1>3
  <2>3. \A k \in 1 .. N : k # handler[s] => stopped'[k] = stopped[k]
    BY <1>1, <1>5, Zenon
  <2>4. \A k \in 1 .. N : k >= handler[s] + 1 => ~stopped'[k] /\ running'[k] > 0
    BY <1>5, <1>7, <2>2, <2>3, Zenon
  <2>5. instance' <= handler[s] + 1
    BY <1>1, <1>3, <1>5, <1>7
  <2> QED
    BY <2>1, <2>4, <2>5, Zenon
<1> QED
  BY <1>2, <1>4, <1>5, <1>6, <1>8 DEF Asked

\* A thread returns from run() only once its instance is stopped.
LEMMA WorkerAnswered ==
  ASSUME NEW k \in 1 .. N, TypeOK, PoolInv, Quiet \/ Asked, WorkerEnds(k)
  PROVE  Quiet' \/ Asked'
<1>1. /\ instance \in 1 .. N /\ running \in [1 .. N -> Nat] /\ workers \in [1 .. N -> Nat]
      /\ threads \in [1 .. N -> Nat]
  BY MainAssumption DEF TypeOK
<1>2. /\ stopped[k] /\ running[k] > 0
      /\ running' = [running EXCEPT ![k] = @ - 1]
      /\ UNCHANGED <<pc, instance, outcome, threads, stopped, workers, should_stop, should_reload, handler>>
  BY DEF WorkerEnds, signalVars
<1>3. CASE Quiet
  \* An instance that is stopped is one that run() has not reached.
  <2>1. \A j \in 1 .. N : ~stopped[j] => running'[j] = running[j]
    BY <1>1, <1>2
  <2> QED
    BY <1>1, <1>2, <1>3, <2>1 DEF Quiet
<1>4. CASE Asked
  <2>1. \A j \in 1 .. N : ~stopped[j] => running'[j] = running[j]
    BY <1>1, <1>2
  <2> QED
    BY <1>2, <1>4, <2>1 DEF Asked
<1> QED
  BY <1>3, <1>4

\* Every step keeps to it, until a signal comes while the server is not up.
LEMMA NextAnswered == TypeOK /\ PoolInv /\ AnsweredInv /\ [Next]_vars => AnsweredInv'
<1> SUFFICES ASSUME TypeOK, PoolInv, AnsweredInv, [Next]_vars, ~early' PROVE Quiet' \/ Asked'
  BY DEF AnsweredInv
<1>1. ASSUME NEW s \in Signals, Raise(s) PROVE ~early /\ Up
  BY <1>1, Zenon DEF Raise
<1>2. (~ \E s \in Signals : Raise(s)) => early' = early
  BY Zenon DEF Next, Step, Main, Restart, StartWorker, Started, Join, Check, Load, Loaded,
               Clear, OnUpdate, WorkerEnds, StopInstance, signalVars, vars
<1>3. Quiet \/ Asked
  BY <1>1, <1>2, Zenon DEF AnsweredInv
<1>4. CASE Restart \/ StartWorker \/ Started
  <2>1. Quiet
    BY <1>3, <1>4 DEF Asked, Restart, StartWorker, Started
  <2> QED
    BY <1>4, <2>1, StartAnswered
<1>5. CASE Join
  BY <1>3, <1>5, JoinAnswered
<1>6. CASE Check \/ Load \/ Loaded \/ Clear
  BY <1>3, <1>6, LoopAnswered
<1>7. ASSUME NEW k \in 1 .. N, NEW count \in ThreadCounts, OnUpdate(k, count)
      PROVE  Quiet' \/ Asked'
  <2>1. Asked
    BY <1>3, <1>7 DEF Quiet, OnUpdate
  <2> QED
    BY <1>7, <2>1 DEF Asked, OnUpdate, poolVars, signalVars
<1>8. ASSUME NEW k \in 1 .. N, WorkerEnds(k) PROVE Quiet' \/ Asked'
  BY <1>3, <1>8, WorkerAnswered
<1>9. ASSUME NEW s \in Signals, StopInstance(s) PROVE Asked'
  BY <1>3, <1>9, StopAnswered
<1>10. ASSUME NEW s \in Signals, Raise(s) PROVE Asked'
  BY <1>1, <1>3, <1>10, RaiseAnswered
<1>11. CASE UNCHANGED vars
  BY <1>3, <1>11 DEF Quiet, Asked, vars, poolVars, signalVars
<1> QED
  BY <1>4, <1>5, <1>6, <1>7, <1>8, <1>9, <1>10, <1>11 DEF Next, Step, Main

\* main reports an outcome when it returns, and does not go on.
LEMMA NextReturned == TypeOK /\ ReturnedInv /\ [Next]_vars => ReturnedInv'
<1> SUFFICES ASSUME TypeOK, ReturnedInv, [Next]_vars PROVE ReturnedInv'
  OBVIOUS
<1>1. CASE UNCHANGED <<pc, outcome>>
  BY <1>1 DEF ReturnedInv
<1>2. CASE Restart \/ Started \/ Join \/ Loaded \/ Clear
  <2>1. pc # "returned" /\ UNCHANGED outcome
    BY <1>2 DEF Restart, Started, Join, Loaded, Clear
  <2> QED
    BY <2>1 DEF ReturnedInv
<1>3. CASE Check \/ Load
  BY <1>3 DEF Check, Load, Return, ReturnedInv
<1>4. StartWorker => UNCHANGED <<pc, outcome>>
  BY DEF StartWorker
<1>5. \A k \in 1 .. N, count \in ThreadCounts : OnUpdate(k, count) => UNCHANGED <<pc, outcome>>
  BY DEF OnUpdate
<1>6. \A k \in 1 .. N : WorkerEnds(k) => UNCHANGED <<pc, outcome>>
  BY DEF WorkerEnds
<1>7. \A s \in Signals : Raise(s) \/ StopInstance(s) => UNCHANGED <<pc, outcome>>
  BY DEF Raise, StopInstance
<1>8. UNCHANGED vars => UNCHANGED <<pc, outcome>>
  BY DEF vars
<1> QED
  BY <1>1, <1>2, <1>3, <1>4, <1>5, <1>6, <1>7, <1>8 DEF Next, Step, Main

\* "Asio stopped without signal" only ends a server that has no threads, or that
\* got a signal while it was not up.
THEOREM StopsWithoutSignal == Spec => []WithoutSignal
<1>1. Init => AnsweredInv /\ ReturnedInv
  <2>1. Init => Quiet
    BY MainAssumption DEF Init, Quiet
  <2> QED
    BY <2>1 DEF AnsweredInv, Init, ReturnedInv
<1>2. AnsweredInv /\ ReturnedInv => WithoutSignal
  <2> SUFFICES ASSUME AnsweredInv, ReturnedInv, outcome = "without signal", ~early
               PROVE  \A k \in 1 .. N : threads[k] = 0
    BY DEF WithoutSignal
  <2>1. Quiet
    BY DEF AnsweredInv, Asked
  <2> QED
    BY <2>1 DEF Quiet, ReturnedInv
<1> QED
  BY <1>1, <1>2, NextAnswered, NextReturned, MainTypeCorrect, PTL DEF Spec

--------------------------------------------------------------------------------
(* The configuration. *)

Stages == {"none", "registered", "built", "dying"}
Existing == {o \in Objects : stage[o] # "none"}

ConfigTypeOK ==
  /\ tree \in [1 .. N -> ThreadCounts]
  /\ stage \in [Objects -> Stages]
  /\ owner \in [Objects -> 1 .. N]
  /\ value \in [Objects -> ThreadCounts]
  /\ locked \in BOOLEAN

\* Every value is built by a thread of its own.
OneThreadEach == \A k \in 1 .. N : Cardinality(Busy(k)) <= running[k]

\* The set of listeners, and how far invoke_config_listeners has come.
ListenersInv ==
  /\ listeners = (1 .. N) \cup Existing
  /\ pending \subseteq listeners /\ (locked \/ pending = {})
  /\ locked => pc = "update"
  /\ locked => \A k \in (1 .. N) \ pending : threads[k] = tree[k]

ValuesInv ==
  pc # "update" =>
    /\ \A k \in 1 .. N : threads[k] = tree[k]
    /\ \A o \in Objects : stage[o] = "built" => value[o] = tree[owner[o]]

ConfigInv == ConfigTypeOK /\ OneThreadEach /\ ListenersInv /\ ValuesInv

--------------------------------------------------------------------------------
(* FrontConfig implements FrontMain. *)

\* Every step of the composition is a step of FrontMain or leaves it alone.
LEMMA StepIsMain == ConfigTypeOK /\ ListenersInv /\ [ConfigNext]_allVars => [Next]_vars
<1> SUFFICES ASSUME ConfigTypeOK, ListenersInv, [ConfigNext]_allVars PROVE [Next]_vars
  OBVIOUS
<1>1. CASE Running
  BY <1>1 DEF Running, Next, Step, Main
<1>2. CASE ReadInfo
  BY <1>2 DEF ReadInfo, Next, Step, Main
<1>3. CASE LockListeners
  BY <1>3 DEF LockListeners
<1>4. CASE Invoked
  BY <1>4 DEF Invoked, Next, Step, Main
<1>5. ASSUME NEW l \in pending, UpdateListener(l) PROVE [Next]_vars
  <2>1. CASE l \in Objects
    BY <1>5, <2>1 DEF UpdateListener
  <2>2. CASE l \notin Objects
    <3>1. l \in 1 .. N
      BY <2>2 DEF ListenersInv, Existing
    <3>2. OnUpdate(l, tree[l])
      BY <1>5, <2>2 DEF UpdateListener
    <3>3. tree[l] \in ThreadCounts
      BY <3>1 DEF ConfigTypeOK
    <3> QED
      BY <3>1, <3>2, <3>3 DEF Next, Step
  <2> QED
    BY <2>1, <2>2
<1>6. ASSUME NEW o \in Objects, Handler(o) \/ \E k \in 1 .. N : Register(o, k) PROVE [Next]_vars
  BY <1>6 DEF Handler, ReadValue, Destroy, Unregister, Register
<1>7. ASSUME NEW k \in 1 .. N, IdleWorkerEnds(k) PROVE [Next]_vars
  BY <1>7 DEF IdleWorkerEnds, Next, Step
<1>8. ASSUME NEW s \in Signals, HandleSignal(s) PROVE [Next]_vars
  BY <1>8 DEF HandleSignal, Next, Step
<1>9. CASE UNCHANGED allVars
  BY <1>9 DEF allVars
<1> QED
  BY <1>1, <1>2, <1>3, <1>4, <1>5, <1>6, <1>7, <1>8, <1>9 DEF ConfigNext, MainThread

--------------------------------------------------------------------------------
(* The steps of the handlers and of the pool, conjunct by conjunct. *)

\* The sets of values are finite, so they can be counted.
LEMMA BusyFinite == \A k : IsFiniteSet(Busy(k)) /\ Cardinality(Busy(k)) \in Nat
<1> TAKE k
<1>1. Busy(k) \subseteq Objects
  BY DEF Busy
<1> QED
  BY <1>1, ConfigAssumption, FS_Subset, FS_CardinalityType

\* A value that begins takes an idle thread, and one that ends gives it back.
LEMMA ObjectsCount ==
  ASSUME ConfigTypeOK, TypeOK, OneThreadEach, NEW o \in Objects, NEW k \in 1 .. N,
         Handler(o) \/ Register(o, k)
  PROVE  OneThreadEach'
<1> SUFFICES ASSUME NEW j \in 1 .. N PROVE Cardinality(Busy(j)') <= running[j]
  <2>1. UNCHANGED running
    BY DEF Handler, ReadValue, Destroy, Unregister, Register, vars, poolVars
  <2> QED
    BY <2>1 DEF OneThreadEach
<1>1. Cardinality(Busy(j)) <= running[j] /\ running[j] \in Nat
  BY DEF OneThreadEach, TypeOK
<1>2. IsFiniteSet(Busy(j)) /\ Cardinality(Busy(j)) \in Nat
  BY BusyFinite
<1>3. CASE Handler(o)
  <2>1. Busy(j)' \subseteq Busy(j)
    BY <1>3 DEF Handler, ReadValue, Destroy, Unregister, Busy, ConfigTypeOK
  <2>2. Cardinality(Busy(j)') <= Cardinality(Busy(j)) /\ Cardinality(Busy(j)') \in Nat
    BY <1>2, <2>1, FS_Subset, FS_CardinalityType
  <2> QED
    BY <1>1, <1>2, <2>2
<1>4. CASE Register(o, k)
  <2>1. stage[o] = "none" /\ Cardinality(Busy(k)) < running[k]
    BY <1>4 DEF Register
  <2>2. CASE j = k
    <3>1. Busy(j)' = Busy(j) \cup {o} /\ o \notin Busy(j)
      BY <1>4, <2>2 DEF Register, Busy, ConfigTypeOK
    <3>2. Cardinality(Busy(j)') = Cardinality(Busy(j)) + 1
      BY <1>2, <3>1, FS_AddElement
    <3> QED
      BY <1>1, <1>2, <2>1, <2>2, <3>2
  <2>3. CASE j # k
    <3>1. Busy(j)' = Busy(j)
      BY <1>4, <2>1, <2>3 DEF Register, Busy, ConfigTypeOK
    <3> QED
      BY <1>1, <3>1
  <2> QED
    BY <2>2, <2>3
<1> QED
  BY <1>3, <1>4

\* Only a thread between two handlers returns from run().
LEMMA WorkersCount ==
  ASSUME TypeOK, OneThreadEach, NEW k \in 1 .. N, IdleWorkerEnds(k)
  PROVE  OneThreadEach'
<1> SUFFICES ASSUME NEW j \in 1 .. N PROVE Cardinality(Busy(j)') <= running'[j]
  BY DEF OneThreadEach
<1>1. Busy(j)' = Busy(j)
  BY DEF IdleWorkerEnds, configVars, objectVars, Busy
<1>2. Cardinality(Busy(j)) <= running[j] /\ Cardinality(Busy(j)) \in Nat /\ running[j] \in Nat
  BY BusyFinite DEF OneThreadEach, TypeOK
<1>3. running' = [running EXCEPT ![k] = @ - 1] /\ Cardinality(Busy(k)) < running[k]
  BY DEF IdleWorkerEnds, WorkerEnds
<1>4. running \in [1 .. N -> Nat]
  BY DEF TypeOK
<1> QED
  BY <1>1, <1>2, <1>3, <1>4

\* main starts threads, and takes none away.
LEMMA MainCount ==
  ASSUME TypeOK, OneThreadEach, UNCHANGED <<stage, owner>>,
         StartWorker \/ UNCHANGED running
  PROVE  OneThreadEach'
<1> SUFFICES ASSUME NEW j \in 1 .. N PROVE Cardinality(Busy(j)') <= running'[j]
  BY DEF OneThreadEach
<1>1. Busy(j)' = Busy(j)
  BY DEF Busy
<1>2. Cardinality(Busy(j)) <= running[j] /\ Cardinality(Busy(j)) \in Nat /\ running[j] \in Nat
  BY BusyFinite DEF OneThreadEach, TypeOK
<1>3. running'[j] = running[j] \/ running'[j] = running[j] + 1
  BY DEF StartWorker, TypeOK
<1> QED
  BY <1>1, <1>2, <1>3

\* When main has joined all threads, nobody is building a value.
LEMMA LoadAlone == TypeOK /\ PoolInv /\ OneThreadEach /\ ConfigTypeOK => LoadIsAlone
<1> SUFFICES ASSUME TypeOK, PoolInv, OneThreadEach, ConfigTypeOK,
                    pc \in {"load", "update"}, NEW o \in Objects, stage[o] # "none"
             PROVE  FALSE
  BY DEF LoadIsAlone
<1> DEFINE k == owner[o]
<1>1. k \in 1 .. N /\ o \in Busy(k)
  BY DEF Busy, ConfigTypeOK
<1>2. workers[k] = 0 /\ running[k] <= workers[k] /\ running[k] \in Nat
  BY <1>1 DEF PoolInv, Unreached, Outside, TypeOK
<1>3. Cardinality(Busy(k)) <= running[k]
  BY <1>1 DEF OneThreadEach
<1> HIDE DEF k
<1>4. IsFiniteSet(Busy(k)) /\ Cardinality(Busy(k)) \in Nat
  BY BusyFinite
<1>5. Cardinality(Busy(k)) = 0
  BY <1>2, <1>3, <1>4
<1>6. Busy(k) = {}
  BY <1>4, <1>5, FS_EmptySet
<1> QED
  BY <1>1, <1>6

\* A step that changes neither the settings nor the values, and does not move
\* main into or out of load(), keeps what is said of them.
LEMMA Frame ==
  ASSUME ConfigInv, UNCHANGED <<configVars, threads>>, (pc = "update") <=> (pc' = "update")
  PROVE  ConfigTypeOK' /\ ListenersInv' /\ ValuesInv'
<1>1. /\ UNCHANGED <<tree, listeners, locked, pending, stage, owner, value>>
      /\ Existing' = Existing
  BY DEF configVars, loadVars, objectVars, Existing
<1>2. ConfigTypeOK'
  BY <1>1, Zenon DEF ConfigInv, ConfigTypeOK
<1>3. ListenersInv'
  BY <1>1 DEF ConfigInv, ListenersInv
<1>4. ValuesInv'
  BY <1>1 DEF ConfigInv, ValuesInv
<1> QED
  BY <1>2, <1>3, <1>4

\* config::load(), step by step.
LEMMA LoadSteps ==
  ASSUME TypeOK, PoolInv, ConfigInv,
         ReadInfo \/ LockListeners \/ Invoked \/ \E l \in pending : UpdateListener(l)
  PROVE  ConfigInv'
<1> USE DEF ConfigInv
<1>0. LoadIsAlone
  BY LoadAlone
<1>1. UNCHANGED <<stage, owner, listeners, running>> /\ Existing' = Existing
  BY DEF ReadInfo, LockListeners, Invoked, UpdateListener, Load, Loaded, OnUpdate,
         objectVars, vars, poolVars, Existing
<1>2. OneThreadEach'
  BY <1>1, MainCount
<1>3. CASE ReadInfo
  <2>1. pc = "load" /\ ~locked /\ UNCHANGED <<threads, value, locked, pending>>
    BY <1>3 DEF ReadInfo, Load, ListenersInv, loadVars, objectVars
  <2>2. \/ pc' = "update" /\ tree' \in [1 .. N -> ThreadCounts]
        \/ pc' = "returned" /\ UNCHANGED tree
    BY <1>3 DEF ReadInfo
  <2>3. ConfigTypeOK'
    BY <1>1, <2>1, <2>2, Zenon DEF ConfigTypeOK
  <2>4. ListenersInv'
    BY <1>1, <2>1 DEF ListenersInv
  <2>5. ValuesInv'
    BY <1>1, <2>1, <2>2 DEF ValuesInv
  <2> QED
    BY <1>2, <2>3, <2>4, <2>5
<1>4. CASE LockListeners
  <2>1. pc = "update" /\ pc' = pc /\ locked' = TRUE /\ pending' = listeners /\ UNCHANGED <<tree, value>>
    BY <1>4 DEF LockListeners, vars, objectVars
  <2>2. ConfigTypeOK'
    BY <1>1, <2>1, Zenon DEF ConfigTypeOK
  <2>3. ListenersInv'
    BY <1>1, <2>1 DEF ListenersInv
  <2>4. ValuesInv'
    BY <2>1 DEF ValuesInv
  <2> QED
    BY <1>2, <2>2, <2>3, <2>4
<1>5. ASSUME NEW l \in pending, UpdateListener(l) PROVE ConfigInv'
  <2>1. /\ locked /\ pc = "update" /\ pending' = pending \ {l}
        /\ UNCHANGED <<tree, locked>>
    BY <1>5 DEF UpdateListener, ListenersInv
  <2>2. pc' = pc
    BY <1>5 DEF UpdateListener, OnUpdate, vars
  <2>3. \A k \in (1 .. N) \ pending' : threads'[k] = tree[k]
    <3>1. CASE l \in Objects
      BY <1>5, <2>1, <3>1, ConfigAssumption DEF UpdateListener, vars, ListenersInv
    <3>2. CASE l \notin Objects
      <4>1. threads' = [threads EXCEPT ![l] = tree[l]]
        BY <1>5, <3>2 DEF UpdateListener, OnUpdate
      <4> QED
        BY <2>1, <4>1 DEF ListenersInv, TypeOK
    <3> QED
      BY <3>1, <3>2
  <2>4. ConfigTypeOK'
    <3>1. value' \in [Objects -> ThreadCounts]
      BY <1>5 DEF UpdateListener, ConfigTypeOK
    <3> QED
      BY <1>1, <2>1, <3>1, Zenon DEF ConfigTypeOK
  <2>5. ListenersInv'
    BY <1>1, <2>1, <2>2, <2>3 DEF ListenersInv
  <2>6. ValuesInv'
    BY <2>1, <2>2 DEF ValuesInv
  <2> QED
    BY <1>2, <2>4, <2>5, <2>6
<1>6. CASE Invoked
  <2>1. /\ locked /\ pending = {} /\ pc = "update" /\ pc' = "clear" /\ locked' = FALSE
        /\ UNCHANGED <<threads, tree, pending, value>>
    BY <1>6 DEF Invoked, Loaded, objectVars
  <2>2. \A o \in Objects : stage[o] = "none"
    BY <1>0, <2>1 DEF LoadIsAlone
  <2>3. ConfigTypeOK'
    BY <1>1, <2>1, Zenon DEF ConfigTypeOK
  <2>4. ListenersInv'
    BY <1>1, <2>1 DEF ListenersInv
  <2>5. ValuesInv'
    BY <1>1, <2>1, <2>2 DEF ValuesInv, ListenersInv
  <2> QED
    BY <1>2, <2>3, <2>4, <2>5
<1> QED
  BY <1>3, <1>4, <1>5, <1>6

\* The constructor and the destructor of a value.
LEMMA ObjectSteps ==
  ASSUME TypeOK, PoolInv, ConfigInv, NEW o \in Objects, NEW k \in 1 .. N,
         Handler(o) \/ Register(o, k)
  PROVE  ConfigInv'
<1> USE DEF ConfigInv
<1>1. OneThreadEach'
  BY ObjectsCount
<1>2. UNCHANGED <<pc, threads, tree, locked, pending>>
  BY DEF Handler, ReadValue, Destroy, Unregister, Register, vars, loadVars
<1>3. CASE Register(o, k)
  <2>1. /\ ~locked /\ listeners' = listeners \cup {o} /\ UNCHANGED value
        /\ stage' = [stage EXCEPT ![o] = "registered"]
        /\ owner' = [owner EXCEPT ![o] = k] /\ stage[o] = "none"
    BY <1>3 DEF Register
  <2>2. ConfigTypeOK'
    <3>1. stage' \in [Objects -> Stages] /\ owner' \in [Objects -> 1 .. N]
      BY <2>1 DEF ConfigTypeOK, Stages
    <3> QED
      BY <1>2, <2>1, <3>1, Zenon DEF ConfigTypeOK
  <2>3. Existing' = Existing \cup {o}
    BY <2>1 DEF Existing, ConfigTypeOK
  <2>4. ListenersInv'
    BY <1>2, <2>1, <2>3 DEF ListenersInv
  <2>5. ValuesInv'
    BY <1>2, <2>1 DEF ValuesInv, ConfigTypeOK
  <2> QED
    BY <1>1, <2>2, <2>4, <2>5
<1>4. CASE ReadValue(o) \/ Destroy(o)
  <2>1. UNCHANGED <<listeners, owner>> /\ stage[o] # "none"
    BY <1>4 DEF ReadValue, Destroy
  <2>2. \E s \in Stages \ {"none"} : stage' = [stage EXCEPT ![o] = s]
    BY <1>4 DEF ReadValue, Destroy, Stages
  <2>3. ConfigTypeOK'
    <3>1. stage' \in [Objects -> Stages]
      BY <2>2, Zenon DEF ConfigTypeOK
    <3>2. value' \in [Objects -> ThreadCounts]
      BY <1>4 DEF ReadValue, Destroy, ConfigTypeOK
    <3> QED
      BY <1>2, <2>1, <3>1, <3>2, Zenon DEF ConfigTypeOK
  <2>4. Existing' = Existing
    BY <2>1, <2>2 DEF Existing, ConfigTypeOK
  <2>5. ListenersInv'
    BY <1>2, <2>1, <2>4 DEF ListenersInv
  <2>6. ValuesInv'
    <3> SUFFICES ASSUME pc # "update", NEW p \in Objects, stage'[p] = "built"
                 PROVE  value'[p] = tree[owner[p]]
      BY <1>2, <2>1 DEF ValuesInv
    <3>1. CASE ReadValue(o) /\ p = o
      BY <3>1 DEF ReadValue, ConfigTypeOK
    <3>2. CASE ~(ReadValue(o) /\ p = o)
      BY <1>4, <3>2 DEF ReadValue, Destroy, ValuesInv, ConfigTypeOK
    <3> QED
      BY <3>1, <3>2
  <2> QED
    BY <1>1, <2>3, <2>5, <2>6
<1>5. CASE Unregister(o)
  <2>1. /\ ~locked /\ listeners' = listeners \ {o} /\ UNCHANGED <<owner, value>>
        /\ stage' = [stage EXCEPT ![o] = "none"]
    BY <1>5 DEF Unregister
  <2>2. ConfigTypeOK'
    <3>1. stage' \in [Objects -> Stages]
      BY <2>1 DEF ConfigTypeOK, Stages
    <3> QED
      BY <1>2, <2>1, <3>1, Zenon DEF ConfigTypeOK
  <2>3. Existing' = Existing \ {o}
    BY <2>1 DEF Existing, ConfigTypeOK
  <2>4. ListenersInv'
    BY <1>2, <2>1, <2>3, ConfigAssumption DEF ListenersInv
  <2>5. ValuesInv'
    BY <1>2, <2>1 DEF ValuesInv, ConfigTypeOK
  <2> QED
    BY <1>1, <2>2, <2>4, <2>5
<1> QED
  BY <1>3, <1>4, <1>5 DEF Handler

\* Every step preserves the invariant.
LEMMA NextConfig ==
  ASSUME TypeOK, PoolInv, ConfigInv, [ConfigNext]_allVars
  PROVE  ConfigInv'
<1>1. CASE Running /\ UNCHANGED configVars
  <2>1. UNCHANGED threads /\ ((pc = "update") <=> (pc' = "update"))
    BY <1>1 DEF Running, Restart, StartWorker, Started, Join, Check, Clear, Return
  <2>2. StartWorker \/ UNCHANGED running
    BY <1>1 DEF Running, Restart, Started, Join, Check, Clear, poolVars
  <2>3. OneThreadEach'
    BY <1>1, <2>2, MainCount DEF configVars, objectVars, ConfigInv
  <2> QED
    BY <1>1, <2>1, <2>3, Frame DEF ConfigInv
<1>2. CASE ReadInfo \/ LockListeners \/ Invoked \/ \E l \in pending : UpdateListener(l)
  BY <1>2, LoadSteps
<1>3. ASSUME NEW o \in Objects, Handler(o) \/ \E k \in 1 .. N : Register(o, k) PROVE ConfigInv'
  <2>1. 1 \in 1 .. N
    BY MainAssumption
  <2> QED
    BY <1>3, <2>1, ObjectSteps
<1>4. ASSUME NEW k \in 1 .. N, IdleWorkerEnds(k) PROVE ConfigInv'
  <2>1. UNCHANGED <<configVars, threads, pc>>
    BY <1>4 DEF IdleWorkerEnds, WorkerEnds
  <2>2. OneThreadEach'
    BY <1>4, WorkersCount DEF ConfigInv
  <2> QED
    BY <2>1, <2>2, Frame DEF ConfigInv
<1>5. ASSUME UNCHANGED <<configVars, threads, pc, running>> PROVE ConfigInv'
  <2>1. OneThreadEach'
    BY <1>5, MainCount DEF configVars, objectVars, ConfigInv
  <2> QED
    BY <1>5, <2>1, Frame DEF ConfigInv
<1>6. \A s \in Signals : HandleSignal(s) => UNCHANGED <<configVars, threads, pc, running>>
  BY DEF HandleSignal, Raise, StopInstance, poolVars
<1>7. UNCHANGED allVars => UNCHANGED <<configVars, threads, pc, running>>
  BY DEF allVars, vars, poolVars
<1> QED
  BY <1>1, <1>2, <1>3, <1>4, <1>5, <1>6, <1>7 DEF ConfigNext, MainThread

--------------------------------------------------------------------------------

\* The whole invariant, the pool's included, in every reachable state.
THEOREM ConfigCorrect == ConfigSpec => [](TypeOK /\ PoolInv /\ ConfigInv)
<1>1. ConfigInit => Init /\ ConfigInv
  <2> SUFFICES ASSUME ConfigInit PROVE ConfigInv
    BY DEF ConfigInit
  <2>1. 1 \in 1 .. N
    BY MainAssumption
  <2>2. ConfigTypeOK
    <3>1. tree \in [1 .. N -> ThreadCounts] /\ value \in [Objects -> ThreadCounts]
      BY <2>1 DEF ConfigInit, Init
    <3>2. stage \in [Objects -> Stages] /\ owner \in [Objects -> 1 .. N]
      BY <2>1 DEF ConfigInit, Stages
    <3> QED
      BY <3>1, <3>2, Zenon DEF ConfigInit, ConfigTypeOK
  <2>3. \A o \in Objects : stage[o] = "none"
    BY DEF ConfigInit
  <2>4. OneThreadEach
    <3> SUFFICES ASSUME NEW k \in 1 .. N PROVE Cardinality(Busy(k)) <= running[k]
      BY DEF OneThreadEach
    <3>1. Busy(k) = {}
      BY <2>3 DEF Busy
    <3> QED
      BY <3>1, FS_EmptySet DEF ConfigInit, Init
  <2>5. ListenersInv
    BY <2>3 DEF ConfigInit, ListenersInv, Existing
  <2>6. ValuesInv
    BY <2>3 DEF ConfigInit, ValuesInv
  <2> QED
    BY <2>2, <2>4, <2>5, <2>6 DEF ConfigInv
<1>2. Init => TypeOK /\ PoolInv
  BY InitMain
<1>3. TypeOK /\ PoolInv /\ ConfigInv /\ [ConfigNext]_allVars => (TypeOK /\ PoolInv /\ ConfigInv)'
  BY NextConfig, StepIsMain, NextType, NextPool DEF ConfigInv
<1> QED
  BY <1>1, <1>2, <1>3, PTL DEF ConfigSpec

\* The server with its configuration implements FrontMain, so what is proved of
\* main and its pool holds while handlers build values and load() updates them.
THEOREM ImplementsMain == ConfigSpec => Spec
<1>1. ConfigInit => Init
  BY DEF ConfigInit
<1>2. ConfigInv /\ [ConfigNext]_allVars => [Next]_vars
  BY StepIsMain DEF ConfigInv
<1> QED
  BY <1>1, <1>2, ConfigCorrect, PTL DEF ConfigSpec, Spec

\* No value is being built or destroyed while load() runs.
THEOREM LoadRunsAlone == ConfigSpec => []LoadIsAlone
<1>1. TypeOK /\ PoolInv /\ ConfigInv => LoadIsAlone
  BY LoadAlone DEF ConfigInv
<1> QED
  BY <1>1, ConfigCorrect, PTL

\* Outside load() every value is what the tree says, and the listeners are the
\* values that exist.
THEOREM ValuesAreFresh == ConfigSpec => []Fresh
<1>1. ConfigInv => Fresh
  BY DEF ConfigInv, ListenersInv, ValuesInv, Existing, Fresh
<1> QED
  BY <1>1, ConfigCorrect, PTL

\* "Asio stopped without signal" only ends a server that has no threads, or that
\* got a signal while it was not up; with the configuration's steps too.
THEOREM ConfigWithoutSignal == ConfigSpec => []WithoutSignal
  BY ImplementsMain, StopsWithoutSignal, PTL
================================================================================
