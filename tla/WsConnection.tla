----------------------------- MODULE WsConnection -----------------------------
(***************************************************************************)
(* One client connection of the front server                               *)
(* (server/front/src/ws/WsConnection.cpp).                                 *)
(*                                                                         *)
(* Every handler runs on the connection's strand, so a handler is one      *)
(* step.  What interleaves is the rest: an asynchronous operation is       *)
(* started by a handler ("pending"), completes at some later moment with   *)
(* an error code, and only then is its handler queued on the strand; other *)
(* handlers may run between the completion and the handler, and cancelling *)
(* an operation that has completed changes nothing.  An operation variable *)
(* is therefore "idle", "pending", or the code its queued handler carries. *)
(* A completed operation is taken to the strand by whichever thread of the *)
(* io_context picks it up, so no order is assumed between the handlers of  *)
(* different operations.                                                   *)
(*                                                                         *)
(* Error codes are reduced to what the code tells apart: "reset"           *)
(* (is_connection_reset_error), "canceled" (is_connection_canceled_error)  *)
(* and every other "error".  A handler of a cancelled timer wait carries   *)
(* operation_aborted and returns at once, so it is left out.               *)
(*                                                                         *)
(* The socket is closed exactly where dropped_ is set, so                  *)
(* socket_.is_open() is ~dropped.  state_timer_ is never armed             *)
(* (set_state_timeout has no caller) and on_control_frame is not           *)
(* registered; neither is modelled.                                        *)
(***************************************************************************)
EXTENDS Naturals, Sequences, RateLimit

CONSTANTS
  ws_setup_timeout,  \* front::ws_setup_timeout, in clock ticks
  ws_timeout,        \* front::ws_timeout, in clock ticks
  Slack,             \* the 5 seconds added to ws_timeout
  Lengths,           \* lengths of the messages the client may send
  MaxSends           \* bound: how often send_message is called

ASSUME ConnectionAssumption ==
  /\ ws_setup_timeout \in Nat
  /\ ws_timeout \in Nat
  /\ Slack \in Nat \ {0}
  /\ Lengths \subseteq Nat
  /\ MaxSends \in Nat

VARIABLES
  dropped, shutting_down, is_writing,
  message_queue,     \* what MessageQueue promises: messages, oldest first
  message_outbound,  \* the message being written, 0 for the empty Message
  inbound,           \* the handler the reading side waits for, or "none"
  inbound_ec, write_ec, shutdown_ec,  \* the three operations
  upgraded,          \* stream_ has completed its websocket handshake
  timer,             \* timer_ has a wait outstanding: "armed" or "off"
  expiry,            \* ticks until the expiry time of timer_
  expired,           \* an on_timeout without error is queued on the strand
  rate,              \* the rate limiter's counters
  posted,            \* lambdas send_message has posted to the strand
  sent,              \* how often send_message was called; the last message
  \* History, not in the code:
  accepted,          \* messages taken over by the posted lambda
  written,           \* messages handed to async_write
  silence,           \* ticks since the last message (or the handshake)
  late               \* messages processed after the connection was dropped

closeVars == <<dropped, shutting_down, shutdown_ec, message_queue, timer, expiry>>
writeVars == <<is_writing, message_outbound, write_ec, written>>
readVars == <<inbound, inbound_ec, upgraded, rate, silence, late>>
sendVars == <<posted, sent, accepted>>
vars == <<closeVars, writeVars, readVars, sendVars, expired>>

Handshakes == {"ssl_handshake", "read_request", "ws_handshake"}
Results == {"ok", "reset", "canceled", "error"}
OpStates == {"idle", "pending"} \cup Results

TypeOK ==
  /\ dropped \in BOOLEAN /\ shutting_down \in BOOLEAN /\ is_writing \in BOOLEAN
  /\ message_queue \in Seq(Nat)
  /\ message_outbound \in Nat
  /\ inbound \in Handshakes \cup {"none", "read"}
  /\ inbound_ec \in OpStates /\ write_ec \in OpStates /\ shutdown_ec \in OpStates
  /\ upgraded \in BOOLEAN
  /\ timer \in {"armed", "off"} /\ expiry \in Nat /\ expired \in BOOLEAN
  /\ rate \in Counters
  /\ posted \in Seq(Nat) /\ sent \in Nat
  /\ accepted \in Seq(Nat) /\ written \in Seq(Nat)
  /\ silence \in Nat /\ late \in Nat

\* The connection is neither closed nor closing.
Open == ~dropped /\ ~shutting_down

\* No operation, timer or posted lambda holds a shared_ptr any more: the
\* destructor has run and the connection no longer counts.
Released ==
  /\ inbound_ec = "idle" /\ write_ec = "idle" /\ shutdown_ec = "idle"
  /\ timer = "off" /\ ~expired
  /\ posted = <<>>

\* The constructor followed by run().
Init ==
  /\ dropped = FALSE /\ shutting_down = FALSE /\ is_writing = FALSE
  /\ message_queue = <<>> /\ message_outbound = 0
  /\ inbound = "ssl_handshake" /\ inbound_ec = "pending"
  /\ write_ec = "idle" /\ shutdown_ec = "idle"
  /\ upgraded = FALSE
  /\ timer = "armed" /\ expiry = ws_setup_timeout /\ expired = FALSE
  /\ rate = ZeroCounters
  /\ posted = <<>> /\ sent = 0 /\ accepted = <<>> /\ written = <<>>
  /\ silence = 0 /\ late = 0

--------------------------------------------------------------------------------
(* Parts of handlers.  Abort, Shutdown and HandleError constrain closeVars. *)

CancelTimer == timer' = "off" /\ UNCHANGED expiry

FullTimeout == ws_timeout + Slack

\* Mutant: the wait is cancelled after it was started.
SetTimeoutSwapped(delay) == timer' = "off" /\ expiry' = delay

SetTimeout(delay) == timer' = "armed" /\ expiry' = delay

\* Mutant: off by one in the comparison.
ResetTimeoutLate ==
  IF expiry < ws_timeout THEN SetTimeout(FullTimeout) ELSE UNCHANGED <<timer, expiry>>

\* "Reset timeout if required", at the end of on_read.
ResetTimeoutIfRequired ==
  IF expiry <= ws_timeout THEN SetTimeout(FullTimeout) ELSE UNCHANGED <<timer, expiry>>

Abort ==
  IF dropped
  THEN UNCHANGED closeVars
  ELSE /\ dropped' = TRUE
       /\ message_queue' = <<>>
       /\ CancelTimer
       /\ UNCHANGED <<shutting_down, shutdown_ec>>

Shutdown ==
  IF dropped \/ shutting_down
  THEN UNCHANGED closeVars
  ELSE /\ shutting_down' = TRUE
       /\ shutdown_ec' = "pending"
       /\ message_queue' = <<>>
       /\ CancelTimer
       /\ UNCHANGED dropped

HandleError(ec) ==
  CASE ec = "reset"    -> Abort
    [] ec = "canceled" -> UNCHANGED closeVars
    [] ec = "error"    -> Shutdown

StartInbound(handler) == inbound' = handler /\ inbound_ec' = "pending"

EndInbound == inbound' = "none" /\ inbound_ec' = "idle"

\* Mutant: the queue is a stack.
PushFront(message) == message_queue' = <<message>> \o message_queue

PushMessage(message) == message_queue' = Append(message_queue, message)

\* Beast refuses to write on a stream that is not an open websocket: such a
\* write completes at once with operation_aborted.
DoWriteMessage(message) ==
  /\ message_outbound' = message
  /\ write_ec' = IF upgraded THEN "pending" ELSE "error"
  /\ written' = Append(written, message)

\* Mutant: is_writing_ stays set when nothing is left to write.
WriteNextForgetful ==
  IF message_queue # <<>>
  THEN /\ DoWriteMessage(Head(message_queue))
       /\ message_queue' = Tail(message_queue)
       /\ UNCHANGED is_writing
  ELSE /\ message_outbound' = 0 /\ write_ec' = "idle"
       /\ UNCHANGED <<is_writing, written, message_queue>>

\* Mutant: is_writing_ is cleared although the next write has started.
WriteNextEager ==
  /\ is_writing' = FALSE
  /\ IF message_queue # <<>>
     THEN DoWriteMessage(Head(message_queue)) /\ message_queue' = Tail(message_queue)
     ELSE /\ message_outbound' = 0 /\ write_ec' = "idle"
          /\ UNCHANGED <<written, message_queue>>

\* Mutant: the queue is left to the next send_message.
WriteNextStops ==
  /\ is_writing' = FALSE
  /\ message_outbound' = 0 /\ write_ec' = "idle"
  /\ UNCHANGED <<written, message_queue>>

\* "Write next message", at the end of on_write_message.
WriteNext ==
  IF message_queue # <<>>
  THEN /\ DoWriteMessage(Head(message_queue))
       /\ message_queue' = Tail(message_queue)
       /\ UNCHANGED is_writing
  ELSE /\ message_outbound' = 0 /\ write_ec' = "idle"
       /\ is_writing' = FALSE
       /\ UNCHANGED <<written, message_queue>>

--------------------------------------------------------------------------------
(* Asynchronous operations completing.  On a closed socket they fail; the   *)
(* SSL layer answers "canceled" only once async_shutdown has been started.  *)

\* Mutant: abort() shuts the socket down for sending only.
OutcomesHalfOpen ==
  IF shutting_down THEN Results ELSE Results \ {"canceled"}

\* Mutant: abort() does not close the socket, what is outstanding hangs.
OutcomesNotClosed ==
  IF dropped THEN {} ELSE IF shutting_down THEN Results ELSE Results \ {"canceled"}

Outcomes ==
  IF dropped THEN {"error"}
  ELSE IF shutting_down THEN Results
  ELSE Results \ {"canceled"}

CompleteInbound ==
  /\ inbound_ec = "pending"
  /\ inbound_ec' \in Outcomes
  /\ upgraded' = (upgraded \/ (inbound = "ws_handshake" /\ inbound_ec' = "ok"))
  /\ UNCHANGED <<closeVars, writeVars, inbound, rate, silence, late, sendVars, expired>>

CompleteWrite ==
  /\ write_ec = "pending"
  /\ write_ec' \in Outcomes
  /\ UNCHANGED <<closeVars, is_writing, message_outbound, written, readVars, sendVars, expired>>

CompleteShutdown ==
  /\ shutdown_ec = "pending"
  /\ shutdown_ec' \in Outcomes
  /\ UNCHANGED <<dropped, shutting_down, message_queue, timer, expiry,
                 writeVars, readVars, sendVars, expired>>

\* The steady clock advances.  When timer_ reaches its expiry its handler is
\* queued, and a later cancel no longer stops it.  Several queued on_timeout
\* act as one: the first of them drops the connection.
Tick ==
  /\ ~Released
  /\ expiry' = IF expiry = 0 THEN 0 ELSE expiry - 1
  /\ timer' = IF expiry' = 0 THEN "off" ELSE timer
  /\ expired' = (expired \/ (timer = "armed" /\ expiry' = 0))
  /\ rate' = Older(rate)
  /\ silence' = IF silence > ws_timeout THEN silence ELSE silence + 1
  /\ UNCHANGED <<dropped, shutting_down, shutdown_ec, message_queue,
                 writeVars, inbound, inbound_ec, upgraded, late, sendVars>>

--------------------------------------------------------------------------------
(* Calls from outside and handlers. *)

\* send_message, on any thread that still has a reference.
SendMessage ==
  /\ ~Released
  /\ sent < MaxSends
  /\ sent' = sent + 1
  /\ posted' = Append(posted, sent + 1)
  /\ UNCHANGED <<closeVars, writeVars, readVars, accepted, expired>>

\* The lambda send_message posted.
RunSend ==
  /\ posted # <<>>
  /\ posted' = Tail(posted)
  /\ IF ~Open
     THEN UNCHANGED <<message_queue, writeVars, accepted>>
     ELSE /\ accepted' = Append(accepted, Head(posted))
          /\ IF ~is_writing
             THEN /\ is_writing' = TRUE
                  /\ DoWriteMessage(Head(posted))
                  /\ UNCHANGED message_queue
             ELSE /\ PushMessage(Head(posted))
                  /\ UNCHANGED writeVars
  /\ UNCHANGED <<dropped, shutting_down, shutdown_ec, timer, expiry,
                 readVars, sent, expired>>

OnWriteMessage ==
  /\ write_ec \in Results
  /\ IF write_ec # "ok"
     THEN /\ message_outbound' = 0 /\ write_ec' = "idle"
          /\ HandleError(write_ec)
          /\ UNCHANGED <<is_writing, written>>
     ELSE /\ WriteNext
          /\ UNCHANGED <<dropped, shutting_down, shutdown_ec, timer, expiry>>
  /\ UNCHANGED <<readVars, sendVars, expired>>

OnTimeout ==
  /\ expired
  /\ expired' = FALSE
  /\ Abort
  /\ UNCHANGED <<writeVars, readVars, sendVars>>

\* Mutant: the socket is left open after the SSL shutdown.
OnShutdownLeavesOpen ==
  /\ shutdown_ec \in Results
  /\ shutdown_ec' = "idle"
  /\ UNCHANGED <<dropped, shutting_down, message_queue, timer, expiry,
                 writeVars, readVars, sendVars, expired>>

\* Mutant: the end of the shutdown resets the wrong flag.
OnShutdownReopens ==
  /\ shutdown_ec \in Results
  /\ shutdown_ec' = "idle"
  /\ shutting_down' = FALSE
  /\ UNCHANGED <<dropped, message_queue, timer, expiry,
                 writeVars, readVars, sendVars, expired>>

OnShutdown ==
  /\ shutdown_ec \in Results
  /\ shutdown_ec' = "idle"
  /\ dropped' = TRUE
  /\ UNCHANGED <<shutting_down, message_queue, timer, expiry,
                 writeVars, readVars, sendVars, expired>>

OnSslHandshake ==
  /\ inbound = "ssl_handshake" /\ inbound_ec \in Results
  /\ IF inbound_ec = "ok"
     THEN StartInbound("read_request") /\ UNCHANGED closeVars
     ELSE EndInbound /\ Abort
  /\ UNCHANGED <<upgraded, rate, silence, late, writeVars, sendVars, expired>>

\* The request may be an upgrade or a plain one, and the server may be over
\* its soft limit: the two refusals write a short response and shut down.
OnReadRequest ==
  /\ inbound = "read_request" /\ inbound_ec \in Results
  /\ \/ inbound_ec # "ok" /\ EndInbound /\ HandleError(inbound_ec)
     \/ inbound_ec = "ok" /\ EndInbound /\ Shutdown
     \/ inbound_ec = "ok" /\ StartInbound("ws_handshake") /\ UNCHANGED closeVars
  /\ UNCHANGED <<upgraded, rate, silence, late, writeVars, sendVars, expired>>

OnWsHandshake ==
  /\ inbound = "ws_handshake" /\ inbound_ec \in Results
  /\ IF dropped
     THEN EndInbound /\ UNCHANGED <<closeVars, silence>>
     ELSE IF inbound_ec # "ok"
     THEN EndInbound /\ Shutdown /\ UNCHANGED silence
     ELSE /\ StartInbound("read")
          /\ SetTimeout(FullTimeout)
          /\ silence' = 0
          /\ UNCHANGED <<dropped, shutting_down, shutdown_ec, message_queue>>
  /\ UNCHANGED <<upgraded, rate, late, writeVars, sendVars, expired>>

OnReadError ==
  /\ inbound = "read" /\ inbound_ec \in Results \ {"ok"}
  /\ EndInbound
  /\ HandleError(inbound_ec)
  /\ UNCHANGED <<upgraded, rate, silence, late, writeVars, sendVars, expired>>

\* on_read with a message of len bytes: the rate limiter may abort, a text
\* message shuts down, a binary one is processed after the next read started.
OnReadMessage(len, binary) ==
  /\ inbound = "read" /\ inbound_ec = "ok"
  /\ LET charged == Charge(rate, len) IN
     IF RateKill(charged)
     THEN /\ rate' = charged
          /\ EndInbound
          /\ Abort
          /\ UNCHANGED <<silence, late>>
     ELSE /\ rate' = Checked(charged)
          /\ IF binary
             THEN /\ StartInbound("read")
                  /\ ResetTimeoutIfRequired
                  /\ silence' = 0
                  /\ late' = IF dropped THEN late + 1 ELSE late
                  /\ UNCHANGED <<dropped, shutting_down, shutdown_ec, message_queue>>
             ELSE EndInbound /\ Shutdown /\ UNCHANGED <<silence, late>>
  /\ UNCHANGED <<upgraded, writeVars, sendVars, expired>>

OnRead ==
  \/ OnReadError
  \/ \E len \in Lengths, binary \in BOOLEAN : OnReadMessage(len, binary)

Next ==
  \/ CompleteInbound \/ CompleteWrite \/ CompleteShutdown \/ Tick
  \/ SendMessage \/ RunSend \/ OnWriteMessage
  \/ OnTimeout \/ OnShutdown
  \/ OnSslHandshake \/ OnReadRequest \/ OnWsHandshake \/ OnRead

Spec == Init /\ [][Next]_vars

\* The asio threads run every queued handler and time passes.  Nothing is
\* assumed of the client: an operation on an open socket may never complete.
Fairness ==
  /\ WF_vars(RunSend \/ OnWriteMessage)
  /\ WF_vars(OnTimeout) /\ WF_vars(OnShutdown)
  /\ WF_vars(OnSslHandshake \/ OnReadRequest \/ OnWsHandshake \/ OnRead)
  /\ WF_vars(dropped /\ CompleteInbound)
  /\ WF_vars(dropped /\ CompleteWrite)
  /\ WF_vars(dropped /\ CompleteShutdown)
  /\ WF_vars(Tick)

FairSpec == Spec /\ Fairness

\* The client reads what it is sent and answers close_notify, or its TCP stack
\* reports that it is gone.
ClientResponds == WF_vars(CompleteWrite) /\ WF_vars(CompleteShutdown)

--------------------------------------------------------------------------------
(* Safety. *)

\* send_message keeps the order of the messages and loses none while the
\* connection is open: what the posted lambdas took over is what was handed to
\* async_write followed by the queue.  Afterwards the messages written are
\* still a prefix of those accepted (send_message, on_write_message).
InOrder ==
  /\ Open => accepted = written \o message_queue
  /\ Len(written) <= Len(accepted)
  /\ \A i \in 1 .. Len(written) : written[i] = accepted[i]

\* The writer never falls asleep over queued messages: while the connection is
\* open, is_writing_ holds exactly when a write is outstanding, and a message
\* waits in the queue only then (is_writing_ in send_message/on_write_message).
WriterAwake ==
  Open => /\ is_writing <=> write_ec # "idle"
          /\ message_queue # <<>> => is_writing

\* Two writes never overlap: async_write is started when none is outstanding,
\* or by the handler of the one before, so message_outbound_ is never replaced
\* under a write that still reads it.
OneWriteAtATime ==
  [][written' # written =>
       \/ write_ec = "idle"
       \/ write_ec = "ok" /\ posted' = posted]_vars

\* A connection that is neither closed nor closing is never forgotten: a read
\* or handshake is outstanding, and timer_ or a queued on_timeout guards it.
Watched ==
  Open => inbound_ec # "idle" /\ (timer = "armed" \/ expired)

\* abort() may find a completed read already queued, whose message on_read then
\* processes although dropped_ is set; it is at most one, since the next
\* async_read is started on a closed socket.
AtMostOneLateMessage == late <= 1

\* timer_ expires on an open websocket only after the client was silent for
\* more than ws_timeout, although on_read does not move the expiry for every
\* message ("Reset timeout if required").
ExpiresOnlyAfterSilence ==
  [][~expired /\ expired' /\ inbound = "read" => silence' > ws_timeout]_vars

\* The connection lives one ConnectionLife: a connection that closes never
\* becomes usable again, and no late handler revives a released one.
Life == INSTANCE ConnectionLife WITH
  stage <- IF Released THEN "gone"
           ELSE IF ~Open THEN "closing"
           ELSE IF upgraded THEN "open" ELSE "setup"

LifeSpec == Life!Spec

--------------------------------------------------------------------------------
(* Liveness. *)

\* A dropped connection is released whatever the client does, so
\* active_connection_count goes down again: every operation on the closed
\* socket fails, and a timer that a late on_read armed again still expires.
DroppedIsReleased == dropped ~> Released

\* A websocket whose client stays silent is not kept: after ws_timeout it gets
\* a message or is closed (on_timeout).
SilenceEnds ==
  (inbound = "read" /\ Open /\ silence > ws_timeout) ~> (silence = 0 \/ ~Open)

\* With a client that responds, the setup of a connection ends, the websocket
\* open or the connection released ("Timeout for connection setup", run()), and
\* every connection that starts to close is released (shutdown, on_shutdown).
\* It takes such a client, since shutdown() cancels the timers.
Settles ==
  ClientResponds => <>(upgraded \/ Released) /\ (shutting_down ~> Released)

\* With a client that responds, the queue drains or the connection closes
\* (on_write_message).
QueueDrains == ClientResponds => (message_queue # <<>> ~> message_queue = <<>>)
================================================================================
