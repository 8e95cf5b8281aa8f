------------------------------ MODULE ClusterLink ------------------------------
(***************************************************************************)
(* The two ends of one connection between servers of a cluster             *)
(* (server/common/src/cluster/ClusterConnection.cpp) and the TCP streams   *)
(* between them.  As in WsConnection a handler is one step of its          *)
(* connection's strand, and an asynchronous operation is "idle",           *)
(* "pending", or the code that its queued handler carries.                 *)
(*                                                                         *)
(* A message is the sequence of its bytes; a byte is a digit below Base,   *)
(* and the length prefix is PrefixSize digits, least significant first (4  *)
(* bytes of base 256 in the code).  What is on its way to a peer is a      *)
(* sequence of TLS records, close_notify alerts and stretches of clear     *)
(* bytes.  timer_ is never armed and downgraded_ never set.                *)
(*                                                                         *)
(* on_ssl_handshake sends a handshake that is still to be written: the     *)
(* code takes the size of an empty Message there, a null pointer, which    *)
(* HandshakeSize = 0 stands for.                                           *)
(***************************************************************************)
EXTENDS Naturals, Sequences

CONSTANTS
  PrefixSize,     \* sizeof(in_message_len_)
  Base,           \* values of a byte
  HandshakeSize,  \* size of the handshake, 0 for the empty Message
  SafeLink,       \* values of safe_link in the configuration of each peer
  Sizes,          \* sizes of the messages
  ClientSends,    \* bounds: calls of send_message at each peer
  ServerSends,
  Faulty          \* whether the network, or a certificate, may fail

\* How many values n bytes have.
Values[n \in 0 .. PrefixSize] == IF n = 0 THEN 1 ELSE Base * Values[n - 1]

ASSUME LinkAssumption ==
  /\ PrefixSize \in Nat \ {0} /\ Base \in Nat \ {0, 1}
  /\ HandshakeSize \in 0 .. Values[PrefixSize] - 1
  /\ SafeLink \subseteq BOOLEAN /\ SafeLink # {}
  /\ Sizes \subseteq 0 .. Values[PrefixSize] - 1
  /\ ClientSends \in Nat /\ ServerSends \in Nat /\ Faulty \in BOOLEAN

VARIABLES
  conn,       \* the ClusterConnection at each peer
  safe_link,  \* safe_link_ at each peer
  net,        \* what is on its way to each peer
  fault,      \* the network has failed, or a certificate was refused
  crashed     \* a process has died

vars == <<conn, safe_link, net, fault, crashed>>

Peers == {"client", "server"}
Other(p) == IF p = "client" THEN "server" ELSE "client"
MaxSends(p) == IF p = "client" THEN ClientSends ELSE ServerSends

Byte == 0 .. Base - 1
Results == {"ok", "reset", "canceled", "error"}
OpStates == {"idle", "pending"} \cup Results

Connection == [
  dropped : BOOLEAN, shutting_down : BOOLEAN, is_writing : BOOLEAN,
  message_queue : Seq(Seq(Byte)),
  inbound : {"none", "ssl_handshake", "ian_handshake", "read"}, inbound_ec : OpStates,
  chunk : Seq(Byte),          \* what the queued read handler brings
  outbound : {"none", "ian_handshake", "message"}, write_ec : OpStates,
  shutdown_ec : {"idle", "pending", "done"},
  in_message_len : Nat, read_buffer : Seq(Byte),
  \* History: messages taken over by send_message, and processed.
  accepted : Seq(Seq(Byte)), processed : Seq(Seq(Byte)) ]

Segment == [kind : {"tls", "clear", "close"}, bytes : Seq(Byte)]

TypeOK ==
  /\ conn \in [Peers -> Connection]
  /\ safe_link \in [Peers -> BOOLEAN]
  /\ net \in [Peers -> Seq(Segment)]
  /\ fault \in BOOLEAN /\ crashed \in BOOLEAN

IsOpen(p) == ~conn[p].dropped /\ ~conn[p].shutting_down

\* No operation holds a reference any more: the connection is destroyed.
Released(p) ==
  conn[p].inbound_ec = "idle" /\ conn[p].write_ec = "idle" /\ conn[p].shutdown_ec = "idle"

\* The peers are connected and both have called run(): nothing is written
\* before the handshake.
Init ==
  /\ conn = [p \in Peers |-> [
       dropped |-> FALSE, shutting_down |-> FALSE, is_writing |-> TRUE,
       message_queue |-> <<>>,
       inbound |-> "ssl_handshake", inbound_ec |-> "pending", chunk |-> <<>>,
       outbound |-> "none", write_ec |-> "idle", shutdown_ec |-> "idle",
       in_message_len |-> 0, read_buffer |-> <<>>,
       accepted |-> <<>>, processed |-> <<>> ]]
  /\ safe_link \in [Peers -> SafeLink]
  /\ net = [p \in Peers |-> <<>>]
  /\ fault = FALSE /\ crashed = FALSE

--------------------------------------------------------------------------------
(* The length prefix and the loop that reads messages. *)

Drop(s, n) == SubSeq(s, n + 1, Len(s))

\* What is left of n without its first j digits.
Shifted(n) ==
  LET rest[j \in 0 .. PrefixSize] == IF j = 0 THEN n ELSE rest[j - 1] \div Base
  IN  rest

\* Mutant: the digits are not separated.
EncodeRaw(n) == [j \in 1 .. PrefixSize |-> Shifted(n)[j - 1]]

\* native_to_little of the size, cut to the width of the prefix.
Encode(n) == [j \in 1 .. PrefixSize |-> Shifted(n)[j - 1] % Base]

\* Mutant: the bytes are taken in network order.
DecodeBig(bytes) ==
  LET value[j \in 0 .. PrefixSize] ==
        IF j = 0 THEN 0 ELSE Base * value[j - 1] + bytes[j]
  IN  value[PrefixSize]

\* little_to_native_inplace of the first bytes, from the last of them on.
Decode(bytes) ==
  LET value[j \in 0 .. PrefixSize] ==
        IF j = 0 THEN 0 ELSE Base * value[j - 1] + bytes[PrefixSize + 1 - j]
  IN  value[PrefixSize]

\* The prefix is read unless it has been read before.
TakeLength(len, buffer) ==
  IF len = 0 THEN [len |-> Decode(buffer), buffer |-> Drop(buffer, PrefixSize)]
             ELSE [len |-> len, buffer |-> buffer]

\* Mutant: the length of the last message is kept.
RoundKeepsLength(r) ==
  IF r.end # "none" THEN r
  ELSE IF r.len = 0 /\ Len(r.buffer) < PrefixSize THEN [r EXCEPT !.end = "wait"]
  ELSE LET t == TakeLength(r.len, r.buffer) IN
       IF t.len = 0 THEN [r EXCEPT !.len = 0, !.buffer = t.buffer, !.end = "invalid"]
       ELSE IF Len(t.buffer) < t.len
       THEN [r EXCEPT !.len = t.len, !.buffer = t.buffer, !.end = "wait"]
       ELSE [len |-> t.len, buffer |-> Drop(t.buffer, t.len), end |-> "none",
             messages |-> Append(r.messages, SubSeq(t.buffer, 1, t.len))]

\* One round of the loop in on_read.
Round(r) ==
  IF r.end # "none" THEN r
  ELSE IF r.len = 0 /\ Len(r.buffer) < PrefixSize THEN [r EXCEPT !.end = "wait"]
  ELSE LET t == TakeLength(r.len, r.buffer) IN
       IF t.len = 0 THEN [r EXCEPT !.len = 0, !.buffer = t.buffer, !.end = "invalid"]
       ELSE IF Len(t.buffer) < t.len
       THEN [r EXCEPT !.len = t.len, !.buffer = t.buffer, !.end = "wait"]
       ELSE [len |-> 0, buffer |-> Drop(t.buffer, t.len), end |-> "none",
             messages |-> Append(r.messages, SubSeq(t.buffer, 1, t.len))]

\* The loop: every round but the last consumes a byte.
ReadLoop(len, buffer) ==
  LET rounds[n \in 0 .. Len(buffer) + 1] ==
        IF n = 0 THEN [len |-> len, buffer |-> buffer, messages |-> <<>>, end |-> "none"]
                 ELSE Round(rounds[n - 1])
  IN rounds[Len(buffer) + 1]

--------------------------------------------------------------------------------
(* Parts of handlers: each is the rest of a step that has brought the       *)
(* connection of p to c.                                                    *)

Becomes(p, c) == conn' = [conn EXCEPT ![p] = c]

Abort(p, c) ==
  /\ Becomes(p, IF c.dropped THEN c ELSE [c EXCEPT !.dropped = TRUE, !.message_queue = <<>>])
  /\ UNCHANGED net

\* async_shutdown sends a close_notify and waits for that of the peer.
Shutdown(p, c) ==
  IF c.dropped \/ c.shutting_down
  THEN Becomes(p, c) /\ UNCHANGED net
  ELSE /\ Becomes(p, [c EXCEPT !.shutting_down = TRUE, !.shutdown_ec = "pending",
                               !.message_queue = <<>>])
       /\ net' = [net EXCEPT ![Other(p)] = Append(@, [kind |-> "close", bytes |-> <<>>])]

HandleError(p, c, ec) ==
  CASE ec = "reset" -> Abort(p, c)
    [] ec = "canceled" -> Becomes(p, c) /\ UNCHANGED net
    [] ec = "error" -> Shutdown(p, c)

\* The prefix and the payload of a message, as one TLS record or as two.
Records(message) ==
  LET tls(bytes) == [kind |-> "tls", bytes |-> bytes]
      prefix == Encode(Len(message))
  IN {<<tls(prefix \o message)>>} \cup
     (IF message = <<>> THEN {} ELSE {<<tls(prefix), tls(message)>>})

\* Clear bytes have no boundaries.
Flow(segments, bytes) ==
  IF segments # <<>> /\ segments[Len(segments)].kind = "clear"
  THEN [segments EXCEPT ![Len(segments)].bytes = @ \o bytes]
  ELSE Append(segments, [kind |-> "clear", bytes |-> bytes])

\* async_write of a message, which the peer may read before it completes.
AsyncWrite(p, c, handler, message, safe) ==
  /\ Becomes(p, [c EXCEPT !.outbound = handler, !.write_ec = "pending"])
  /\ IF c.dropped THEN UNCHANGED net
     ELSE IF safe
     THEN \E records \in Records(message) : net' = [net EXCEPT ![Other(p)] = @ \o records]
     ELSE net' = [net EXCEPT ![Other(p)] = Flow(@, Encode(Len(message)) \o message)]

DoWriteMessage(p, c, message) == AsyncWrite(p, c, "message", message, safe_link[p])

\* Mutant: is_writing_ is cleared although the next write has started.
WriteNextEager(p, c) ==
  LET idle == [c EXCEPT !.is_writing = FALSE] IN
  IF c.message_queue # <<>>
  THEN DoWriteMessage(p, [idle EXCEPT !.message_queue = Tail(@)], Head(c.message_queue))
  ELSE Becomes(p, idle) /\ UNCHANGED net

\* Mutant: the queue is left to the next send_message.
WriteNextStops(p, c) == Becomes(p, [c EXCEPT !.is_writing = FALSE]) /\ UNCHANGED net

\* The end of on_ian_handshake and of on_write_message.
WriteNext(p, c) ==
  IF c.message_queue # <<>>
  THEN DoWriteMessage(p, [c EXCEPT !.message_queue = Tail(@)], Head(c.message_queue))
  ELSE Becomes(p, [c EXCEPT !.is_writing = FALSE]) /\ UNCHANGED net

StartRead(c, handler) == [c EXCEPT !.inbound = handler, !.inbound_ec = "pending", !.chunk = <<>>]
EndRead(c) == [c EXCEPT !.inbound = "none", !.inbound_ec = "idle", !.chunk = <<>>]
EndWrite(c) == [c EXCEPT !.outbound = "none", !.write_ec = "idle"]

--------------------------------------------------------------------------------
(* Asynchronous operations completing. *)

\* How an operation of p may fail: on its own closed socket, because of the
\* network, and, once async_shutdown has been called, in the SSL layer.
Failures(p) ==
  IF conn[p].dropped THEN {"error"}
  ELSE (IF fault \/ conn[Other(p)].dropped THEN {"reset", "error"} ELSE {}) \cup
       (IF conn[p].shutting_down THEN {"canceled"} ELSE {})

\* async_handshake: both certificates are verified.
CompleteSslHandshake(p) ==
  /\ conn[p].inbound = "ssl_handshake" /\ conn[p].inbound_ec = "pending"
  /\ \E ec \in Failures(p) \cup (IF conn[Other(p)].dropped THEN {} ELSE {"ok"}) :
       Becomes(p, [conn[p] EXCEPT !.inbound_ec = ec])
  /\ UNCHANGED <<safe_link, net, fault, crashed>>

\* What is left of the stream after n bytes of its first segment.
Consume(segments, n) ==
  IF n = Len(Head(segments).bytes) THEN Tail(segments)
  ELSE [segments EXCEPT ![1].bytes = Drop(@, n)]

\* The SSL stream takes from the socket whatever is there.  Records wait in its
\* buffer; clear bytes behind them are lost to the reads of the bare socket.
Overread(p, segments) ==
  IF safe_link[p] \/ segments = <<>> \/ Head(segments).kind # "clear" THEN {segments}
  ELSE {segments} \cup {Consume(segments, n) : n \in 1 .. Len(Head(segments).bytes)}

Received(p, bytes) == Becomes(p, [conn[p] EXCEPT !.inbound_ec = "ok", !.chunk = bytes])

\* How much of a record a read of the SSL stream takes: as much as the first
\* free part of read_buffer_ holds.  The buffer is new at the first read, and
\* larger than a record.
Portions(c, record) ==
  IF c.inbound = "ian_handshake" /\ c.in_message_len = 0
  THEN {Len(record.bytes)} ELSE 1 .. Len(record.bytes)

\* A read through the SSL stream; a close_notify reads as the end of the file.
ReadSafe(p) ==
  LET c == conn[p]
      segment == Head(net[p])
  IN CASE segment.kind = "tls" ->
            \E n \in Portions(c, segment) :
              /\ Received(p, SubSeq(segment.bytes, 1, n))
              /\ \E rest \in Overread(p, Consume(net[p], n)) : net' = [net EXCEPT ![p] = rest]
       [] segment.kind = "clear" -> Becomes(p, [c EXCEPT !.inbound_ec = "error"]) /\ UNCHANGED net
       [] segment.kind = "close" -> Becomes(p, [c EXCEPT !.inbound_ec = "reset"]) /\ UNCHANGED net

\* A read of the bare socket, where a TLS record means nothing.
ReadClear(p) ==
  LET segment == Head(net[p])
  IN IF segment.kind = "clear"
     THEN \E n \in 1 .. Len(segment.bytes) :
            /\ Received(p, SubSeq(segment.bytes, 1, n))
            /\ net' = [net EXCEPT ![p] = Consume(@, n)]
     ELSE \E bytes \in [1 .. PrefixSize -> Byte] :
            Received(p, bytes) /\ net' = [net EXCEPT ![p] = Tail(@)]

CompleteRead(p) ==
  /\ conn[p].inbound \in {"ian_handshake", "read"} /\ conn[p].inbound_ec = "pending"
  /\ \/ /\ net[p] # <<>> /\ ~conn[p].dropped
        /\ IF conn[p].inbound = "ian_handshake" \/ safe_link[p] THEN ReadSafe(p) ELSE ReadClear(p)
     \/ /\ \E ec \in Failures(p) : Becomes(p, [conn[p] EXCEPT !.inbound_ec = ec])
        /\ UNCHANGED net
  /\ UNCHANGED <<safe_link, fault, crashed>>

CompleteWrite(p) ==
  /\ conn[p].write_ec = "pending"
  /\ \E ec \in Failures(p) \cup (IF conn[p].dropped THEN {} ELSE {"ok"}) :
       Becomes(p, [conn[p] EXCEPT !.write_ec = ec])
  /\ UNCHANGED <<safe_link, net, fault, crashed>>

\* async_shutdown completes when something comes from the peer, or it is gone.
CompleteShutdown(p) ==
  /\ conn[p].shutdown_ec = "pending"
  /\ net[p] # <<>> \/ Failures(p) # {"canceled"}
  /\ Becomes(p, [conn[p] EXCEPT !.shutdown_ec = "done"])
  /\ UNCHANGED <<safe_link, net, fault, crashed>>

Fail ==
  /\ Faulty /\ ~fault
  /\ fault' = TRUE
  /\ UNCHANGED <<conn, safe_link, net, crashed>>

--------------------------------------------------------------------------------
(* Calls from outside and handlers. *)

\* The lambda that send_message posts, with the n-th message at this peer.
SendMessage(p, size) ==
  LET c == conn[p]
      n == Len(c.accepted) + 1
      message == [k \in 1 .. size |-> n % Base]
  IN /\ ~Released(p) /\ n <= MaxSends(p)
     /\ IsOpen(p)
     /\ LET taken == [c EXCEPT !.accepted = Append(@, message)]
        IN IF ~c.is_writing
           THEN DoWriteMessage(p, [taken EXCEPT !.is_writing = TRUE], message)
           ELSE /\ Becomes(p, [taken EXCEPT !.message_queue = Append(@, message)])
                /\ UNCHANGED net
     /\ UNCHANGED <<safe_link, fault, crashed>>

\* The size of the empty Message is read through a null pointer: the process
\* dies and its sockets are closed.
OnSslHandshake(p) ==
  LET c == EndRead(conn[p]) IN
  /\ conn[p].inbound = "ssl_handshake" /\ conn[p].inbound_ec \in Results
  /\ IF conn[p].inbound_ec # "ok" THEN Abort(p, c) /\ UNCHANGED crashed
     ELSE IF HandshakeSize = 0 THEN Abort(p, c) /\ crashed' = TRUE
     ELSE /\ AsyncWrite(p, c, "ian_handshake", [k \in 1 .. HandshakeSize |-> 0], TRUE)
          /\ UNCHANGED crashed
  /\ UNCHANGED <<safe_link, fault>>

OnIanHandshakeSent(p) ==
  LET c == EndWrite(conn[p]) IN
  /\ conn[p].outbound = "ian_handshake" /\ conn[p].write_ec \in Results
  /\ IF conn[p].write_ec # "ok" THEN HandleError(p, c, conn[p].write_ec)
     ELSE Becomes(p, StartRead(c, "ian_handshake")) /\ UNCHANGED net
  /\ UNCHANGED <<safe_link, fault, crashed>>

\* on_ian_handshake with data: it is read again until exactly the handshake is
\* there; anything else closes the connection.
IanHandshakeData(p, c) ==
  LET buffer == c.read_buffer \o c.chunk
      t == TakeLength(c.in_message_len, buffer)
      size == Len(t.buffer)
      too_short == c.in_message_len = 0 /\ Len(buffer) < PrefixSize
  IN IF too_short \/ t.len = 0 \/ size > t.len
     THEN Shutdown(p, EndRead(c))
     ELSE IF size < t.len
     THEN /\ Becomes(p, StartRead([c EXCEPT !.in_message_len = t.len, !.read_buffer = t.buffer],
                                  "ian_handshake"))
          /\ UNCHANGED net
     ELSE WriteNext(p, StartRead([c EXCEPT !.in_message_len = 0, !.read_buffer = <<>>], "read"))

OnIanHandshake(p) ==
  LET c == conn[p] IN
  /\ c.inbound = "ian_handshake" /\ c.inbound_ec \in Results
  /\ IF c.inbound_ec # "ok" THEN HandleError(p, EndRead(c), c.inbound_ec)
     ELSE IanHandshakeData(p, c)
  /\ UNCHANGED <<safe_link, fault, crashed>>

\* Mutant: an error is logged and the next read started.
OnReadRetries(p) ==
  LET c == conn[p]
      r == ReadLoop(c.in_message_len, c.read_buffer \o c.chunk)
      after == [c EXCEPT !.in_message_len = r.len, !.read_buffer = r.buffer,
                         !.processed = @ \o r.messages]
  IN /\ c.inbound = "read" /\ c.inbound_ec \in Results
     /\ IF c.inbound_ec # "ok" THEN HandleError(p, StartRead(c, "read"), c.inbound_ec)
        ELSE IF r.end = "invalid" THEN Shutdown(p, EndRead(after))
        ELSE Becomes(p, StartRead(after, "read")) /\ UNCHANGED net
     /\ UNCHANGED <<safe_link, fault, crashed>>

OnRead(p) ==
  LET c == conn[p]
      r == ReadLoop(c.in_message_len, c.read_buffer \o c.chunk)
      after == [c EXCEPT !.in_message_len = r.len, !.read_buffer = r.buffer,
                         !.processed = @ \o r.messages]
  IN /\ c.inbound = "read" /\ c.inbound_ec \in Results
     /\ IF c.inbound_ec # "ok" THEN HandleError(p, EndRead(c), c.inbound_ec)
        ELSE IF r.end = "invalid" THEN Shutdown(p, EndRead(after))
        ELSE Becomes(p, StartRead(after, "read")) /\ UNCHANGED net
     /\ UNCHANGED <<safe_link, fault, crashed>>

OnWriteMessage(p) ==
  LET c == EndWrite(conn[p]) IN
  /\ conn[p].outbound = "message" /\ conn[p].write_ec \in Results
  /\ IF conn[p].write_ec # "ok" THEN HandleError(p, c, conn[p].write_ec) ELSE WriteNext(p, c)
  /\ UNCHANGED <<safe_link, fault, crashed>>

OnShutdown(p) ==
  /\ conn[p].shutdown_ec = "done"
  /\ Becomes(p, [conn[p] EXCEPT !.shutdown_ec = "idle", !.dropped = TRUE])
  /\ UNCHANGED <<safe_link, net, fault, crashed>>

--------------------------------------------------------------------------------
Handlers(p) ==
  \/ OnSslHandshake(p) \/ OnIanHandshakeSent(p) \/ OnIanHandshake(p)
  \/ OnRead(p) \/ OnWriteMessage(p) \/ OnShutdown(p)

Next ==
  \/ \E p \in Peers :
       \/ CompleteSslHandshake(p) \/ CompleteRead(p) \/ CompleteWrite(p) \/ CompleteShutdown(p)
       \/ Handlers(p)
       \/ \E size \in Sizes : SendMessage(p, size)
  \/ Fail

Spec == Init /\ [][Next]_vars

\* The asio threads run the queued handlers, and TCP delivers what is sent or
\* reports that it cannot.
Fairness ==
  \A p \in Peers :
    /\ WF_vars(Handlers(p))
    /\ WF_vars(CompleteSslHandshake(p)) /\ WF_vars(CompleteRead(p))
    /\ WF_vars(CompleteWrite(p)) /\ WF_vars(CompleteShutdown(p))

FairSpec == Spec /\ Fairness

--------------------------------------------------------------------------------
\* Both peers have safe_link configured.
Safe == \A p \in Peers : safe_link[p]

\* Through both queues, both prefixes and any division of the stream into reads,
\* a peer on a safe link processes the messages that the other one has accepted,
\* whole, in order and none twice; a lost connection only cuts the tail off
\* (do_write_message, on_read).
InOrder ==
  Safe => \A p \in Peers :
    LET got == conn[p].processed
        given == conn[Other(p)].accepted
    IN Len(got) <= Len(given) /\ got = SubSeq(given, 1, Len(got))

\* Between two peers of this code, with a safe link, none of the checks on the
\* handshake and on the lengths ever closes a connection: it takes a fault
\* (on_ian_handshake, on_read).
Undisturbed == Safe => fault \/ \A p \in Peers : IsOpen(p)

\* out_message_len_le_ and message_outbound_ belong to one write at a time: while
\* a connection is open is_writing_ is set from run() until the handshake is
\* over and around every write, and a message is queued only meanwhile.
WriterAwake ==
  \A p \in Peers : IsOpen(p) =>
    LET c == conn[p] IN
    /\ c.is_writing <=> c.inbound # "read" \/ c.write_ec # "idle"
    /\ c.message_queue # <<>> => c.is_writing

\* A message handed to send_message is processed by the other peer, unless the
\* connection fails; also one that was queued before the handshake.
Delivered ==
  \A p \in Peers : \A n \in 1 .. MaxSends(p) :
    Len(conn[p].accepted) >= n ~> (Len(conn[Other(p)].processed) >= n \/ fault)

\* When the network fails, or one end has closed, both connections are destroyed:
\* no operation keeps a reference for ever (abort, shutdown, on_shutdown).
BothReleased == (fault \/ \E p \in Peers : ~IsOpen(p)) ~> \A p \in Peers : Released(p)
================================================================================
