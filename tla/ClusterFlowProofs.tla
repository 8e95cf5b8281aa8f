--------------------------- MODULE ClusterFlowProofs ---------------------------
(***************************************************************************)
(* The messages between two servers arrive in order, for any messages:     *)
(* every step of either connection keeps the streams of both directions.   *)
(*                                                                         *)
(* And the checks of the reader fail only after a fault: between two peers *)
(* of this code the stream is always one that on_ian_handshake and on_read *)
(* accept.                                                                 *)
(***************************************************************************)
EXTENDS ClusterStreamProofs

\* Both directions, when a step has brought the connection of p to c.
Linked(p, c) ==
  /\ Link(c, conn[Other(p)], net[Other(p)])
  /\ Link(conn[Other(p)], c, net[p])

\* Both directions, seen from one peer.
LEMMA FlowsAre ==
  ASSUME Flows, NEW p \in Peers
  PROVE  Linked(p, conn[p])
BY OtherPeer DEF Flows, Linked

\* Reads through the SSL stream, when both links are safe.
LEMMA SafeReadIs ==
  ASSUME TypeOK, NEW p \in Peers, safe_link[p] = TRUE, CompleteRead(p)
  PROVE  \/ /\ Failures(p) # {} \/ (net[p] # <<>> /\ Head(net[p]).kind # "tls")
            /\ \E ec \in Results \ {"ok"} : Becomes(p, [conn[p] EXCEPT !.inbound_ec = ec]) /\ UNCHANGED net
         \/ /\ net[p] # <<>> /\ ~conn[p].dropped
            /\ \E n \in Portions(conn[p], Head(net[p])) :
                 /\ Received(p, SubSeq(Head(net[p]).bytes, 1, n))
                 /\ net' = [net EXCEPT ![p] = Consume(net[p], n)]
<1> DEFINE segment == Head(net[p])
<1>1. \/ net[p] # <<>> /\ ~conn[p].dropped /\ ReadSafe(p)
      \/ \E ec \in Failures(p) : Becomes(p, [conn[p] EXCEPT !.inbound_ec = ec]) /\ UNCHANGED net
  BY DEF CompleteRead
<1>2. CASE \E ec \in Failures(p) : Becomes(p, [conn[p] EXCEPT !.inbound_ec = ec]) /\ UNCHANGED net
  <2>1. Failures(p) \subseteq Results \ {"ok"}
    BY DEF Failures, Results
  <2> QED
    BY <1>2, <2>1
<1>3. CASE net[p] # <<>> /\ ~conn[p].dropped /\ ReadSafe(p)
  <2>1. segment \in Segment
    BY <1>3, HeadTailProperties DEF TypeOK
  <2>2. segment.kind \in {"tls", "clear", "close"}
    BY <2>1 DEF Segment
  <2>3. CASE segment.kind = "tls"
    <3>1. \E n \in Portions(conn[p], segment) :
            /\ Received(p, SubSeq(segment.bytes, 1, n))
            /\ \E rest \in Overread(p, Consume(net[p], n)) : net' = [net EXCEPT ![p] = rest]
      BY Zenon, <1>3, <2>3 DEF ReadSafe
    <3>2. \A n : Overread(p, Consume(net[p], n)) = {Consume(net[p], n)}
      BY DEF Overread
    <3> QED
      BY Zenon, <1>3, <3>1, <3>2
  <2>4. CASE segment.kind # "tls"
    <3>1. \/ Becomes(p, [conn[p] EXCEPT !.inbound_ec = "error"]) /\ UNCHANGED net
          \/ Becomes(p, [conn[p] EXCEPT !.inbound_ec = "reset"]) /\ UNCHANGED net
      BY Zenon, <1>3, <2>2, <2>4 DEF ReadSafe
    <3>2. "error" \in Results \ {"ok"} /\ "reset" \in Results \ {"ok"}
      BY DEF Results
    <3> QED
      BY <1>3, <2>4, <3>1, <3>2
  <2> QED
    BY Zenon, <2>3, <2>4
<1> QED
  BY Zenon, <1>1, <1>2, <1>3

\* The kind of a link does not change.
LEMMA SafeStays ==
  ASSUME TypeOK, [Next]_vars
  PROVE  safe_link' = safe_link /\ (Safe' <=> Safe) /\ (Safe => \A p \in Peers : safe_link[p] = TRUE)
<1>1. UNCHANGED safe_link
  <2>1. ASSUME NEW p \in Peers, Handlers(p) PROVE UNCHANGED safe_link
    BY Zenon, <2>1 DEF Handlers, OnSslHandshake, OnIanHandshakeSent, OnIanHandshake, OnRead, OnWriteMessage, OnShutdown
  <2> QED
    BY Zenon, <2>1 DEF Next, vars, CompleteSslHandshake, CompleteRead, CompleteWrite, CompleteShutdown, SendMessage, Fail
<1>2. Safe' <=> Safe
  BY <1>1 DEF Safe
<1>3. Safe => \A p \in Peers : safe_link[p] = TRUE
  BY DEF Safe, TypeOK
<1> QED
  BY <1>1, <1>2, <1>3

\* Every step keeps both streams.
LEMMA NextFlow == TypeOK /\ LocalInv /\ FlowInv /\ [Next]_vars => FlowInv'
\* A step keeps the streams when both directions are kept.
<1>StepFlows. ASSUME TypeOK, NEW p \in Peers, NEW d \in Connection, Becomes(p, d),
            Link(d, conn[Other(p)], net'[Other(p)]), Link(conn[Other(p)], d, net'[p])
     PROVE  Flows'
  <2> USE <1>StepFlows
  <2>1. conn'[p] = d /\ conn'[Other(p)] = conn[Other(p)]
    BY BecomesType DEF TypeOK
  <2>2. Link(conn'[p], conn'[Other(p)], net'[Other(p)]) /\ Link(conn'[Other(p)], conn'[p], net'[p])
    BY <2>1
  <2>3. \A q \in Peers : q = p \/ (q = Other(p) /\ Other(q) = p)
    BY DEF Peers, Other
  <2>4. \A q \in Peers : Link(conn'[q], conn'[Other(q)], net'[Other(q)])
    BY <2>2, <2>3
  <2> QED
    BY <2>4 DEF Flows
\* A step that leaves the streams and what is read alone.
<1>KeepFlows. ASSUME TypeOK, NEW p \in Peers, NEW c \in Connection, Linked(p, c), NEW d \in Connection,
            Becomes(p, d), UNCHANGED net, KeepsSender(c, d), SameReads(c, d), d.outbound = c.outbound
     PROVE  Flows'
  <2> USE <1>KeepFlows
  <2>1. Link(d, conn[Other(p)], net[Other(p)])
    BY LinkKeepsSender DEF Linked
  <2>2. Link(conn[Other(p)], d, net[p])
    BY LinkSameReads DEF Linked
  <2> QED
    BY <2>1, <2>2, <1>StepFlows
\* abort() keeps the streams: what is lost was not sent.
<1>AbortFlows. ASSUME TypeOK, NEW p \in Peers, NEW c \in Connection, Linked(p, c),
            Becomes(p, Aborted(c)), UNCHANGED net
     PROVE  Flows'
  <2> USE <1>AbortFlows
  <2> DEFINE d == Aborted(c)
  <2>1. d \in Connection /\ SameReads(c, d) /\ SameWrites(c, d) /\ d.dropped /\ ~Live(d)
    BY AbortedIs
  <2>2. Becomes(p, d)
    OBVIOUS
  <2> HIDE DEF d
  <2>3. KeepsSender(c, d) /\ d.outbound = c.outbound
    BY <2>1 DEF KeepsSender, Silent, SameReads, SameWrites
  <2> QED
    BY <2>1, <2>2, <2>3, <1>KeepFlows
\* shutdown() keeps the streams.
<1>ShutdownFlows. ASSUME TypeOK, NEW p \in Peers, NEW c \in Connection, Linked(p, c), c.inbound # "ssl_handshake",
            Shutdown(p, c)
     PROVE  Flows'
  <2> USE <1>ShutdownFlows
  <2> DEFINE d == Closed(c)
             q == Other(p)
  <2>1. /\ d \in Connection /\ SameReads(c, d) /\ SameWrites(c, d) /\ d.dropped = c.dropped /\ ~Live(d)
    BY ClosedIs
  <2>2. Becomes(p, d)
    BY ShutdownIs
  <2>3. q \in Peers /\ q # p /\ conn[q] \in Connection /\ net[q] \in Seq(Segment)
    BY OtherPeer DEF TypeOK
  <2>4. CASE ~Live(c)
    <3>1. UNCHANGED net
      BY <2>4, ShutdownIs
    <3> HIDE DEF d
    <3>2. KeepsSender(c, d) /\ d.outbound = c.outbound
      BY <2>1 DEF KeepsSender, Silent, SameReads, SameWrites
    <3> QED
      BY <2>1, <2>2, <3>1, <3>2, <1>KeepFlows
  <2>5. CASE Live(c)
    <3>1. net' = [net EXCEPT ![q] = Append(net[q], [kind |-> "close", bytes |-> <<>>])]
      BY <2>5, ShutdownIs
    <3>2. net'[q] = Append(net[q], [kind |-> "close", bytes |-> <<>>]) /\ net'[p] = net[p]
      BY <2>3, <3>1 DEF TypeOK
    <3> HIDE DEF d, q
    <3>3. d.inbound # "ssl_handshake" /\ d.accepted = c.accepted /\ d.outbound = c.outbound
      BY <2>1 DEF SameReads, SameWrites
    <3>4. Link(c, conn[q], net[q]) /\ Link(conn[q], c, net[p])
      BY DEF Linked, q
    <3>5. Link(d, conn[q], net'[q])
      BY Zenon, <2>1, <2>3, <2>5, <3>2, <3>3, <3>4, LinkCloses
    <3>6. Link(conn[q], d, net'[p])
      BY Zenon, <2>1, <3>2, <3>3, <3>4, LinkSameReads
    <3> QED
      BY <2>1, <2>2, <3>5, <3>6, <1>StepFlows DEF q
  <2> QED
    BY <2>4, <2>5
\* The error handlers keep the streams.
<1>HandleErrorFlows. ASSUME TypeOK, NEW p \in Peers, NEW c \in Connection, Linked(p, c), c.inbound # "ssl_handshake",
            NEW ec \in Results, ec # "ok", HandleError(p, c, ec)
     PROVE  Flows'
  <2> USE <1>HandleErrorFlows
  <2>1. CASE Becomes(p, Aborted(c)) /\ UNCHANGED net
    BY <2>1, <1>AbortFlows
  <2>2. CASE Becomes(p, c) /\ UNCHANGED net
    <3>1. KeepsSender(c, c) /\ SameReads(c, c)
      BY DEF KeepsSender, SameReads
    <3> QED
      BY <2>2, <3>1, <1>KeepFlows
  <2>3. CASE Shutdown(p, c)
    BY <2>3, <1>ShutdownFlows
  <2> QED
    BY <2>1, <2>2, <2>3, HandleErrorIs
\* A message is written to a safe link.
<1>AsyncWriteFlows. ASSUME TypeOK, NEW p \in Peers, NEW a \in Connection, Linked(p, a), Live(a), a.message_queue # <<>>,
            a.inbound # "ssl_handshake", a.outbound # "ian_handshake",
            NEW c \in Connection, SameReads(a, c), c.accepted = a.accepted, c.message_queue = Tail(a.message_queue),
            c.dropped = a.dropped, c.shutting_down = a.shutting_down,
            AsyncWrite(p, c, "message", Head(a.message_queue), TRUE)
     PROVE  Flows'
  <2> USE <1>AsyncWriteFlows
  <2> DEFINE d == Writing(c, "message")
             q == Other(p)
             m == Head(a.message_queue)
  <2>1. /\ d \in Connection /\ d.outbound = "message" /\ d.accepted = c.accepted /\ SameReads(c, d)
        /\ d.dropped = c.dropped /\ d.shutting_down = c.shutting_down /\ d.message_queue = c.message_queue
    BY Zenon, WritingIs
  <2>2. Becomes(p, d)
    BY DEF AsyncWrite, Writing
  <2>3. q \in Peers /\ q # p /\ conn[q] \in Connection /\ net[q] \in Seq(Segment)
    BY OtherPeer DEF TypeOK
  <2>4. ~c.dropped
    BY DEF Live
  <2>5. PICK records \in Records(m) : net' = [net EXCEPT ![q] = Cat(net[q], records)]
    BY <2>4 DEF AsyncWrite, Cat
  <2>6. net'[q] = Cat(net[q], records) /\ net'[p] = net[p]
    BY Zenon, <2>3, <2>5 DEF TypeOK
  <2> HIDE DEF d, q
  <2>7. Live(d) /\ d.inbound # "ssl_handshake" /\ d.message_queue = Tail(a.message_queue) /\ d.accepted = a.accepted
    BY <2>1 DEF Live, SameReads
  <2>8. Link(a, conn[q], net[q]) /\ Link(conn[q], a, net[p])
    BY DEF Linked, q
  <2>9. Link(d, conn[q], net'[q])
    BY Zenon, <2>1, <2>3, <2>6, <2>7, <2>8, LinkSends
  <2>10. SameReads(a, d) /\ d.outbound # "ian_handshake"
    BY Zenon, <2>1 DEF SameReads
  <2>11. Link(conn[q], d, net'[p])
    BY Zenon, <2>6, <2>8, <2>10, LinkSameReads
  <2> QED
    BY Zenon, <2>1, <2>2, <2>9, <2>11, <1>StepFlows DEF q
\* Writing the next message of the queue keeps the streams.
<1>WriteNextFlows. ASSUME TypeOK, NEW p \in Peers, safe_link[p] = TRUE, NEW c \in Connection, Linked(p, c),
            ~Live(c) => c.message_queue = <<>>, c.inbound # "ssl_handshake", c.outbound # "ian_handshake",
            WriteNext(p, c)
     PROVE  Flows'
  <2> USE <1>WriteNextFlows
  <2>1. CASE c.message_queue # <<>>
    <3> DEFINE b == Popped(c)
    <3>1. AsyncWrite(p, b, "message", Head(c.message_queue), TRUE)
      BY Zenon, <2>1 DEF WriteNext, DoWriteMessage, Popped
    <3>2. /\ b \in Connection /\ SameReads(c, b) /\ SameWrites(c, b)
          /\ b.dropped = c.dropped /\ b.shutting_down = c.shutting_down
          /\ b.message_queue = Tail(c.message_queue)
      BY Zenon, <2>1, NextWriteIs
    <3> HIDE DEF b
    <3>3. b.accepted = c.accepted /\ Live(c)
      BY <2>1, <3>2 DEF SameWrites
    <3> QED
      BY Zenon, <2>1, <3>1, <3>2, <3>3, <1>AsyncWriteFlows
  <2>2. CASE c.message_queue = <<>>
    <3> DEFINE d == Rested(c)
    <3>1. Becomes(p, d) /\ UNCHANGED net
      BY <2>2 DEF WriteNext, Rested
    <3>2. /\ d \in Connection /\ SameReads(c, d) /\ SameWrites(c, d)
          /\ d.dropped = c.dropped /\ d.shutting_down = c.shutting_down /\ d.message_queue = c.message_queue
      BY Zenon, NextWriteIs
    <3> HIDE DEF d
    <3>3. KeepsSender(c, d) /\ d.outbound = c.outbound
      BY <3>2 DEF KeepsSender, Silent, Live, SameReads, SameWrites
    <3> QED
      BY <3>1, <3>2, <3>3, <1>KeepFlows
  <2> QED
    BY <2>1, <2>2
\* The end of a read that is not started again.
<1>LinkedEnds. ASSUME TypeOK, LocalInv, NEW p \in Peers, Linked(p, conn[p]), conn[p].inbound \in {"ian_handshake", "read"}
     PROVE  /\ EndRead(conn[p]) \in Connection /\ Linked(p, EndRead(conn[p]))
            /\ EndRead(conn[p]).inbound # "ssl_handshake"
  <2> USE <1>LinkedEnds
  <2> DEFINE b == conn[p]
             c == EndRead(b)
  <2>1. b \in Connection /\ Local(b)
    BY DEF TypeOK, LocalInv
  <2>2. b.outbound # "ian_handshake"
    BY <2>1 DEF Local, Phase
  <2>3. b.inbound \in {"ian_handshake", "read"} /\ Linked(p, b)
    OBVIOUS
  <2> HIDE DEF b
  <2>4. /\ c \in Connection /\ c.inbound = "none" /\ SameWrites(b, c)
        /\ c.dropped = b.dropped /\ c.shutting_down = b.shutting_down
        /\ c.message_queue = b.message_queue /\ c.processed = b.processed
    BY Zenon, <2>1, EndsAre, EndsType
  <2> HIDE DEF c
  <2>5. KeepsSender(b, c)
    BY Zenon, <2>3, <2>4 DEF KeepsSender, Silent, Live, SameWrites
  <2>6. ~Alive(c)
    BY <2>2, <2>4 DEF Alive, SameWrites
  <2>7. Link(c, conn[Other(p)], net[Other(p)])
    BY <2>3, <2>5, LinkKeepsSender DEF Linked
  <2>8. Link(conn[Other(p)], c, net[p])
    BY <2>3, <2>4, <2>6, LinkDead DEF Linked
  <2>9. Linked(p, c) /\ c.inbound # "ssl_handshake" /\ c \in Connection
    BY <2>4, <2>7, <2>8 DEF Linked
  <2> QED
    BY <2>9 DEF b, c
\* on_ssl_handshake keeps the streams: the handshake comes first.
<1>OnSslHandshakeFlows. ASSUME TypeOK, LocalInv, Flows, NEW p \in Peers, OnSslHandshake(p)
     PROVE  Flows'
  <2> USE <1>OnSslHandshakeFlows
  <2> DEFINE b == conn[p]
             c == EndRead(b)
             d == Writing(c, "ian_handshake")
             e == Aborted(c)
             q == Other(p)
  <2>1. b \in Connection /\ Local(b) /\ b.inbound = "ssl_handshake"
    BY DEF TypeOK, LocalInv, OnSslHandshake
  <2>2. q \in Peers /\ q # p /\ conn[q] \in Connection /\ Local(conn[q]) /\ net[q] \in Seq(Segment)
    BY OtherPeer DEF TypeOK, LocalInv
  <2>3. Link(b, conn[q], net[q]) /\ Link(conn[q], b, net[p])
    BY FlowsAre DEF Linked
  <2>4. \/ Becomes(p, e) /\ UNCHANGED net
        \/ HandshakeSize # 0 /\ AsyncWrite(p, c, "ian_handshake", Zeros, TRUE)
    BY Zenon DEF OnSslHandshake, Abort, Aborted, Zeros
  <2> HIDE DEF b
  <2>5. /\ c \in Connection
        /\ c.inbound = "none" /\ SameWrites(b, c)
        /\ c.dropped = b.dropped /\ c.shutting_down = b.shutting_down
        /\ c.message_queue = b.message_queue /\ c.processed = b.processed
    BY Zenon, <2>1, EndsAre, EndsType
  <2>6. Live(b) /\ b.outbound = "none"
    BY <2>1 DEF Local, Phase
  <2>7. CASE Becomes(p, e) /\ UNCHANGED net
    <3> HIDE DEF c
    <3>1. e \in Connection /\ SameReads(c, e) /\ SameWrites(c, e) /\ e.dropped /\ ~Live(e)
      BY <2>5, AbortedIs
    <3> HIDE DEF e, q
    <3>2. KeepsSender(b, e) /\ ~Alive(e) /\ e.processed = b.processed
      BY <2>5, <2>6, <3>1 DEF KeepsSender, Silent, Alive, SameReads, SameWrites
    <3>3. Link(e, conn[q], net[q])
      BY <2>3, <3>2, LinkKeepsSender
    <3>4. Link(conn[q], e, net[p])
      BY <2>3, <3>2, LinkDead
    <3> QED
      BY <2>7, <3>1, <3>3, <3>4, <1>StepFlows DEF q
  <2>8. CASE HandshakeSize # 0 /\ AsyncWrite(p, c, "ian_handshake", Zeros, TRUE)
    <3> HIDE DEF c
    <3>1. Becomes(p, d)
      BY <2>8 DEF AsyncWrite, Writing
    <3>2. ~c.dropped
      BY <2>5, <2>6 DEF Live
    <3>3. PICK records \in Records(Zeros) : net' = [net EXCEPT ![q] = Cat(net[q], records)]
      BY <2>8, <3>2 DEF AsyncWrite, Cat
    <3>4. net'[q] = Cat(net[q], records) /\ net'[p] = net[p]
      BY <2>2, <3>3 DEF TypeOK
    <3>5. /\ d \in Connection /\ d.outbound = "ian_handshake" /\ d.accepted = c.accepted /\ SameReads(c, d)
          /\ d.dropped = c.dropped /\ d.shutting_down = c.shutting_down /\ d.message_queue = c.message_queue
      BY <2>5, WritingIs
    <3> HIDE DEF d, q
    <3>6. /\ d.inbound = "none" /\ d.accepted = b.accepted /\ d.processed = b.processed
          /\ Live(d) => Live(b) /\ d.message_queue = b.message_queue
      BY <2>5, <3>5 DEF Live, SameReads, SameWrites
    <3>7. Link(d, conn[q], Cat(net[q], records))
      BY Zenon, <2>1, <2>2, <2>3, <2>8, <3>6, LinkBegins
    <3>8. Awaits(b) /\ Awaits(d)
      BY Zenon, <2>1, <3>5 DEF Awaits
    <3>9. Link(conn[q], d, net[p])
      BY <2>1, <2>3, <3>6, <3>8, LinkAwaits
    <3> QED
      BY Zenon, <3>1, <3>4, <3>5, <3>7, <3>9, <1>StepFlows DEF q
  <2> QED
    BY Zenon, <2>4, <2>7, <2>8
\* on_ian_handshake_sent keeps the streams.
<1>OnIanHandshakeSentFlows. ASSUME TypeOK, LocalInv, Flows, NEW p \in Peers, OnIanHandshakeSent(p)
     PROVE  Flows'
  <2> USE <1>OnIanHandshakeSentFlows
  <2> DEFINE b == conn[p]
             c == EndWrite(b)
             d == StartRead(c, "ian_handshake")
             q == Other(p)
  <2>1. b \in Connection /\ Local(b) /\ b.outbound = "ian_handshake" /\ b.write_ec \in Results
    BY DEF TypeOK, LocalInv, OnIanHandshakeSent
  <2>2. Link(b, conn[q], net[q]) /\ Link(conn[q], b, net[p])
    BY FlowsAre DEF Linked
  <2>3. \/ b.write_ec # "ok" /\ HandleError(p, c, b.write_ec)
        \/ Becomes(p, d) /\ UNCHANGED net
    BY DEF OnIanHandshakeSent
  <2> HIDE DEF b
  <2>4. Live(b) /\ b.inbound = "none" /\ b.in_message_len = 0
    BY <2>1 DEF Local, Phase
  <2>5. /\ c \in Connection /\ c.outbound = "none" /\ c.accepted = b.accepted /\ SameReads(b, c)
        /\ c.dropped = b.dropped /\ c.shutting_down = b.shutting_down
        /\ c.message_queue = b.message_queue
    BY Zenon, <2>1, EndsAre, EndsType
  <2>6. CASE b.write_ec # "ok" /\ HandleError(p, c, b.write_ec)
    <3> HIDE DEF c, q
    <3>1. KeepsSender(b, c) /\ ~Alive(c) /\ c.processed = b.processed /\ c.inbound # "ssl_handshake"
      BY <2>4, <2>5 DEF KeepsSender, Silent, Live, Alive, SameReads
    <3>2. Link(c, conn[q], net[q])
      BY <2>2, <3>1, LinkKeepsSender
    <3>3. Link(conn[q], c, net[p])
      BY <2>2, <3>1, LinkDead
    <3>4. Linked(p, c)
      BY <3>2, <3>3 DEF Linked, q
    <3> QED
      BY <2>1, <2>5, <2>6, <3>1, <3>4, <1>HandleErrorFlows
  <2>7. CASE Becomes(p, d) /\ UNCHANGED net
    <3> HIDE DEF c
    <3>1. /\ d \in Connection /\ d.inbound = "ian_handshake" /\ d.inbound_ec = "pending" /\ SameWrites(c, d)
          /\ d.dropped = c.dropped /\ d.shutting_down = c.shutting_down /\ d.message_queue = c.message_queue
          /\ d.in_message_len = c.in_message_len /\ d.processed = c.processed
      BY Zenon, <2>5, StartReadIs, EndsType
    <3> HIDE DEF d, q
    <3>2. KeepsSender(b, d) /\ d.processed = b.processed /\ d.in_message_len = 0
      BY Zenon, <2>4, <2>5, <3>1 DEF KeepsSender, Silent, Live, SameReads, SameWrites
    <3>3. Awaits(b) /\ Awaits(d)
      BY <2>1, <3>1, <3>2 DEF Awaits
    <3>4. Link(d, conn[q], net[q])
      BY <2>2, <3>2, LinkKeepsSender
    <3>5. Link(conn[q], d, net[p])
      BY Zenon, <2>2, <2>4, <3>1, <3>2, <3>3, LinkAwaits
    <3> QED
      BY <2>7, <3>1, <3>4, <3>5, <1>StepFlows DEF q
  <2> QED
    BY <2>3, <2>6, <2>7
\* on_ian_handshake takes the handshake and nothing behind it.
<1>OnIanHandshakeFlows. ASSUME TypeOK, LocalInv, Flows, NEW p \in Peers, safe_link[p] = TRUE, OnIanHandshake(p)
     PROVE  Flows'
  <2> USE <1>OnIanHandshakeFlows
  <2> DEFINE b == conn[p]
             q == Other(p)
             t == TakeLength(b.in_message_len, Cat(b.read_buffer, b.chunk))
             again == StartRead(ReadOn(b, t.len, t.buffer), "ian_handshake")
             done == StartRead(ReadOn(b, 0, <<>>), "read")
  <2>1. b \in Connection /\ Local(b) /\ b.inbound = "ian_handshake" /\ b.inbound_ec \in Results
    BY DEF TypeOK, LocalInv, OnIanHandshake
  <2>2. Linked(p, b) /\ Link(b, conn[q], net[q]) /\ Link(conn[q], b, net[p])
    BY FlowsAre DEF Linked
  <2>3. EndRead(b) \in Connection /\ Linked(p, EndRead(b)) /\ EndRead(b).inbound # "ssl_handshake"
    BY <2>1, <2>2, <1>LinkedEnds
  <2>4. CASE b.inbound_ec # "ok"
    <3>1. HandleError(p, EndRead(b), b.inbound_ec)
      BY <2>4 DEF OnIanHandshake
    <3> QED
      BY <2>1, <2>3, <2>4, <3>1, <1>HandleErrorFlows
  <2>5. CASE b.inbound_ec = "ok"
    <3>1. IanHandshakeData(p, b)
      BY Zenon, <2>5 DEF OnIanHandshake
    <3> HIDE DEF b
    <3>2. \/ Shutdown(p, EndRead(b))
          \/ t.len \in Nat /\ t.buffer \in Bytes /\ Len(t.buffer) < t.len /\ UNCHANGED net /\ Becomes(p, again)
          \/ Len(t.buffer) = t.len /\ WriteNext(p, done)
      BY Zenon, <2>1, <3>1, IanHandshakeDataIs
    <3>3. CASE Shutdown(p, EndRead(b))
      BY <2>3, <3>3, <1>ShutdownFlows
    <3> DEFINE len == t.len
               buffer == t.buffer
    <3>4. t.len = len /\ t.buffer = buffer
      OBVIOUS
    <3>5. CASE t.len \in Nat /\ t.buffer \in Bytes /\ Len(t.buffer) < t.len /\ UNCHANGED net /\ Becomes(p, again)
      <4> DEFINE c == ReadOn(b, len, buffer)
                 d == StartRead(c, "ian_handshake")
      <4>1. Becomes(p, d) /\ len \in Nat /\ buffer \in Bytes /\ Len(buffer) < len
        BY <3>5
      <4> HIDE DEF len, buffer, t
      <4>2. /\ c \in Connection /\ SameWrites(b, c)
            /\ c.dropped = b.dropped /\ c.shutting_down = b.shutting_down /\ c.message_queue = b.message_queue
            /\ c.in_message_len = len /\ c.read_buffer = buffer /\ c.processed = b.processed
        BY <2>1, <4>1, ReadOnIs
      <4> HIDE DEF c
      <4>3. /\ d \in Connection /\ d.inbound = "ian_handshake" /\ d.inbound_ec = "pending" /\ d.chunk = <<>>
            /\ SameWrites(c, d)
            /\ d.dropped = c.dropped /\ d.shutting_down = c.shutting_down /\ d.message_queue = c.message_queue
            /\ d.in_message_len = c.in_message_len /\ d.read_buffer = c.read_buffer /\ d.processed = c.processed
        BY Zenon, <4>2, StartReadIs, EndsType
      <4> HIDE DEF d, q
      <4>4. KeepsSender(b, d) /\ d.processed = b.processed /\ d.in_message_len = len /\ d.read_buffer = buffer
        BY <2>1, <4>2, <4>3 DEF KeepsSender, Silent, Live, SameWrites
      <4>5. d.outbound # "ian_handshake"
        BY <2>1, <4>2, <4>3 DEF Local, Phase, SameWrites
      <4>6. Link(d, conn[q], net[q])
        BY <2>2, <4>4, LinkKeepsSender
      <4>7. Link(conn[q], d, net[p])
        BY Zenon, <2>1, <2>2, <2>5, <3>4, <4>1, <4>3, <4>4, <4>5, LinkShakesHands DEF t
      <4> QED
        BY Zenon, <3>5, <4>1, <4>3, <4>6, <4>7, <1>StepFlows DEF q
    <3>6. CASE Len(t.buffer) = t.len /\ WriteNext(p, done)
      <4> DEFINE c == ReadOn(b, 0, <<>>)
      <4>0. <<>> \in Bytes /\ 0 \in Nat
        BY EmptySeq DEF Bytes
      <4>1. Len(buffer) = len
        BY <3>6
      <4> HIDE DEF len, buffer, t
      <4>2. /\ c \in Connection /\ SameWrites(b, c)
            /\ c.dropped = b.dropped /\ c.shutting_down = b.shutting_down /\ c.message_queue = b.message_queue
            /\ c.in_message_len = 0 /\ c.read_buffer = <<>> /\ c.processed = b.processed
        BY <2>1, <4>0, ReadOnIs
      <4> HIDE DEF c
      <4> DEFINE d == StartRead(c, "read")
      <4>3. /\ d \in Connection /\ d.inbound = "read" /\ d.inbound_ec = "pending" /\ d.chunk = <<>>
            /\ SameWrites(c, d)
            /\ d.dropped = c.dropped /\ d.shutting_down = c.shutting_down /\ d.message_queue = c.message_queue
            /\ d.in_message_len = c.in_message_len /\ d.read_buffer = c.read_buffer /\ d.processed = c.processed
        BY Zenon, <4>2, StartReadIs, EndsType
      <4>8. WriteNext(p, d)
        BY <3>6 DEF c
      <4> HIDE DEF d, q
      <4>4. KeepsSender(b, d) /\ d.processed = b.processed /\ d.in_message_len = 0 /\ d.read_buffer = <<>>
        BY <2>1, <4>2, <4>3 DEF KeepsSender, Silent, Live, SameWrites
      <4>5. d.outbound # "ian_handshake" /\ (~Live(d) => d.message_queue = <<>>)
        BY <2>1, <4>2, <4>3 DEF Local, Phase, Settled, Live, SameWrites
      <4>6. Link(d, conn[q], net[q])
        BY <2>2, <4>4, LinkKeepsSender
      <4>7. Link(conn[q], d, net[p])
        BY Zenon, <2>1, <2>2, <2>5, <3>4, <4>1, <4>3, <4>4, <4>5, LinkShakesHands DEF t
      <4>9. Linked(p, d)
        BY Zenon, <4>6, <4>7 DEF Linked, q
      <4> QED
        BY Zenon, <4>3, <4>5, <4>8, <4>9, <1>WriteNextFlows
    <3> QED
      BY Zenon, <3>2, <3>3, <3>5, <3>6
  <2> QED
    BY <2>1, <2>4, <2>5
\* on_read keeps the streams.
<1>OnReadFlows. ASSUME TypeOK, LocalInv, Flows, NEW p \in Peers, OnRead(p)
     PROVE  Flows'
  <2> USE <1>OnReadFlows
  <2> DEFINE b == conn[p]
             q == Other(p)
             r == ReadLoop(b.in_message_len, Cat(b.read_buffer, b.chunk))
             c == ReadMore(b, r.len, r.buffer, r.messages)
  <2>1. b \in Connection /\ Local(b) /\ net[p] \in Seq(Segment)
    BY DEF TypeOK, LocalInv
  <2>2. Linked(p, b) /\ Link(b, conn[q], net[q]) /\ Link(conn[q], b, net[p])
    BY FlowsAre DEF Linked
  <2>3. /\ b.inbound = "read" /\ b.inbound_ec \in Results /\ r \in RoundState
        /\ r.len \in Nat /\ r.buffer \in Bytes /\ r.messages \in Seq(Bytes)
        /\ \/ b.inbound_ec # "ok" /\ HandleError(p, EndRead(b), b.inbound_ec)
           \/ b.inbound_ec = "ok" /\ r.end = "invalid" /\ Shutdown(p, EndRead(c))
           \/ b.inbound_ec = "ok" /\ r.end # "invalid" /\ Becomes(p, StartRead(c, "read")) /\ UNCHANGED net
    BY Zenon, OnReadIs
  <2>4. EndRead(b) \in Connection /\ Linked(p, EndRead(b)) /\ EndRead(b).inbound # "ssl_handshake"
    BY Zenon, <2>2, <2>3, <1>LinkedEnds
  <2>5. CASE b.inbound_ec # "ok" /\ HandleError(p, EndRead(b), b.inbound_ec)
    BY Zenon, <2>3, <2>4, <2>5, <1>HandleErrorFlows
  <2>6. r = ReadLoop(b.in_message_len, Cat(b.read_buffer, b.chunk))
    OBVIOUS
  <2> HIDE DEF b, r, q
  <2>7. b.outbound # "ian_handshake"
    BY Zenon, <2>1, <2>3 DEF Local, Phase
  <2>8. /\ c \in Connection /\ SameWrites(b, c)
        /\ c.dropped = b.dropped /\ c.shutting_down = b.shutting_down /\ c.message_queue = b.message_queue
        /\ c.in_message_len = r.len /\ c.read_buffer = r.buffer /\ c.processed = Cat(b.processed, r.messages)
    <3>1. b \in Connection
      BY <2>1
    <3>2. r.len \in Nat /\ r.buffer \in Bytes /\ r.messages \in Seq(Bytes)
      BY <2>3
    <3>3. Advances(b, c, r.len, r.buffer, r.messages)
      BY <3>1, <3>2, ReadMoreIs
    <3> QED
      BY <3>3 DEF Advances
  <2> HIDE DEF c
  <2>9. CASE b.inbound_ec = "ok" /\ r.end = "invalid" /\ Shutdown(p, EndRead(c))
    <3> DEFINE d == EndRead(c)
    <3>1. /\ d \in Connection /\ d.inbound = "none" /\ SameWrites(c, d)
          /\ d.dropped = c.dropped /\ d.shutting_down = c.shutting_down
          /\ d.message_queue = c.message_queue /\ d.processed = c.processed
      BY Zenon, <2>8, EndsAre, EndsType
    <3>2. Shutdown(p, d)
      BY <2>9
    <3> HIDE DEF d
    <3>3. KeepsSender(b, d) /\ d.outbound # "ian_handshake" /\ d.processed = Cat(b.processed, r.messages)
      BY <2>3, <2>7, <2>8, <3>1 DEF KeepsSender, Silent, Live, SameWrites
    <3>4. Link(d, conn[q], net[q])
      BY <2>2, <3>3, LinkKeepsSender
    <3>5. Link(conn[q], d, net[p])
      BY Zenon, <2>1, <2>2, <2>3, <2>6, <2>9, <3>1, <3>3, LinkReads
    <3>6. Linked(p, d) /\ d.inbound # "ssl_handshake"
      BY <3>1, <3>4, <3>5 DEF Linked, q
    <3> QED
      BY Zenon, <3>1, <3>2, <3>6, <1>ShutdownFlows
  <2>10. CASE b.inbound_ec = "ok" /\ r.end # "invalid" /\ Becomes(p, StartRead(c, "read")) /\ UNCHANGED net
    <3> DEFINE d == StartRead(c, "read")
    <3>1. /\ d \in Connection /\ d.inbound = "read" /\ d.inbound_ec = "pending" /\ d.chunk = <<>>
          /\ SameWrites(c, d)
          /\ d.dropped = c.dropped /\ d.shutting_down = c.shutting_down /\ d.message_queue = c.message_queue
          /\ d.in_message_len = c.in_message_len /\ d.read_buffer = c.read_buffer /\ d.processed = c.processed
      BY <2>8, StartReadIs, EndsType
    <3>2. Becomes(p, d)
      BY <2>10
    <3> HIDE DEF d
    <3>3. /\ KeepsSender(b, d) /\ d.outbound # "ian_handshake" /\ d.processed = Cat(b.processed, r.messages)
          /\ d.in_message_len = r.len /\ d.read_buffer = r.buffer
      BY <2>3, <2>7, <2>8, <3>1 DEF KeepsSender, Silent, Live, SameWrites
    <3>4. Link(d, conn[q], net[q])
      BY <2>2, <3>3, LinkKeepsSender
    <3>5. Link(conn[q], d, net[p])
      BY Zenon, <2>1, <2>2, <2>3, <2>6, <2>10, <3>1, <3>3, LinkReads
    <3> QED
      BY <2>10, <3>1, <3>2, <3>4, <3>5, <1>StepFlows DEF q
  <2> QED
    BY <2>3, <2>5, <2>9, <2>10
\* on_write_message keeps the streams.
<1>OnWriteMessageFlows. ASSUME TypeOK, LocalInv, Flows, NEW p \in Peers, safe_link[p] = TRUE, OnWriteMessage(p)
     PROVE  Flows'
  <2> USE <1>OnWriteMessageFlows
  <2> DEFINE b == conn[p]
             c == EndWrite(b)
             q == Other(p)
  <2>1. b \in Connection /\ Local(b) /\ b.outbound = "message" /\ b.write_ec \in Results
    BY DEF TypeOK, LocalInv, OnWriteMessage
  <2>2. Link(b, conn[q], net[q]) /\ Link(conn[q], b, net[p])
    BY FlowsAre DEF Linked
  <2>3. \/ b.write_ec # "ok" /\ HandleError(p, c, b.write_ec)
        \/ WriteNext(p, c)
    BY DEF OnWriteMessage
  <2> HIDE DEF b
  <2>4. b.inbound # "ssl_handshake" /\ (~Live(b) => b.message_queue = <<>>)
    BY <2>1 DEF Local, Phase, Settled
  <2>5. /\ c \in Connection /\ c.outbound = "none" /\ c.accepted = b.accepted /\ SameReads(b, c)
        /\ c.dropped = b.dropped /\ c.shutting_down = b.shutting_down
        /\ c.message_queue = b.message_queue
    BY <2>1, EndsAre, EndsType
  <2> HIDE DEF c, q
  <2>6. KeepsSender(b, c) /\ c.inbound # "ssl_handshake" /\ (~Live(c) => c.message_queue = <<>>)
    BY <2>4, <2>5 DEF KeepsSender, Silent, Live, SameReads
  <2>7. Link(c, conn[q], net[q])
    BY <2>2, <2>6, LinkKeepsSender
  <2>8. Link(conn[q], c, net[p])
    BY <2>1, <2>2, <2>5, LinkSameReads
  <2>9. Linked(p, c)
    BY <2>7, <2>8 DEF Linked, q
  <2>10. CASE b.write_ec # "ok" /\ HandleError(p, c, b.write_ec)
    BY <2>1, <2>5, <2>6, <2>9, <2>10, <1>HandleErrorFlows
  <2>11. CASE WriteNext(p, c)
    BY Zenon, <2>5, <2>6, <2>9, <2>11, <1>WriteNextFlows
  <2> QED
    BY <2>3, <2>10, <2>11
\* A step that only changes the codes of the operations, or closes.
<1>CompletedFlows. ASSUME TypeOK, Flows, NEW p \in Peers, NEW d \in Connection, Becomes(p, d), UNCHANGED net,
            SameReads(conn[p], d), d.outbound = conn[p].outbound, d.accepted = conn[p].accepted,
            d.message_queue = conn[p].message_queue,
            d.shutting_down = conn[p].shutting_down, conn[p].dropped => d.dropped
     PROVE  Flows'
  <2> USE <1>CompletedFlows
  <2> DEFINE c == conn[p]
  <2>1. c \in Connection
    BY DEF TypeOK
  <2>2. Linked(p, c)
    BY FlowsAre
  <2>3. KeepsSender(c, d)
    BY DEF KeepsSender, Silent, Live, SameReads
  <2> QED
    BY <2>1, <2>2, <2>3, <1>KeepFlows
\* on_shutdown and the completions that read nothing keep the streams.
<1>OnShutdownFlows. ASSUME TypeOK, Flows, NEW p \in Peers, OnShutdown(p) \/ CompleteShutdown(p) \/ CompleteWrite(p)
     PROVE  Flows'
  <2> USE <1>OnShutdownFlows
  <2> DEFINE c == conn[p]
  <2>1. c \in Connection
    BY DEF TypeOK
  <2>2. CASE OnShutdown(p)
    <3> DEFINE d == [c EXCEPT !.shutdown_ec = "idle", !.dropped = TRUE]
    <3>1. Becomes(p, d) /\ UNCHANGED net
      BY <2>2 DEF OnShutdown
    <3>2. /\ d \in Connection /\ SameReads(c, d) /\ SameWrites(c, d) /\ d.dropped
          /\ d.message_queue = c.message_queue /\ d.shutting_down = c.shutting_down
      BY Zenon, <2>1 DEF Connection, SameReads, SameWrites
    <3> HIDE DEF d
    <3> QED
      BY <3>1, <3>2, <1>CompletedFlows DEF SameWrites
  <2>3. CASE CompleteShutdown(p)
    <3> DEFINE d == [c EXCEPT !.shutdown_ec = "done"]
    <3>1. Becomes(p, d) /\ UNCHANGED net
      BY <2>3 DEF CompleteShutdown
    <3>2. /\ d \in Connection /\ SameReads(c, d) /\ SameWrites(c, d) /\ d.dropped = c.dropped
          /\ d.message_queue = c.message_queue /\ d.shutting_down = c.shutting_down
      BY Zenon, <2>1 DEF Connection, SameReads, SameWrites
    <3> HIDE DEF d
    <3> QED
      BY <3>1, <3>2, <1>CompletedFlows DEF SameWrites
  <2>4. CASE CompleteWrite(p)
    <3>1. PICK ec \in Results : Becomes(p, [c EXCEPT !.write_ec = ec]) /\ UNCHANGED net
      BY <2>4 DEF CompleteWrite, Failures, Results
    <3> DEFINE d == [c EXCEPT !.write_ec = ec]
    <3>2. /\ d \in Connection /\ SameReads(c, d) /\ d.accepted = c.accepted /\ d.dropped = c.dropped
          /\ d.message_queue = c.message_queue /\ d.shutting_down = c.shutting_down /\ d.outbound = c.outbound
      BY Zenon, <2>1 DEF Connection, SameReads, OpStates
    <3>3. Becomes(p, d) /\ UNCHANGED net
      BY <3>1
    <3> HIDE DEF d
    <3> QED
      BY <3>2, <3>3, <1>CompletedFlows
  <2> QED
    BY <2>2, <2>3, <2>4
\* The end of the SSL handshake keeps the streams.
<1>CompleteSslHandshakeFlows. ASSUME TypeOK, Flows, NEW p \in Peers, CompleteSslHandshake(p)
     PROVE  Flows'
  <2> USE <1>CompleteSslHandshakeFlows
  <2> DEFINE c == conn[p]
             q == Other(p)
  <2>1. c \in Connection /\ c.inbound = "ssl_handshake"
    BY DEF TypeOK, CompleteSslHandshake
  <2>2. PICK ec \in Results : Becomes(p, [c EXCEPT !.inbound_ec = ec]) /\ UNCHANGED net
    BY DEF CompleteSslHandshake, Failures, Results
  <2>3. Link(c, conn[q], net[q]) /\ Link(conn[q], c, net[p])
    BY FlowsAre DEF Linked
  <2> DEFINE d == [c EXCEPT !.inbound_ec = ec]
  <2> HIDE DEF c
  <2>4. /\ d \in Connection /\ SameWrites(c, d) /\ d.inbound = c.inbound /\ d.processed = c.processed
        /\ d.dropped = c.dropped /\ d.shutting_down = c.shutting_down /\ d.message_queue = c.message_queue
    BY Zenon, <2>1 DEF Connection, SameWrites, OpStates
  <2>5. Becomes(p, d)
    BY <2>2
  <2> HIDE DEF d, q
  <2>6. KeepsSender(c, d) /\ Awaits(c) /\ Awaits(d)
    BY <2>1, <2>4 DEF KeepsSender, Silent, Live, Awaits, SameWrites
  <2>7. Link(d, conn[q], net[q])
    BY <2>3, <2>6, LinkKeepsSender
  <2>8. Link(conn[q], d, net[p])
    BY <2>1, <2>3, <2>4, <2>6, LinkAwaits
  <2> QED
    BY <2>2, <2>4, <2>5, <2>7, <2>8, <1>StepFlows DEF q
\* A completed read keeps the streams.
<1>CompleteReadFlows. ASSUME TypeOK, LocalInv, Flows, NEW p \in Peers, safe_link[p] = TRUE, CompleteRead(p)
     PROVE  Flows'
  <2> USE <1>CompleteReadFlows
  <2> DEFINE c == conn[p]
             q == Other(p)
             segments == net[p]
  <2>1. /\ c \in Connection /\ Local(c) /\ c.inbound \in {"ian_handshake", "read"} /\ c.inbound_ec = "pending"
        /\ segments \in Seq(Segment) /\ q \in Peers /\ q # p
    BY OtherPeer DEF TypeOK, LocalInv, CompleteRead
  <2>2. Link(c, conn[q], net[q]) /\ Link(conn[q], c, segments)
    BY FlowsAre DEF Linked
  <2>3. CASE \E ec \in Results \ {"ok"} : Becomes(p, [c EXCEPT !.inbound_ec = ec]) /\ UNCHANGED net
    <3>1. PICK ec \in Results \ {"ok"} : Becomes(p, [c EXCEPT !.inbound_ec = ec]) /\ UNCHANGED net
      BY <2>3
    <3> DEFINE d == [c EXCEPT !.inbound_ec = ec]
    <3> HIDE DEF c
    <3>2. /\ d \in Connection /\ SameWrites(c, d) /\ d.inbound = c.inbound /\ d.inbound_ec = ec /\ d.chunk = c.chunk
          /\ d.in_message_len = c.in_message_len /\ d.read_buffer = c.read_buffer /\ d.processed = c.processed
          /\ d.dropped = c.dropped /\ d.shutting_down = c.shutting_down /\ d.message_queue = c.message_queue
      BY Zenon, <2>1 DEF Connection, SameWrites, OpStates
    <3>3. Becomes(p, d)
      BY <3>1
    <3> HIDE DEF d, q
    <3>4. KeepsSender(c, d) /\ d.outbound = c.outbound /\ d.inbound_ec # "ok" /\ c.inbound_ec # "ok"
      BY <2>1, <3>2 DEF KeepsSender, Silent, Live, SameWrites
    <3>5. Link(d, conn[q], net[q])
      BY <2>2, <3>4, LinkKeepsSender
    <3>6. Link(conn[q], d, net[p])
      BY <2>2, <3>2, <3>4, LinkFails
    <3> QED
      BY <3>1, <3>2, <3>3, <3>5, <3>6, <1>StepFlows DEF q
  <2>4. CASE /\ segments # <<>>
             /\ \E n \in Portions(c, Head(segments)) :
                  /\ Received(p, SubSeq(Head(segments).bytes, 1, n))
                  /\ net' = [net EXCEPT ![p] = Consume(segments, n)]
    <3>1. PICK n \in Portions(c, Head(segments)) :
            /\ Received(p, SubSeq(Head(segments).bytes, 1, n))
            /\ net' = [net EXCEPT ![p] = Consume(segments, n)]
      BY Zenon, <2>4
    <3>2. net'[p] = Consume(segments, n) /\ net'[q] = net[q]
      BY <2>1, <3>1 DEF TypeOK
    <3> DEFINE bytes == SubSeq(Head(segments).bytes, 1, n)
               d == [c EXCEPT !.inbound_ec = "ok", !.chunk = bytes]
    <3>3. Becomes(p, d)
      BY <3>1 DEF Received
    <3>4. bytes \in Bytes
      <4> DEFINE size == Len(Head(segments).bytes)
      <4>1. Head(segments) \in Segment
        BY <2>1, <2>4, HeadTailProperties
      <4>2. Head(segments).bytes \in Seq(Byte)
        BY <4>1 DEF Segment
      <4>3. size \in Nat
        BY <4>2, LenProperties
      <4>4. n \in 0 .. size
        BY <4>3 DEF Portions
      <4> QED
        BY <4>2, <4>4, CatCut DEF Bytes
    <3>5. bytes = SubSeq(Head(segments).bytes, 1, n)
      OBVIOUS
    <3> HIDE DEF c, bytes
    <3>6. /\ d \in Connection /\ SameWrites(c, d) /\ d.inbound = c.inbound /\ d.inbound_ec = "ok" /\ d.chunk = bytes
          /\ d.in_message_len = c.in_message_len /\ d.read_buffer = c.read_buffer /\ d.processed = c.processed
          /\ d.dropped = c.dropped /\ d.shutting_down = c.shutting_down /\ d.message_queue = c.message_queue
      BY Zenon, <2>1, <3>4 DEF Connection, SameWrites, OpStates, Results, Bytes
    <3> HIDE DEF d, q, segments
    <3>7. KeepsSender(c, d) /\ d.outbound = c.outbound
      BY <2>1, <3>6 DEF KeepsSender, Silent, Live, SameWrites
    <3>8. Link(d, conn[q], net[q])
      BY <2>2, <3>7, LinkKeepsSender
    <3>9. Link(conn[q], d, Consume(segments, n))
      BY Zenon, <2>1, <2>2, <2>4, <3>5, <3>6, <3>7, LinkReceives
    <3> QED
      BY Zenon, <3>2, <3>3, <3>6, <3>8, <3>9, <1>StepFlows DEF q
  <2> QED
    BY Zenon, <2>3, <2>4, SafeReadIs
\* send_message keeps the streams: what is accepted is queued or written.
<1>SendMessageFlows. ASSUME TypeOK, LocalInv, Flows, NEW p \in Peers, safe_link[p] = TRUE, NEW size \in Sizes, SendMessage(p, size)
     PROVE  Flows'
  <2> USE <1>SendMessageFlows
  <2> DEFINE c == conn[p]
             q == Other(p)
  <2>1. c \in Connection /\ Local(c) /\ conn[q] \in Connection
    BY OtherPeer DEF TypeOK, LocalInv
  <2>2. Link(c, conn[q], net[q]) /\ Link(conn[q], c, net[p])
    BY FlowsAre DEF Linked
  <2>3. PICK m \in Text :
          /\ Live(c)
          /\ \/ ~c.is_writing /\ AsyncWrite(p, Sending(c, m), "message", m, TRUE)
             \/ c.is_writing /\ Becomes(p, Taken(c, m)) /\ UNCHANGED net
    BY Zenon, SendMessageIs
  <2> DEFINE a == Taken(c, m)
             b == Sending(c, m)
  <2> HIDE DEF c
  <2>4. m \in Bytes
    BY DEF Text
  <2>5. /\ a \in Connection /\ SameReads(c, a) /\ a.outbound = c.outbound
        /\ a.accepted = Append(c.accepted, m) /\ a.message_queue = Append(c.message_queue, m)
        /\ a.dropped = c.dropped /\ a.shutting_down = c.shutting_down
    BY <2>1, <2>4, TakenIs
  <2>6. /\ b \in Connection /\ SameReads(c, b)
        /\ b.accepted = Append(c.accepted, m) /\ b.message_queue = c.message_queue
        /\ b.dropped = c.dropped /\ b.shutting_down = c.shutting_down
    BY <2>1, <2>4, TakenIs
  <2> HIDE DEF a, b, q
  <2>7. Live(a) /\ a.inbound = c.inbound
    BY Zenon, <2>3, <2>5 DEF Live, SameReads
  <2>8. Link(a, conn[q], net[q])
    BY Zenon, <2>1, <2>2, <2>3, <2>5, <2>7, LinkQueues
  <2>9. Link(conn[q], a, net[p])
    BY <2>2, <2>5, LinkSameReads
  <2>10. CASE ~c.is_writing /\ AsyncWrite(p, Sending(c, m), "message", m, TRUE)
    <3>1. c.inbound = "read" /\ c.outbound = "none" /\ c.message_queue = <<>>
      BY Zenon, <2>1, <2>3, <2>10, ConnectionFields DEF Local, Phase
    <3>2. Linked(p, a)
      BY <2>8, <2>9 DEF Linked, q
    <3>3. a.message_queue # <<>> /\ Head(a.message_queue) = m /\ Tail(a.message_queue) = <<>>
      <4>1. a.message_queue = <<m>>
        BY <2>5, <3>1
      <4> QED
        BY <4>1
    <3>4. SameReads(a, b) /\ b.accepted = a.accepted /\ b.message_queue = Tail(a.message_queue)
      BY <2>5, <2>6, <3>1, <3>3 DEF SameReads
    <3>5. /\ b.dropped = a.dropped /\ b.shutting_down = a.shutting_down
          /\ a.inbound # "ssl_handshake" /\ a.outbound # "ian_handshake"
      BY <2>5, <2>6, <2>7, <3>1
    <3>6. AsyncWrite(p, b, "message", Head(a.message_queue), TRUE)
      BY Zenon, <2>10, <3>3 DEF b
    <3> QED
      BY Zenon, <2>5, <2>6, <2>7, <3>2, <3>3, <3>4, <3>5, <3>6, <1>AsyncWriteFlows
  <2>11. CASE Becomes(p, Taken(c, m)) /\ UNCHANGED net
    <3>1. Becomes(p, a)
      BY <2>11 DEF a
    <3> QED
      BY <2>5, <2>8, <2>9, <2>11, <3>1, <1>StepFlows DEF q
  <2> QED
    BY Zenon, <2>3, <2>10, <2>11
<1> SUFFICES ASSUME TypeOK, LocalInv, FlowInv, [Next]_vars PROVE FlowInv'
  OBVIOUS
<1> SUFFICES ASSUME Safe' PROVE Flows'
  BY DEF FlowInv
<1>1. Flows /\ \A p \in Peers : safe_link[p] = TRUE
  BY Zenon, SafeStays DEF FlowInv
<1>2. ASSUME NEW p \in Peers, Handlers(p) PROVE Flows'
  BY Zenon, <1>1, <1>2, <1>OnSslHandshakeFlows, <1>OnIanHandshakeSentFlows, <1>OnIanHandshakeFlows, <1>OnReadFlows,
     <1>OnWriteMessageFlows, <1>OnShutdownFlows DEF Handlers
<1>3. ASSUME NEW p \in Peers,
             \/ CompleteSslHandshake(p) \/ CompleteRead(p) \/ CompleteWrite(p) \/ CompleteShutdown(p)
             \/ Handlers(p) \/ \E size \in Sizes : SendMessage(p, size)
      PROVE  Flows'
  BY Zenon, <1>1, <1>2, <1>3, <1>CompleteSslHandshakeFlows, <1>CompleteReadFlows, <1>OnShutdownFlows, <1>SendMessageFlows
<1>4. CASE Fail \/ UNCHANGED vars
  BY <1>1, <1>4 DEF Fail, vars, Flows
<1> QED
  BY <1>3, <1>4 DEF Next

\* At first nothing is in the streams.
LEMMA InitFlow == ASSUME Init PROVE FlowInv
<1> SUFFICES ASSUME NEW p \in Peers PROVE Link(conn[p], conn[Other(p)], net[Other(p)])
  BY DEF FlowInv, Flows
<1> DEFINE a == conn[p]
           c == conn[Other(p)]
<1>1. Other(p) \in Peers
  BY OtherPeer
<1>2. /\ a.inbound = "ssl_handshake" /\ a.message_queue = <<>> /\ a.accepted = <<>>
      /\ c.inbound = "ssl_handshake" /\ c.processed = <<>> /\ net[Other(p)] = <<>>
  BY <1>1 DEF Init
<1>3. <<>> \in Seq(Text) /\ Cat(Cat(<<>>, <<>>), <<>>) = <<>>
  <2>1. <<>> \in Seq(Text)
    BY EmptySeq
  <2>2. Cat(<<>>, <<>>) = <<>>
    BY Zenon, <2>1, CatNone
  <2> QED
    BY <2>1, <2>2
<1> HIDE DEF a, c
<1>4. Carries(a, c, <<>>, <<>>, <<>>)
  BY <1>2 DEF Carries, Awaits, Silent
<1>5. Link(a, c, <<>>)
  BY Zenon, <1>2, <1>3, <1>4 DEF Link
<1> QED
  BY <1>2, <1>5 DEF a, c

\* What is processed is before what is on its way and what is not sent.
LEMMA FlowOrders == ASSUME TypeOK, FlowInv PROVE InOrder
<1> SUFFICES ASSUME Safe, NEW p \in Peers
             PROVE  LET got == conn[p].processed
                        given == conn[Other(p)].accepted
                    IN Len(got) <= Len(given) /\ got = SubSeq(given, 1, Len(got))
  BY DEF InOrder
<1> DEFINE got == conn[p].processed
           given == conn[Other(p)].accepted
<1>1. Link(conn[Other(p)], conn[p], net[p])
  BY OtherPeer DEF FlowInv, Flows
<1>2. PICK left \in Seq(Text), lost \in Seq(Text) : Cat(Cat(got, left), lost) = given
  BY <1>1 DEF Link
<1>3. conn[p] \in Connection
  BY DEF TypeOK
<1>4. got \in Seq(Bytes)
  BY <1>3, ConnectionFields
<1>5. left \in Seq(Bytes) /\ lost \in Seq(Bytes)
  BY TextType
<1> HIDE DEF got, given
<1>6. Cat(left, lost) \in Seq(Bytes) /\ Cat(Cat(got, left), lost) = Cat(got, Cat(left, lost))
  BY <1>4, <1>5, CatAssoc, CatType
<1>7. Len(got) <= Len(Cat(got, Cat(left, lost))) /\ got = SubSeq(Cat(got, Cat(left, lost)), 1, Len(got))
  BY <1>4, <1>6, CatPrefix
<1>8. Len(got) <= Len(given) /\ got = SubSeq(given, 1, Len(got))
  BY <1>2, <1>6, <1>7
<1> QED
  BY <1>8 DEF got, given

\* Between two safe links a peer processes the messages that the other one has
\* accepted, whole, in order and none twice, whatever the division of the stream
\* into records and reads, the losses and the closing of either end
\* (send_message, do_write_message, on_ian_handshake, on_read).
THEOREM MessagesInOrder == Spec => []InOrder
<1>1. Init => TypeOK /\ LocalInv /\ FlowInv
  BY InitType, InitLocal, InitFlow
<1>2. TypeOK /\ LocalInv /\ FlowInv /\ [Next]_vars => TypeOK' /\ LocalInv' /\ FlowInv'
  BY NextType, NextLocal, NextFlow
<1>3. TypeOK /\ FlowInv => InOrder
  BY FlowOrders
<1> QED
  BY <1>1, <1>2, <1>3, PTL DEF Spec

--------------------------------------------------------------------------------
(* The checks of the reader never fail between two peers of this code. *)

\* The connection is open and no operation of it has failed.
Calm(c) ==
  /\ Live(c)
  /\ c.inbound_ec \in {"idle", "pending", "ok"} /\ c.write_ec \in {"idle", "pending", "ok"}

\* Nobody has sent a close_notify.
Unclosed(segments) == \A i \in 1 .. Len(segments) : segments[i].kind = "tls"

Calms == \A p \in Peers : Calm(conn[p]) /\ Unclosed(net[p])

\* As long as nothing fails, nobody closes.
CalmInv == Safe /\ ~fault => Calms

\* Records of messages close nothing, and neither does what a read leaves.
LEMMA UnclosedGrows ==
  ASSUME NEW segments \in Seq(Segment), Unclosed(segments), NEW m \in Bytes, NEW records \in Records(m)
  PROVE  Unclosed(Cat(segments, records))
<1>1. ASSUME NEW ss \in Seq(Segment), Unclosed(ss), NEW s \in Segment, s.kind = "tls"
      PROVE  Append(ss, s) \in Seq(Segment) /\ Unclosed(Append(ss, s))
  <2> DEFINE more == Append(ss, s)
             n == Len(ss)
  <2>1. more \in Seq(Segment) /\ Len(more) = n + 1 /\ more[n + 1] = s /\ \A i \in 1 .. n : more[i] = ss[i]
    BY AppendProperties
  <2>2. n \in Nat
    BY LenProperties
  <2>3. \A i \in 1 .. n : ss[i].kind = "tls"
    BY <1>1 DEF Unclosed
  <2> HIDE DEF more, n
  <2>4. \A i \in 1 .. n + 1 : i = n + 1 \/ i \in 1 .. n
    BY <2>2
  <2>5. \A i \in 1 .. n + 1 : more[i].kind = "tls"
    BY <1>1, <2>1, <2>3, <2>4
  <2>6. more \in Seq(Segment) /\ Unclosed(more)
    BY <2>1, <2>5 DEF Unclosed
  <2> QED
    BY <2>6 DEF more
<1> DEFINE prefix == Encode(Len(m))
           a == [kind |-> "tls", bytes |-> Cat(prefix, m)]
           b == [kind |-> "tls", bytes |-> prefix]
           d == [kind |-> "tls", bytes |-> m]
<1>2. prefix \in Bytes /\ Cat(prefix, m) \in Bytes
  BY PrefixType DEF Cat
<1>3. /\ a \in Segment /\ b \in Segment /\ d \in Segment
      /\ a.kind = "tls" /\ b.kind = "tls" /\ d.kind = "tls"
  BY <1>2 DEF Segment, Bytes
<1>4. records = <<a>> \/ records = <<b, d>>
  BY RecordsAre
<1> HIDE DEF a, b, d
<1>5. CASE records = <<a>>
  <2>1. Cat(segments, records) = Append(segments, a)
    BY <1>3, <1>5, CatOne
  <2> QED
    BY <1>1, <1>3, <2>1
<1>6. CASE records = <<b, d>>
  <2>1. Cat(segments, records) = Append(Append(segments, b), d)
    BY <1>3, <1>6, CatTwo
  <2>2. Append(segments, b) \in Seq(Segment) /\ Unclosed(Append(segments, b))
    BY <1>1, <1>3
  <2> QED
    BY Zenon, <1>1, <1>3, <2>1, <2>2
<1> QED
  BY <1>4, <1>5, <1>6

\* What a read leaves of a stream closes nothing.
LEMMA UnclosedShrinks ==
  ASSUME NEW segments \in Seq(Segment), segments # <<>>, Unclosed(segments), NEW n
  PROVE  Head(segments).kind = "tls" /\ Unclosed(Consume(segments, n))
<1> DEFINE size == Len(segments)
           tail == Tail(segments)
<1>1. size \in Nat \ {0} /\ Head(segments) = segments[1]
  BY EmptySeq, HeadTailProperties
<1>2. Head(segments).kind = "tls"
  BY <1>1 DEF Unclosed
<1>3. tail \in Seq(Segment) /\ Len(tail) = size - 1 /\ \A i \in 1 .. Len(tail) : tail[i] = segments[i + 1]
  BY HeadTailProperties
<1>4. Unclosed(tail)
  <2>1. \A i \in 1 .. size : segments[i].kind = "tls"
    BY DEF Unclosed
  <2> DEFINE k == Len(tail)
  <2>2. k = size - 1
    BY <1>3
  <2> HIDE DEF size, k, tail
  <2>3. \A i \in 1 .. k : i + 1 \in 1 .. size
    BY <1>1, <2>2
  <2>4. \A i \in 1 .. k : tail[i].kind = "tls"
    BY <1>3, <2>1, <2>3 DEF k
  <2> QED
    BY <2>4 DEF Unclosed, k
<1> DEFINE rest == Drop(segments[1].bytes, n)
           less == [segments EXCEPT ![1].bytes = rest]
<1>5. Consume(segments, n) = tail \/ Consume(segments, n) = less
  BY DEF Consume
<1>6. Unclosed(less)
  <2> HIDE DEF rest
  <2>1. segments \in [1 .. size -> Segment] /\ 1 \in 1 .. size
    BY <1>1, LenProperties
  <2>2. Len(less) = size
    BY <1>1, <2>1
  <2>3. \A i \in 1 .. size : less[i].kind = segments[i].kind
    BY <2>1 DEF Segment
  <2> HIDE DEF less
  <2> QED
    BY <2>2, <2>3 DEF Unclosed
<1> QED
  BY Zenon, <1>2, <1>4, <1>5, <1>6

\* A step stays calm when it neither closes nor sends a close_notify.
LEMMA StepCalms ==
  ASSUME TypeOK, NEW p \in Peers, NEW d \in Connection, Becomes(p, d), Calm(d), Calms,
         Unclosed(net'[p]), Unclosed(net'[Other(p)])
  PROVE  Calms'
<1>1. conn'[p] = d /\ conn'[Other(p)] = conn[Other(p)] /\ Other(p) \in Peers
  BY BecomesType, OtherPeer DEF TypeOK
<1>2. Calm(conn[Other(p)])
  BY <1>1 DEF Calms
<1>3. Calm(conn'[p]) /\ Calm(conn'[Other(p)])
  BY <1>1, <1>2
<1>4. \A q \in Peers : q = p \/ q = Other(p)
  BY DEF Peers, Other
<1>5. \A q \in Peers : Calm(conn'[q]) /\ Unclosed(net'[q])
  BY <1>3, <1>4
<1> QED
  BY <1>5 DEF Calms

\* So does one that sends nothing.
LEMMA QuietCalms ==
  ASSUME TypeOK, NEW p \in Peers, NEW d \in Connection, Becomes(p, d), Calm(d), Calms, UNCHANGED net
  PROVE  Calms'
<1>1. Unclosed(net[p]) /\ Unclosed(net[Other(p)])
  BY OtherPeer DEF Calms
<1> QED
  BY <1>1, StepCalms

\* Starting a write closes nothing.
LEMMA AsyncWriteCalms ==
  ASSUME TypeOK, Calms, NEW p \in Peers, NEW c \in Connection, Live(c),
         c.inbound_ec \in {"idle", "pending", "ok"},
         NEW handler \in {"ian_handshake", "message"}, NEW m \in Bytes, AsyncWrite(p, c, handler, m, TRUE)
  PROVE  Calms'
<1> DEFINE d == Writing(c, handler)
           q == Other(p)
<1>1. /\ d \in Connection /\ d.write_ec = "pending" /\ SameReads(c, d)
      /\ d.dropped = c.dropped /\ d.shutting_down = c.shutting_down
  BY WritingIs
<1>2. Becomes(p, d)
  BY DEF AsyncWrite, Writing
<1>3. PICK records \in Records(m) : net' = [net EXCEPT ![q] = Cat(net[q], records)]
  BY DEF AsyncWrite, Cat, Live
<1>4. q \in Peers /\ q # p /\ net[q] \in Seq(Segment) /\ Unclosed(net[q]) /\ Unclosed(net[p])
  BY OtherPeer DEF TypeOK, Calms
<1>5. net'[q] = Cat(net[q], records) /\ net'[p] = net[p]
  BY <1>3, <1>4 DEF TypeOK
<1> HIDE DEF d, q
<1>6. Unclosed(net'[q]) /\ Unclosed(net'[p])
  BY <1>4, <1>5, UnclosedGrows
<1>7. Calm(d)
  BY <1>1 DEF Calm, Live, SameReads
<1> QED
  BY <1>1, <1>2, <1>6, <1>7, StepCalms DEF q

\* Writing the next message closes nothing.
LEMMA WriteNextCalms ==
  ASSUME TypeOK, Calms, NEW p \in Peers, safe_link[p] = TRUE, NEW c \in Connection, Calm(c), WriteNext(p, c)
  PROVE  Calms'
<1>1. CASE c.message_queue # <<>>
  <2> DEFINE b == Popped(c)
             m == Head(c.message_queue)
  <2>1. AsyncWrite(p, b, "message", m, TRUE)
    BY Zenon, <1>1 DEF WriteNext, DoWriteMessage, Popped
  <2>2. /\ b \in Connection /\ SameReads(c, b)
        /\ b.dropped = c.dropped /\ b.shutting_down = c.shutting_down
    BY <1>1, NextWriteIs
  <2>3. c.message_queue \in Seq(Bytes)
    BY ConnectionFields
  <2>4. m \in Bytes
    BY <1>1, <2>3, HeadTailProperties
  <2> HIDE DEF b, m
  <2>5. Live(b) /\ b.inbound_ec \in {"idle", "pending", "ok"}
    BY <2>2 DEF Calm, Live, SameReads
  <2> QED
    BY Zenon, <2>1, <2>2, <2>4, <2>5, AsyncWriteCalms
<1>2. CASE c.message_queue = <<>>
  <2> DEFINE d == Rested(c)
  <2>1. Becomes(p, d) /\ UNCHANGED net
    BY <1>2 DEF WriteNext, Rested
  <2>2. /\ d \in Connection /\ SameReads(c, d) /\ SameWrites(c, d)
        /\ d.dropped = c.dropped /\ d.shutting_down = c.shutting_down
    BY NextWriteIs
  <2> HIDE DEF d
  <2>3. Calm(d)
    BY <2>2 DEF Calm, Live, SameReads, SameWrites
  <2> QED
    BY <2>1, <2>2, <2>3, QuietCalms
<1> QED
  BY <1>1, <1>2

\* A handler of a calm connection brings no error.
LEMMA CalmResults ==
  ASSUME NEW c, Calm(c)
  PROVE  (c.inbound_ec \in Results => c.inbound_ec = "ok") /\ (c.write_ec \in Results => c.write_ec = "ok")
BY DEF Calm, Results

\* on_ssl_handshake closes nothing: there is a handshake to send.
LEMMA OnSslHandshakeCalms ==
  ASSUME TypeOK, Calms, HandshakeSize # 0, NEW p \in Peers, OnSslHandshake(p)
  PROVE  Calms'
<1> DEFINE b == conn[p]
           c == EndRead(b)
<1>1. b \in Connection /\ Calm(b) /\ b.inbound_ec \in Results
  BY DEF TypeOK, Calms, OnSslHandshake
<1>2. b.inbound_ec = "ok"
  BY <1>1, CalmResults
<1>3. AsyncWrite(p, c, "ian_handshake", Zeros, TRUE)
  BY Zenon, <1>2 DEF OnSslHandshake, Zeros
<1>4. Zeros \in Bytes
  BY LinkAssumption DEF Zeros, Bytes, Byte
<1> HIDE DEF b
<1>5. c \in Connection /\ c.inbound_ec = "idle" /\ c.dropped = b.dropped /\ c.shutting_down = b.shutting_down
  BY <1>1, EndsAre, EndsType
<1> HIDE DEF c
<1>6. Live(c)
  BY <1>1, <1>5 DEF Calm, Live
<1> QED
  BY Zenon, <1>3, <1>4, <1>5, <1>6, AsyncWriteCalms

\* on_ian_handshake_sent closes nothing.
LEMMA OnIanHandshakeSentCalms ==
  ASSUME TypeOK, Calms, NEW p \in Peers, OnIanHandshakeSent(p)
  PROVE  Calms'
<1> DEFINE b == conn[p]
           c == EndWrite(b)
           d == StartRead(c, "ian_handshake")
<1>1. b \in Connection /\ Calm(b) /\ b.write_ec \in Results
  BY DEF TypeOK, Calms, OnIanHandshakeSent
<1>2. b.write_ec = "ok"
  BY <1>1, CalmResults
<1>3. Becomes(p, d) /\ UNCHANGED net
  BY <1>2 DEF OnIanHandshakeSent
<1> HIDE DEF b
<1>4. c \in Connection /\ c.write_ec = "idle" /\ c.dropped = b.dropped /\ c.shutting_down = b.shutting_down
  BY <1>1, EndsAre, EndsType
<1> HIDE DEF c
<1>5. /\ d \in Connection /\ d.inbound_ec = "pending" /\ SameWrites(c, d)
      /\ d.dropped = c.dropped /\ d.shutting_down = c.shutting_down
  BY <1>4, StartReadIs, EndsType
<1> HIDE DEF d
<1>6. Calm(d)
  BY <1>1, <1>4, <1>5 DEF Calm, Live, SameWrites
<1> QED
  BY <1>3, <1>5, <1>6, QuietCalms

\* on_ian_handshake closes nothing: the length it finds is that of the handshake.
LEMMA OnIanHandshakeCalms ==
  ASSUME TypeOK, LocalInv, Flows, Calms, NEW p \in Peers, safe_link[p] = TRUE, OnIanHandshake(p)
  PROVE  Calms'
<1> DEFINE b == conn[p]
           q == Other(p)
           t == TakeLength(b.in_message_len, Cat(b.read_buffer, b.chunk))
           again == StartRead(ReadOn(b, t.len, t.buffer), "ian_handshake")
           done == StartRead(ReadOn(b, 0, <<>>), "read")
<1>1. b \in Connection /\ Local(b) /\ Calm(b) /\ b.inbound = "ian_handshake" /\ b.inbound_ec \in Results
  BY DEF TypeOK, LocalInv, Calms, OnIanHandshake
<1>2. b.inbound_ec = "ok"
  BY <1>1, CalmResults
<1>3. IanHandshakeData(p, b)
  BY <1>2 DEF OnIanHandshake
<1>4. Link(conn[q], b, net[p])
  BY FlowsAre DEF Linked
<1> HIDE DEF b
<1>5. \E stream \in Bytes : InFlight(b, net[p], stream)
  <2>1. ~Awaits(b) /\ Alive(b)
    BY <1>1, <1>2 DEF Awaits, Alive, Local, Phase
  <2> QED
    BY <1>4, <2>1 DEF Link, Carries
<1>6. /\ ~(b.in_message_len = 0 /\ Len(Cat(b.read_buffer, b.chunk)) < PrefixSize)
      /\ t.len = HandshakeSize /\ HandshakeSize # 0 /\ t.buffer \in Bytes /\ Len(t.buffer) <= HandshakeSize
  BY <1>1, <1>2, <1>5, HandshakeArrives
<1>7. /\ HandshakeSize \in Nat /\ Len(t.buffer) \in Nat
  BY <1>6, LinkAssumption, LenProperties DEF Bytes
<1>8. \/ t.len \in Nat /\ t.buffer \in Bytes /\ UNCHANGED net /\ Becomes(p, again)
      \/ WriteNext(p, done)
  <2>1. \/ \/ b.in_message_len = 0 /\ Len(Cat(b.read_buffer, b.chunk)) < PrefixSize
           \/ t.len = 0 \/ Len(t.buffer) > t.len
        \/ t.len \in Nat /\ t.buffer \in Bytes /\ UNCHANGED net /\ Becomes(p, again)
        \/ WriteNext(p, done)
    BY <1>1, <1>3, IanHandshakeDataIs
  <2> HIDE DEF t, again, done
  <2> QED
    BY <1>6, <1>7, <2>1
<1>9. CASE t.len \in Nat /\ t.buffer \in Bytes /\ UNCHANGED net /\ Becomes(p, again)
  <2> DEFINE len == t.len
             buffer == t.buffer
             c == ReadOn(b, len, buffer)
             d == StartRead(c, "ian_handshake")
  <2>1. Becomes(p, d) /\ len \in Nat /\ buffer \in Bytes
    BY <1>9
  <2> HIDE DEF len, buffer
  <2>2. c \in Connection /\ SameWrites(b, c) /\ c.dropped = b.dropped /\ c.shutting_down = b.shutting_down
    BY <1>1, <2>1, ReadOnIs
  <2> HIDE DEF c
  <2>3. /\ d \in Connection /\ d.inbound_ec = "pending" /\ SameWrites(c, d)
        /\ d.dropped = c.dropped /\ d.shutting_down = c.shutting_down
    BY <2>2, StartReadIs, EndsType
  <2> HIDE DEF d
  <2>4. Calm(d)
    BY <1>1, <2>2, <2>3 DEF Calm, Live, SameWrites
  <2> QED
    BY <1>9, <2>1, <2>3, <2>4, QuietCalms
<1>10. CASE WriteNext(p, done)
  <2> DEFINE c == ReadOn(b, 0, <<>>)
             d == StartRead(c, "read")
  <2>1. <<>> \in Bytes /\ 0 \in Nat
    BY EmptySeq DEF Bytes
  <2>2. c \in Connection /\ SameWrites(b, c) /\ c.dropped = b.dropped /\ c.shutting_down = b.shutting_down
    BY <1>1, <2>1, ReadOnIs
  <2>3. WriteNext(p, d)
    BY <1>10
  <2> HIDE DEF c
  <2>4. /\ d \in Connection /\ d.inbound_ec = "pending" /\ SameWrites(c, d)
        /\ d.dropped = c.dropped /\ d.shutting_down = c.shutting_down
    BY <2>2, StartReadIs, EndsType
  <2> HIDE DEF d
  <2>5. Calm(d)
    BY <1>1, <2>2, <2>4 DEF Calm, Live, SameWrites
  <2> QED
    BY Zenon, <2>3, <2>4, <2>5, WriteNextCalms
<1> QED
  BY <1>8, <1>9, <1>10

\* No length that the reader decodes is 0, as no message is empty.
LEMMA OnReadCalms ==
  ASSUME TypeOK, LocalInv, Flows, Calms, 0 \notin Sizes, NEW p \in Peers, OnRead(p)
  PROVE  Calms'
<1> DEFINE b == conn[p]
           q == Other(p)
           r == ReadLoop(b.in_message_len, Cat(b.read_buffer, b.chunk))
           c == ReadMore(b, r.len, r.buffer, r.messages)
           d == StartRead(c, "read")
<1>1. b \in Connection /\ Local(b) /\ Calm(b) /\ net[p] \in Seq(Segment)
  BY DEF TypeOK, LocalInv, Calms
<1>2. Link(conn[q], b, net[p])
  BY FlowsAre DEF Linked
<1>3. /\ b.inbound = "read" /\ b.inbound_ec \in Results /\ r \in RoundState
      /\ r.len \in Nat /\ r.buffer \in Bytes /\ r.messages \in Seq(Bytes)
      /\ \/ b.inbound_ec # "ok"
         \/ r.end = "invalid"
         \/ Becomes(p, d) /\ UNCHANGED net
  BY OnReadIs
<1>4. b.inbound_ec = "ok"
  BY <1>1, <1>3, CalmResults
<1>5. r = ReadLoop(b.in_message_len, Cat(b.read_buffer, b.chunk))
  OBVIOUS
<1> HIDE DEF b, r, q
<1>6. r.end # "invalid"
  <2> DEFINE a == conn[q]
             ss == net[p]
  <2>3. Link(a, b, ss) /\ ss \in Seq(Segment)
    BY <1>1, <1>2
  <2> HIDE DEF a, ss
  <2>1. \E left \in Seq(Text) : r.end = "invalid" => left # <<>> /\ Len(Head(left)) = 0
    BY Zenon, <1>1, <1>3, <1>4, <1>5, <2>3, LoopInStep
  <2>2. ASSUME NEW left \in Seq(Text), left # <<>> PROVE Len(Head(left)) # 0
    BY <2>2, TextType DEF Text
  <2> QED
    BY <2>1, <2>2
<1>7. /\ c \in Connection /\ SameWrites(b, c) /\ c.dropped = b.dropped /\ c.shutting_down = b.shutting_down
  <2>1. b \in Connection
    BY <1>1
  <2>2. r.len \in Nat /\ r.buffer \in Bytes /\ r.messages \in Seq(Bytes)
    BY <1>3
  <2>3. Advances(b, c, r.len, r.buffer, r.messages)
    BY <2>1, <2>2, ReadMoreIs
  <2> QED
    BY <2>3 DEF Advances
<1> HIDE DEF c
<1>8. /\ d \in Connection /\ d.inbound_ec = "pending" /\ SameWrites(c, d)
      /\ d.dropped = c.dropped /\ d.shutting_down = c.shutting_down
  BY <1>7, StartReadIs, EndsType
<1> HIDE DEF d
<1>9. Calm(d)
  BY <1>1, <1>7, <1>8 DEF Calm, Live, SameWrites
<1> QED
  BY <1>3, <1>4, <1>6, <1>8, <1>9, QuietCalms

\* on_write_message closes nothing.
LEMMA OnWriteMessageCalms ==
  ASSUME TypeOK, Calms, NEW p \in Peers, safe_link[p] = TRUE, OnWriteMessage(p)
  PROVE  Calms'
<1> DEFINE b == conn[p]
           c == EndWrite(b)
<1>1. b \in Connection /\ Calm(b) /\ b.write_ec \in Results
  BY DEF TypeOK, Calms, OnWriteMessage
<1>2. b.write_ec = "ok"
  BY <1>1, CalmResults
<1>3. WriteNext(p, c)
  BY <1>2 DEF OnWriteMessage
<1> HIDE DEF b
<1>4. /\ c \in Connection /\ c.write_ec = "idle" /\ SameReads(b, c)
      /\ c.dropped = b.dropped /\ c.shutting_down = b.shutting_down
  BY <1>1, EndsAre, EndsType
<1> HIDE DEF c
<1>5. Calm(c)
  BY <1>1, <1>4 DEF Calm, Live, SameReads
<1> QED
  BY Zenon, <1>3, <1>4, <1>5, WriteNextCalms

\* Nothing is shut down, and no operation fails.
LEMMA CompletesCalms ==
  ASSUME TypeOK, LocalInv, Calms, ~fault, NEW p \in Peers
  PROVE  /\ ~OnShutdown(p) /\ ~CompleteShutdown(p) /\ Failures(p) = {}
         /\ CompleteSslHandshake(p) \/ CompleteWrite(p) => Calms'
<1> DEFINE c == conn[p]
<1>1. c \in Connection /\ Local(c) /\ Calm(c) /\ Calm(conn[Other(p)])
  BY OtherPeer DEF TypeOK, LocalInv, Calms
<1>2. c.shutdown_ec = "idle"
  BY <1>1 DEF Local, Settled, Calm, Live
<1>3. Failures(p) = {}
  BY <1>1 DEF Failures, Calm, Live
<1>4. ~OnShutdown(p) /\ ~CompleteShutdown(p)
  BY <1>2 DEF OnShutdown, CompleteShutdown
<1>5. ASSUME CompleteSslHandshake(p) PROVE Calms'
  <2> DEFINE d == [c EXCEPT !.inbound_ec = "ok"]
  <2>1. Becomes(p, d) /\ UNCHANGED net
    BY <1>3, <1>5 DEF CompleteSslHandshake
  <2>2. d \in Connection /\ Calm(d)
    BY Zenon, <1>1 DEF Connection, OpStates, Results, Calm, Live
  <2> QED
    BY <2>1, <2>2, QuietCalms
<1>6. ASSUME CompleteWrite(p) PROVE Calms'
  <2> DEFINE d == [c EXCEPT !.write_ec = "ok"]
  <2>1. Becomes(p, d) /\ UNCHANGED net
    BY <1>3, <1>6 DEF CompleteWrite
  <2>2. d \in Connection /\ Calm(d)
    BY Zenon, <1>1 DEF Connection, OpStates, Results, Calm, Live
  <2> QED
    BY <2>1, <2>2, QuietCalms
<1> QED
  BY <1>3, <1>4, <1>5, <1>6

\* Without a fault a read does not fail.
LEMMA CompleteReadCalms ==
  ASSUME TypeOK, LocalInv, Calms, ~fault, NEW p \in Peers, safe_link[p] = TRUE, CompleteRead(p)
  PROVE  Calms'
<1> DEFINE c == conn[p]
           segments == net[p]
           q == Other(p)
<1>1. c \in Connection /\ Calm(c) /\ segments \in Seq(Segment) /\ Unclosed(segments)
  BY DEF TypeOK, Calms
<1>2. q \in Peers /\ q # p /\ Unclosed(net[q])
  BY OtherPeer DEF Calms
<1>3. Failures(p) = {}
  BY CompletesCalms
<1>4. segments # <<>> => Head(segments).kind = "tls"
  BY <1>1, UnclosedShrinks
<1>5. /\ segments # <<>>
      /\ \E n \in Portions(c, Head(segments)) :
           /\ Received(p, SubSeq(Head(segments).bytes, 1, n))
           /\ net' = [net EXCEPT ![p] = Consume(segments, n)]
  BY Zenon, <1>3, <1>4, SafeReadIs
<1>6. PICK n \in Portions(c, Head(segments)) :
        /\ Received(p, SubSeq(Head(segments).bytes, 1, n))
        /\ net' = [net EXCEPT ![p] = Consume(segments, n)]
  BY Zenon, <1>5
<1>7. net'[p] = Consume(segments, n) /\ net'[q] = net[q]
  BY <1>2, <1>6 DEF TypeOK
<1>8. Unclosed(net'[p]) /\ Unclosed(net'[q])
  BY <1>1, <1>2, <1>5, <1>7, UnclosedShrinks
<1> DEFINE bytes == SubSeq(Head(segments).bytes, 1, n)
           d == [c EXCEPT !.inbound_ec = "ok", !.chunk = bytes]
<1>9. Becomes(p, d)
  BY <1>6 DEF Received
<1>10. bytes \in Bytes
  <2> DEFINE size == Len(Head(segments).bytes)
  <2>1. Head(segments) \in Segment
    BY <1>1, <1>5, HeadTailProperties
  <2>2. Head(segments).bytes \in Seq(Byte)
    BY <2>1 DEF Segment
  <2>3. size \in Nat
    BY <2>2, LenProperties
  <2>4. n \in 0 .. size
    BY <2>3 DEF Portions
  <2> QED
    BY <2>2, <2>4, CatCut DEF Bytes
<1> HIDE DEF c, bytes
<1>11. d \in Connection
  BY Zenon, <1>1, <1>10 DEF Connection, OpStates, Results, Bytes
<1>12. Calm(d)
  BY <1>1 DEF Connection, Calm, Live
<1> HIDE DEF d
<1> QED
  BY <1>8, <1>9, <1>11, <1>12, StepCalms

\* send_message closes nothing.
LEMMA SendMessageCalms ==
  ASSUME TypeOK, Calms, NEW p \in Peers, safe_link[p] = TRUE, NEW size \in Sizes, SendMessage(p, size)
  PROVE  Calms'
<1> DEFINE c == conn[p]
<1>1. c \in Connection /\ Calm(c)
  BY DEF TypeOK, Calms
<1>2. PICK m \in Text :
        \/ AsyncWrite(p, Sending(c, m), "message", m, TRUE)
        \/ Becomes(p, Taken(c, m)) /\ UNCHANGED net
  BY Zenon, SendMessageIs
<1> DEFINE a == Taken(c, m)
           b == Sending(c, m)
<1> HIDE DEF c
<1>3. m \in Bytes
  BY DEF Text
<1>4. /\ a \in Connection /\ SameReads(c, a) /\ a.write_ec = c.write_ec
      /\ a.dropped = c.dropped /\ a.shutting_down = c.shutting_down
  BY <1>1, <1>3, TakenIs
<1>5. /\ b \in Connection /\ SameReads(c, b) /\ b.dropped = c.dropped /\ b.shutting_down = c.shutting_down
  BY <1>1, <1>3, TakenIs
<1>6. CASE AsyncWrite(p, b, "message", m, TRUE)
  <2> HIDE DEF b
  <2>1. Live(b) /\ b.inbound_ec \in {"idle", "pending", "ok"}
    BY <1>1, <1>5 DEF Calm, Live, SameReads
  <2> QED
    BY Zenon, <1>3, <1>5, <1>6, <2>1, AsyncWriteCalms
<1>7. CASE Becomes(p, a) /\ UNCHANGED net
  <2> HIDE DEF a
  <2>1. Calm(a)
    BY <1>1, <1>4 DEF Calm, Live, SameReads
  <2> QED
    BY <1>4, <1>7, <2>1, QuietCalms
<1> QED
  BY Zenon, <1>2, <1>6, <1>7

\* Without a fault no step closes anything.
LEMMA NextCalm ==
  ASSUME TypeOK, LocalInv, FlowInv, CalmInv, 0 \notin Sizes, HandshakeSize # 0, [Next]_vars
  PROVE  CalmInv'
<1> SUFFICES ASSUME Safe', ~fault' PROVE Calms'
  BY DEF CalmInv
<1>1. ~fault
  <2>1. ASSUME NEW p \in Peers, Handlers(p) PROVE UNCHANGED fault
    BY Zenon, <2>1 DEF Handlers, OnSslHandshake, OnIanHandshakeSent, OnIanHandshake, OnRead, OnWriteMessage, OnShutdown
  <2> QED
    BY Zenon, <2>1 DEF Next, vars, CompleteSslHandshake, CompleteRead, CompleteWrite, CompleteShutdown, SendMessage, Fail
<1>2. Flows /\ Calms /\ \A p \in Peers : safe_link[p] = TRUE
  BY Zenon, <1>1, SafeStays DEF FlowInv, CalmInv
<1>3. ASSUME NEW p \in Peers, Handlers(p) PROVE Calms'
  BY Zenon, <1>1, <1>2, <1>3, OnSslHandshakeCalms, OnIanHandshakeSentCalms, OnIanHandshakeCalms, OnReadCalms,
     OnWriteMessageCalms, CompletesCalms DEF Handlers
<1>4. ASSUME NEW p \in Peers,
             \/ CompleteSslHandshake(p) \/ CompleteRead(p) \/ CompleteWrite(p) \/ CompleteShutdown(p)
             \/ Handlers(p) \/ \E size \in Sizes : SendMessage(p, size)
      PROVE  Calms'
  BY Zenon, <1>1, <1>2, <1>3, <1>4, CompletesCalms, CompleteReadCalms, SendMessageCalms
<1>5. CASE Fail
  BY <1>5 DEF Fail
<1>6. CASE UNCHANGED vars
  BY <1>2, <1>6 DEF vars, Calms
<1> QED
  BY <1>4, <1>5, <1>6 DEF Next

\* At first nothing is closed.
LEMMA InitCalm == ASSUME Init PROVE CalmInv
<1>1. Len(<<>>) = 0
  BY EmptySeq
<1>2. \A p \in Peers : Calm(conn[p]) /\ Unclosed(net[p])
  BY <1>1 DEF Init, Calm, Live, Unclosed
<1> QED
  BY <1>2 DEF CalmInv, Calms

\* Between two safe links, as long as no empty message is sent and the handshake
\* is not the empty Message, only a fault closes a connection: neither the checks
\* of on_ian_handshake on what it has read nor that of on_read on a length ever
\* shuts one down.
THEOREM OnlyFaultsClose ==
  ASSUME 0 \notin Sizes, HandshakeSize # 0
  PROVE  Spec => []Undisturbed
<1>1. Init => TypeOK /\ LocalInv /\ FlowInv /\ CalmInv
  BY InitType, InitLocal, InitFlow, InitCalm
<1>2. TypeOK /\ LocalInv /\ FlowInv /\ CalmInv /\ [Next]_vars => TypeOK' /\ LocalInv' /\ FlowInv' /\ CalmInv'
  BY NextType, NextLocal, NextFlow, NextCalm
<1>3. CalmInv => Undisturbed
  BY DEF CalmInv, Calms, Calm, Live, Undisturbed, IsOpen
<1> QED
  BY <1>1, <1>2, <1>3, PTL DEF Spec
================================================================================
