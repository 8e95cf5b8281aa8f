-------------------------- MODULE ClusterStreamProofs --------------------------
(***************************************************************************)
(* The stream of messages from one server to the other, when both links    *)
(* are safe.  Link says where the messages are that one connection has     *)
(* accepted: the other has processed them, or they are on their way, whole *)
(* or in parts, or they wait in the queue.  The lemmas say how each thing  *)
(* that a sender or a reader does keeps it so.                             *)
(***************************************************************************)
EXTENDS ClusterLinkProofs

\* The peer has not sent its handshake, or will not.
Silent(c) == c.inbound = "ssl_handshake" \/ c.dropped

\* Nothing of the stream has been read yet, and it will be.
Awaits(c) ==
  \/ c.inbound = "ssl_handshake" \/ c.outbound = "ian_handshake"
  \/ c.inbound = "ian_handshake" /\ c.in_message_len = 0 /\ c.inbound_ec # "ok"

\* The handler still runs that reads the stream.
Alive(c) == c.inbound # "none" \/ c.outbound = "ian_handshake"

Zeros == [k \in 1 .. HandshakeSize |-> 0]

\* n bytes of the handshake, a record, are before the stream of messages.
Skips(n, segments, stream) ==
  IF n = 0 THEN Payload(segments) = stream
  ELSE /\ segments # <<>> /\ Len(Head(segments).bytes) = n
       /\ Payload(Tail(segments)) = stream

\* The first record is the handshake, or its prefix.
Opens(bytes, segments, stream) ==
  /\ HandshakeSize # 0
  /\ \/ bytes = Cat(Encode(HandshakeSize), Zeros) /\ Skips(0, segments, stream)
     \/ bytes = Encode(HandshakeSize) /\ Skips(HandshakeSize, segments, stream)

\* How much of the handshake has been read.
Held(c) == Len(c.read_buffer) + Len(c.chunk)

\* The stream of messages, as the reader finds it in each phase.
InFlight(c, segments, stream) ==
  /\ Awaits(c) => segments # <<>> /\ Opens(Head(segments).bytes, Tail(segments), stream)
  /\ c.inbound = "ian_handshake" /\ c.in_message_len = 0 /\ c.inbound_ec = "ok" =>
       Opens(c.chunk, segments, stream)
  /\ c.inbound = "ian_handshake" /\ c.in_message_len # 0 =>
       /\ c.in_message_len = HandshakeSize
       /\ Held(c) <= HandshakeSize /\ (c.inbound_ec # "ok" => Held(c) < HandshakeSize)
       /\ Skips(HandshakeSize - Held(c), segments, stream)
  /\ c.inbound = "read" => Cat(Cat(c.read_buffer, c.chunk), Payload(segments)) = stream

\* Where the reader is in the stream.
Expects(c) == IF c.inbound = "read" THEN c.in_message_len ELSE 0

\* The messages left are on their way from a to c, those of lost are not sent.
Carries(a, c, segments, left, lost) ==
  /\ Live(a) => lost = a.message_queue
  /\ a.inbound = "ssl_handshake" => segments = <<>> /\ Awaits(c)
  /\ \/ Awaits(c) /\ segments = <<>> /\ left = <<>> /\ Silent(a)
     \/ \E stream \in Bytes : Reads(Expects(c), stream, left) /\ InFlight(c, segments, stream)

\* What a has accepted is what c has processed, what is on its way, and the rest.
Link(a, c, segments) ==
  \E left, lost \in Seq(Text) :
    /\ Cat(Cat(c.processed, left), lost) = a.accepted
    /\ Alive(c) => Carries(a, c, segments, left, lost)

\* Both directions.
Flows == \A p \in Peers : Link(conn[p], conn[Other(p)], net[Other(p)])

FlowInv == Safe => Flows

\* The first of a sequence that grows stays, and the others grow.
LEMMA AppendFirst ==
  ASSUME NEW S, NEW s \in Seq(S), s # <<>>, NEW x \in S
  PROVE  /\ Append(s, x) \in Seq(S) /\ Append(s, x) # <<>> /\ Tail(s) \in Seq(S)
         /\ Head(Append(s, x)) = Head(s) /\ Tail(Append(s, x)) = Append(Tail(s), x)
<1> DEFINE t == Append(s, x)
<1>1. t \in Seq(S) /\ t # <<>> /\ Len(t) = Len(s) + 1 /\ t[Len(s) + 1] = x /\ \A i \in 1 .. Len(s) : t[i] = s[i]
  BY AppendProperties
<1>2. Len(s) \in Nat \ {0}
  BY EmptySeq
<1>3. Tail(s) \in Seq(S) /\ Len(Tail(s)) = Len(s) - 1 /\ \A i \in 1 .. Len(Tail(s)) : Tail(s)[i] = s[i + 1]
  BY HeadTailProperties
<1> HIDE DEF t
<1>4. Tail(t) \in Seq(S) /\ Len(Tail(t)) = Len(t) - 1 /\ \A i \in 1 .. Len(Tail(t)) : Tail(t)[i] = t[i + 1]
  BY <1>1, HeadTailProperties
<1>5. Head(t) = Head(s)
  BY <1>1, <1>2
<1> DEFINE u == Append(Tail(s), x)
<1>6. u \in Seq(S) /\ Len(u) = Len(Tail(s)) + 1 /\ u[Len(Tail(s)) + 1] = x /\ \A i \in 1 .. Len(Tail(s)) : u[i] = Tail(s)[i]
  BY <1>3, AppendProperties
<1> HIDE DEF u
<1>7. Len(u) = Len(Tail(t)) /\ Len(u) = Len(s)
  BY <1>1, <1>2, <1>3, <1>4, <1>6
<1>8. ASSUME NEW i \in 1 .. Len(u) PROVE u[i] = Tail(t)[i]
  <2>1. CASE i = Len(s)
    BY <1>1, <1>2, <1>3, <1>4, <1>6, <1>7, <2>1
  <2>2. CASE i # Len(s)
    <3> DEFINE n == Len(s)
               m == Len(Tail(s))
    <3>0. m = n - 1 /\ n \in Nat /\ i \in 1 .. n /\ i # n /\ Len(Tail(t)) = n
      BY Zenon, <1>2, <1>3, <1>7, <2>2
    <3> HIDE DEF n, m
    <3>4. i \in 1 .. m /\ i \in 1 .. n /\ i + 1 \in 1 .. n
      BY <3>0
    <3>1. i \in 1 .. Len(Tail(s)) /\ i \in 1 .. Len(Tail(t)) /\ i + 1 \in 1 .. Len(s)
      BY Zenon, <3>0, <3>4 DEF n, m
    <3>2. u[i] = Tail(s)[i] /\ Tail(s)[i] = s[i + 1]
      BY <1>3, <1>6, <3>1
    <3>3. Tail(t)[i] = t[i + 1] /\ t[i + 1] = s[i + 1]
      BY <1>1, <1>4, <3>1
    <3> QED
      BY Zenon, <3>2, <3>3
  <2> QED
    BY Zenon, <2>1, <2>2
<1>9. u = Tail(t)
  BY Zenon, <1>4, <1>6, <1>7, <1>8, SeqEqual
<1> QED
  BY <1>1, <1>3, <1>5, <1>9 DEF t, u

\* A message that is appended to the last part is appended to the whole.
LEMMA CatAppend ==
  \A s, t \in Seq(Bytes) : \A x \in Bytes : Cat(s, Append(t, x)) = Append(Cat(s, t), x)
<1> SUFFICES ASSUME NEW s \in Seq(Bytes), NEW t \in Seq(Bytes), NEW x \in Bytes
             PROVE  Cat(s, Append(t, x)) = Append(Cat(s, t), x)
  OBVIOUS
<1> DEFINE one == <<x>>
<1>1. one \in Seq(Bytes) /\ Append(t, x) \in Seq(Bytes)
  BY AppendProperties
<1>2. Append(t, x) = Cat(t, one)
  BY AppendIsConcat DEF Cat
<1>3. Cat(s, t) \in Seq(Bytes)
  BY CatType
<1>4. Append(Cat(s, t), x) = Cat(Cat(s, t), one)
  BY <1>3, AppendIsConcat DEF Cat
<1> HIDE DEF one
<1>5. Cat(Cat(s, t), one) = Cat(s, Cat(t, one))
  BY <1>1, CatAssoc
<1> QED
  BY <1>1, <1>2, <1>4, <1>5

\* The part that is before the others is a prefix.
LEMMA CatPrefix ==
  ASSUME NEW S, NEW s \in Seq(S), NEW t \in Seq(S)
  PROVE  Len(s) <= Len(Cat(s, t)) /\ s = SubSeq(Cat(s, t), 1, Len(s))
<1>1. Cat(s, t) \in Seq(S) /\ Len(Cat(s, t)) = Len(s) + Len(t) /\ Len(s) \in Nat /\ Len(t) \in Nat
  BY CatType
<1>2. Cat(Cat(s, t), <<>>) = Cat(s, t) /\ <<>> \in Seq(S)
  BY <1>1, CatNone
<1>3. Len(s) <= Len(Cat(s, t))
  BY <1>1
<1> QED
  BY Zenon, <1>1, <1>2, <1>3, CatSplit

\* A stream that another segment joins.
LEMMA SkipsGrows ==
  ASSUME NEW n \in Nat, NEW segments \in Seq(Segment), NEW s \in Segment, NEW stream \in Bytes,
         Skips(n, segments, stream)
  PROVE  Skips(n, Append(segments, s), Cat(stream, s.bytes))
<1>1. CASE n = 0
  BY <1>1, PayloadLaws DEF Skips
<1>2. CASE n # 0
  <2>1. segments # <<>> /\ Len(Head(segments).bytes) = n /\ Payload(Tail(segments)) = stream
    BY <1>2 DEF Skips
  <2>2. /\ Append(segments, s) # <<>> /\ Tail(segments) \in Seq(Segment)
        /\ Head(Append(segments, s)) = Head(segments) /\ Tail(Append(segments, s)) = Append(Tail(segments), s)
    BY <2>1, AppendFirst
  <2>3. Payload(Append(Tail(segments), s)) = Cat(stream, s.bytes)
    BY Zenon, <2>1, <2>2, PayloadLaws
  <2> QED
    BY Zenon, <1>2, <2>1, <2>2, <2>3 DEF Skips
<1> QED
  BY <1>1, <1>2

\* What is written behind the handshake belongs to the messages.
LEMMA OpensGrows ==
  ASSUME NEW bytes, NEW segments \in Seq(Segment), NEW s \in Segment, NEW stream \in Bytes,
         Opens(bytes, segments, stream)
  PROVE  Opens(bytes, Append(segments, s), Cat(stream, s.bytes))
<1>1. 0 \in Nat /\ HandshakeSize \in Nat
  BY LinkAssumption
<1> QED
  BY <1>1, SkipsGrows DEF Opens

\* A part of the handshake has a length.
LEMMA HeldType == ASSUME NEW c \in Connection PROVE Held(c) \in Nat
<1> DEFINE m == Len(c.read_buffer)
           n == Len(c.chunk)
<1>1. c.read_buffer \in Seq(Byte) /\ c.chunk \in Seq(Byte)
  BY ConnectionFields DEF Bytes
<1>2. m \in Nat /\ n \in Nat
  BY <1>1, LenProperties
<1>3. Held(c) = m + n
  BY DEF Held
<1> HIDE DEF m, n
<1> QED
  BY <1>2, <1>3

\* What is written comes last in the stream, whatever the reader does.
LEMMA InFlightGrows ==
  ASSUME NEW c \in Connection, NEW segments \in Seq(Segment), NEW s \in Segment, NEW stream \in Bytes,
         InFlight(c, segments, stream)
  PROVE  /\ Append(segments, s) \in Seq(Segment) /\ Cat(stream, s.bytes) \in Bytes
         /\ InFlight(c, Append(segments, s), Cat(stream, s.bytes))
<1> DEFINE more == Append(segments, s)
           stream2 == Cat(stream, s.bytes)
           n == Held(c)
<1>1. more \in Seq(Segment)
  BY AppendProperties
<1>2. c.read_buffer \in Bytes /\ c.chunk \in Bytes /\ s.bytes \in Bytes
  BY ConnectionFields DEF Segment, Bytes
<1>3. n \in Nat /\ HandshakeSize \in Nat
  BY HeldType, LinkAssumption
<1>4. stream2 \in Bytes
  BY Zenon, <1>2, CatType DEF Bytes
<1>5. ASSUME Awaits(c) PROVE more # <<>> /\ Opens(Head(more).bytes, Tail(more), stream2)
  <2>1. segments # <<>> /\ Opens(Head(segments).bytes, Tail(segments), stream)
    BY <1>5 DEF InFlight
  <2>2. /\ more # <<>> /\ Tail(segments) \in Seq(Segment)
        /\ Head(more) = Head(segments) /\ Tail(more) = Append(Tail(segments), s)
    BY <2>1, AppendFirst
  <2> QED
    BY Zenon, <2>1, <2>2, OpensGrows
<1>6. ASSUME c.inbound = "ian_handshake" /\ c.in_message_len = 0 /\ c.inbound_ec = "ok"
      PROVE  Opens(c.chunk, more, stream2)
  <2>1. Opens(c.chunk, segments, stream)
    BY <1>6 DEF InFlight
  <2> QED
    BY <2>1, OpensGrows
<1>7. ASSUME c.inbound = "ian_handshake" /\ c.in_message_len # 0
      PROVE  /\ c.in_message_len = HandshakeSize
             /\ n <= HandshakeSize
             /\ c.inbound_ec # "ok" => n < HandshakeSize
             /\ Skips(HandshakeSize - n, more, stream2)
  <2>1. /\ c.in_message_len = HandshakeSize
        /\ n <= HandshakeSize
        /\ c.inbound_ec # "ok" => n < HandshakeSize
        /\ Skips(HandshakeSize - n, segments, stream)
    BY <1>7 DEF InFlight
  <2> DEFINE k == HandshakeSize - n
  <2>2. k \in Nat
    BY <1>3, <2>1
  <2>3. Skips(k, segments, stream)
    BY <2>1
  <2> HIDE DEF k
  <2>4. Skips(k, more, stream2)
    BY <2>2, <2>3, SkipsGrows
  <2> QED
    BY <2>1, <2>4 DEF k
<1>8. ASSUME c.inbound = "read" PROVE Cat(Cat(c.read_buffer, c.chunk), Payload(more)) = stream2
  <2> DEFINE x == Cat(c.read_buffer, c.chunk)
  <2>1. Cat(x, Payload(segments)) = stream
    BY <1>8 DEF InFlight
  <2>2. Payload(more) = Cat(Payload(segments), s.bytes) /\ Payload(segments) \in Bytes
    BY PayloadLaws
  <2>3. x \in Bytes
    BY Zenon, <1>2, CatType DEF Bytes
  <2> HIDE DEF x
  <2>4. Cat(Cat(x, Payload(segments)), s.bytes) = Cat(x, Cat(Payload(segments), s.bytes))
    BY <1>2, <2>2, <2>3, CatAssoc DEF Bytes
  <2> QED
    BY <2>1, <2>2, <2>4 DEF x
<1> HIDE DEF more, stream2, n
<1>9. InFlight(c, more, stream2)
  BY <1>5, <1>6, <1>7, <1>8 DEF InFlight, n
<1> QED
  BY <1>1, <1>4, <1>9 DEF more, stream2

\* Joining one element is appending it.
LEMMA CatOne == ASSUME NEW S, NEW s \in Seq(S), NEW x \in S PROVE Cat(s, <<x>>) = Append(s, x)
BY AppendIsConcat DEF Cat

\* Joining two elements is appending both.
LEMMA CatTwo ==
  ASSUME NEW S, NEW s \in Seq(S), NEW x \in S, NEW y \in S
  PROVE  Cat(s, <<x, y>>) = Append(Append(s, x), y)
<1> DEFINE a == <<x>>
           b == <<y>>
           ab == <<x, y>>
<1>1. a \in Seq(S) /\ b \in Seq(S) /\ ab = Append(a, y)
  OBVIOUS
<1>2. Append(a, y) = Cat(a, b)
  BY Zenon, <1>1, CatOne
<1>3. Append(s, x) = Cat(s, a) /\ Append(s, x) \in Seq(S)
  BY CatOne, AppendProperties
<1>4. Append(Append(s, x), y) = Cat(Append(s, x), b)
  BY Zenon, <1>3, CatOne
<1> HIDE DEF a, b, ab
<1>5. Cat(Cat(s, a), b) = Cat(s, Cat(a, b))
  BY <1>1, CatAssoc
<1> QED
  BY Zenon, <1>1, <1>2, <1>3, <1>4, <1>5 DEF ab

\* The records of a message put its frame at the end of the stream.
LEMMA RecordsFlow ==
  ASSUME NEW c \in Connection, NEW segments \in Seq(Segment), NEW stream \in Bytes,
         InFlight(c, segments, stream), NEW m \in Bytes, NEW records \in Records(m)
  PROVE  /\ Cat(segments, records) \in Seq(Segment)
         /\ Cat(stream, Cat(Encode(Len(m)), m)) \in Bytes
         /\ InFlight(c, Cat(segments, records), Cat(stream, Cat(Encode(Len(m)), m)))
<1> DEFINE prefix == Encode(Len(m))
           frame == Cat(prefix, m)
           a == [kind |-> "tls", bytes |-> frame]
           b == [kind |-> "tls", bytes |-> prefix]
           d == [kind |-> "tls", bytes |-> m]
<1>1. prefix \in Bytes /\ frame \in Bytes
  BY PrefixType DEF Cat
<1>2. a \in Segment /\ b \in Segment /\ d \in Segment
  BY <1>1 DEF Segment, Bytes
<1>3. a.bytes = frame /\ b.bytes = prefix /\ d.bytes = m
  OBVIOUS
<1>4. records = <<a>> \/ records = <<b, d>>
  BY RecordsAre
<1> HIDE DEF prefix, a, b, d
<1>5. CASE records = <<a>>
  <2>1. Cat(segments, records) = Append(segments, a)
    BY <1>2, <1>5, CatOne
  <2> QED
    BY <1>2, <1>3, <2>1, InFlightGrows DEF prefix
<1>6. CASE records = <<b, d>>
  <2>1. Cat(segments, records) = Append(Append(segments, b), d)
    BY <1>2, <1>6, CatTwo
  <2>2. /\ Append(segments, b) \in Seq(Segment) /\ Cat(stream, prefix) \in Bytes
        /\ InFlight(c, Append(segments, b), Cat(stream, prefix))
    BY <1>2, <1>3, InFlightGrows
  <2>3. /\ Append(Append(segments, b), d) \in Seq(Segment) /\ Cat(Cat(stream, prefix), m) \in Bytes
        /\ InFlight(c, Append(Append(segments, b), d), Cat(Cat(stream, prefix), m))
    BY Zenon, <1>2, <1>3, <2>2, InFlightGrows
  <2>4. Cat(Cat(stream, prefix), m) = Cat(stream, frame)
    BY <1>1, CatAssoc DEF Bytes
  <2> QED
    BY <2>1, <2>3, <2>4 DEF prefix
<1> QED
  BY <1>4, <1>5, <1>6

\* The reader will find the message at the end of those that are left.
LEMMA ReadsGrows ==
  ASSUME NEW len \in Nat, NEW stream \in Bytes, NEW left \in Seq(Text), NEW m \in Text, Reads(len, stream, left)
  PROVE  /\ Append(left, m) \in Seq(Text)
         /\ Reads(len, Cat(stream, Cat(Encode(Len(m)), m)), Append(left, m))
<1> DEFINE frame == Cat(Encode(Len(m)), m)
<1>1. m \in Bytes /\ Append(left, m) \in Seq(Text)
  BY AppendProperties DEF Text
<1>2. left \in Seq(Bytes) /\ (left # <<>> => Head(left) \in Bytes /\ Tail(left) \in Seq(Bytes))
  BY TextType
<1>3. frame \in Bytes
  BY <1>1, PrefixType DEF Cat
<1>4. CASE len = 0
  BY <1>1, <1>2, <1>4, FramesLaws DEF Reads
<1>5. CASE len # 0
  <2>1. left # <<>> /\ Len(Head(left)) = len /\ stream = Cat(Head(left), Frames(Tail(left)))
    BY <1>5 DEF Reads
  <2>2. /\ Append(left, m) # <<>>
        /\ Head(Append(left, m)) = Head(left) /\ Tail(Append(left, m)) = Append(Tail(left), m)
    BY <2>1, AppendFirst
  <2>3. Frames(Append(Tail(left), m)) = Cat(Frames(Tail(left)), frame) /\ Frames(Tail(left)) \in Bytes
    BY Zenon, <1>1, <1>2, <2>1, FramesLaws
  <2>4. Head(left) \in Bytes
    BY <1>2, <2>1
  <2> HIDE DEF frame
  <2>5. Cat(Cat(Head(left), Frames(Tail(left))), frame) = Cat(Head(left), Cat(Frames(Tail(left)), frame))
    BY <1>3, <2>3, <2>4, CatAssoc DEF Bytes
  <2>6. Reads(len, Cat(stream, frame), Append(left, m))
    BY Zenon, <1>5, <2>1, <2>2, <2>3, <2>5 DEF Reads
  <2> QED
    BY <1>1, <2>6 DEF frame
<1> QED
  BY <1>4, <1>5

\* Steps of the sender that send nothing.
KeepsSender(a, b) ==
  /\ b.accepted = a.accepted
  /\ Live(b) => Live(a) /\ b.message_queue = a.message_queue
  /\ b.inbound = "ssl_handshake" => a.inbound = "ssl_handshake"
  /\ Silent(a) => Silent(b)

\* A step that sends nothing keeps the stream.
LEMMA LinkKeepsSender ==
  ASSUME NEW a, NEW b, NEW c, NEW segments, Link(a, c, segments), KeepsSender(a, b)
  PROVE  Link(b, c, segments)
<1>1. PICK left \in Seq(Text), lost \in Seq(Text) :
        /\ Cat(Cat(c.processed, left), lost) = a.accepted
        /\ Alive(c) => Carries(a, c, segments, left, lost)
  BY DEF Link
<1>2. Carries(a, c, segments, left, lost) => Carries(b, c, segments, left, lost)
  BY DEF Carries, KeepsSender
<1> QED
  BY <1>1, <1>2 DEF Link, KeepsSender

\* async_shutdown sends a close_notify behind the stream.
LEMMA LinkCloses ==
  ASSUME NEW a, NEW b, NEW c \in Connection, NEW segments \in Seq(Segment), Link(a, c, segments),
         Live(a), a.inbound # "ssl_handshake", ~Live(b), b.inbound # "ssl_handshake", b.accepted = a.accepted
  PROVE  Link(b, c, Append(segments, [kind |-> "close", bytes |-> <<>>]))
<1> DEFINE close == [kind |-> "close", bytes |-> <<>>]
<1>1. close \in Segment /\ close.bytes = <<>>
  BY EmptySeq DEF Segment
<1> HIDE DEF close
<1>2. PICK left \in Seq(Text), lost \in Seq(Text) :
        /\ Cat(Cat(c.processed, left), lost) = a.accepted
        /\ Alive(c) => Carries(a, c, segments, left, lost)
  BY DEF Link
<1>3. ASSUME Alive(c) PROVE Carries(b, c, Append(segments, close), left, lost)
  <2>1. ~Silent(a)
    BY DEF Silent, Live
  <2>2. PICK stream \in Bytes : Reads(Expects(c), stream, left) /\ InFlight(c, segments, stream)
    BY <1>2, <1>3, <2>1 DEF Carries
  <2>3. Cat(stream, <<>>) = stream
    BY CatNone DEF Bytes
  <2>4. InFlight(c, Append(segments, close), stream)
    BY <1>1, <2>2, <2>3, InFlightGrows
  <2> QED
    BY <2>2, <2>4 DEF Carries
<1>4. Link(b, c, Append(segments, close))
  BY <1>2, <1>3 DEF Link
<1> QED
  BY <1>4 DEF close

\* A message that send_message queues.
LEMMA LinkQueues ==
  ASSUME NEW a \in Connection, NEW b \in Connection, NEW c \in Connection, NEW segments, Link(a, c, segments), NEW m \in Text,
         b.accepted = Append(a.accepted, m), b.message_queue = Append(a.message_queue, m),
         Live(a), Live(b), b.inbound = a.inbound
  PROVE  Link(b, c, segments)
<1>1. PICK left \in Seq(Text), lost \in Seq(Text) :
        /\ Cat(Cat(c.processed, left), lost) = a.accepted
        /\ Alive(c) => Carries(a, c, segments, left, lost)
  BY DEF Link
<1>2. Append(lost, m) \in Seq(Text) /\ m \in Bytes /\ left \in Seq(Bytes) /\ lost \in Seq(Bytes)
  BY AppendProperties, TextType DEF Text
<1>3. c.processed \in Seq(Bytes)
  BY ConnectionFields
<1>4. Cat(c.processed, left) \in Seq(Bytes)
  BY Zenon, <1>2, <1>3, CatType
<1>5. Cat(Cat(c.processed, left), Append(lost, m)) = b.accepted
  <2> DEFINE before == Cat(c.processed, left)
  <2>1. before \in Seq(Bytes) /\ Cat(before, lost) = a.accepted
    BY <1>1, <1>4
  <2> HIDE DEF before
  <2>2. Cat(before, Append(lost, m)) = b.accepted
    BY Zenon, <1>2, <2>1, CatAppend
  <2> QED
    BY <2>2 DEF before
<1>6. Silent(a) => Silent(b)
  BY DEF Silent, Live
<1>7. Carries(a, c, segments, left, lost) => Carries(b, c, segments, left, Append(lost, m))
  BY <1>6 DEF Carries
<1> QED
  BY Zenon, <1>1, <1>2, <1>5, <1>7 DEF Link

\* A message that is written: it leaves the queue for the stream.
LEMMA LinkSends ==
  ASSUME NEW a \in Connection, NEW b \in Connection, NEW c \in Connection, NEW segments \in Seq(Segment),
         Link(a, c, segments), Live(a), a.message_queue # <<>>, a.inbound # "ssl_handshake",
         Live(b), b.inbound # "ssl_handshake", b.accepted = a.accepted, b.message_queue = Tail(a.message_queue),
         NEW records \in Records(Head(a.message_queue))
  PROVE  Link(b, c, Cat(segments, records))
<1> DEFINE m == Head(a.message_queue)
<1>1. PICK left \in Seq(Text), lost \in Seq(Text) :
        /\ Cat(Cat(c.processed, left), lost) = a.accepted
        /\ Alive(c) => Carries(a, c, segments, left, lost)
  BY DEF Link
<1>2. CASE ~Alive(c)
  BY <1>1, <1>2 DEF Link
<1>3. CASE Alive(c)
  <2>1. lost = a.message_queue
    BY <1>1, <1>3 DEF Carries
  <2>2. m \in Text /\ m \in Bytes /\ Tail(lost) \in Seq(Text) /\ lost # <<>> /\ Head(lost) = m
    BY <2>1, TextType
  <2>3. ~Silent(a)
    BY DEF Silent, Live
  <2>4. PICK stream \in Bytes : Reads(Expects(c), stream, left) /\ InFlight(c, segments, stream)
    BY <1>1, <1>3, <2>3 DEF Carries
  <2> HIDE DEF m
  <2> DEFINE stream2 == Cat(stream, Cat(Encode(Len(m)), m))
  <2>5. stream2 \in Bytes /\ InFlight(c, Cat(segments, records), stream2)
    BY <2>2, <2>4, RecordsFlow DEF m
  <2>6. Expects(c) \in Nat
    BY ConnectionFields DEF Expects
  <2>7. Append(left, m) \in Seq(Text) /\ Reads(Expects(c), stream2, Append(left, m))
    BY <2>2, <2>4, <2>6, ReadsGrows
  <2> HIDE DEF stream2
  <2>8. Carries(b, c, Cat(segments, records), Append(left, m), Tail(lost))
    BY <2>1, <2>5, <2>7 DEF Carries
  <2>9. Cat(Cat(c.processed, Append(left, m)), Tail(lost)) = a.accepted
    <3> DEFINE s == Cat(c.processed, left)
    <3>1. c.processed \in Seq(Bytes) /\ left \in Seq(Bytes) /\ lost \in Seq(Bytes)
      BY ConnectionFields, TextType
    <3>5. m \in Bytes
      BY <2>2
    <3>2. Cat(c.processed, Append(left, m)) = Append(s, m)
      BY Zenon, <3>1, <3>5, CatAppend
    <3>3. s \in Seq(Bytes)
      BY Zenon, <3>1, CatType
    <3> HIDE DEF s
    <3>4. Cat(Append(s, m), Tail(lost)) = Cat(s, lost)
      BY <2>2, <3>1, <3>3, ShiftFirst
    <3> QED
      BY <1>1, <3>2, <3>4 DEF s
  <2> QED
    BY Zenon, <2>2, <2>7, <2>8, <2>9 DEF Link
<1> QED
  BY <1>2, <1>3

\* The handshake opens the stream.
LEMMA LinkBegins ==
  ASSUME NEW a, NEW b, NEW c \in Connection, NEW segments, Link(a, c, segments), Local(c),
         a.inbound = "ssl_handshake", b.inbound # "ssl_handshake", b.accepted = a.accepted,
         Live(b) => Live(a) /\ b.message_queue = a.message_queue,
         HandshakeSize # 0, NEW records \in Records(Zeros)
  PROVE  Link(b, c, Cat(segments, records))
<1>1. PICK left \in Seq(Text), lost \in Seq(Text) :
        /\ Cat(Cat(c.processed, left), lost) = a.accepted
        /\ Alive(c) => Carries(a, c, segments, left, lost)
  BY DEF Link
<1>2. CASE ~Alive(c)
  BY <1>1, <1>2 DEF Link
<1>3. CASE Alive(c)
  <2>1. segments = <<>> /\ Awaits(c)
    BY <1>1, <1>3 DEF Carries
  <2>2. left = <<>>
    BY <1>1, <1>3, <2>1 DEF Carries, InFlight
  <2>3. c.inbound # "read" /\ (c.inbound = "ian_handshake" => c.in_message_len = 0 /\ c.inbound_ec # "ok")
    BY <2>1 DEF Awaits, Local, Phase
  <2>4. HandshakeSize \in Nat /\ Zeros \in Bytes /\ Len(Zeros) = HandshakeSize
    BY LinkAssumption DEF Zeros, Bytes, Byte
  <2> DEFINE prefix == Encode(Len(Zeros))
             x == [kind |-> "tls", bytes |-> Cat(prefix, Zeros)]
             y == [kind |-> "tls", bytes |-> prefix]
             z == [kind |-> "tls", bytes |-> Zeros]
  <2>5. prefix = Encode(HandshakeSize)
    BY <2>4
  <2>6. prefix \in Bytes /\ Cat(prefix, Zeros) \in Bytes
    BY <2>4, PrefixType DEF Cat
  <2>7. x \in Segment /\ y \in Segment /\ z \in Segment
    BY <2>4, <2>6 DEF Segment, Bytes
  <2>8. x.bytes = Cat(prefix, Zeros) /\ y.bytes = prefix /\ z.bytes = Zeros
    OBVIOUS
  <2>9. records = <<x>> \/ records = <<y, z>>
    BY <2>4, RecordsAre
  <2>10. Cat(segments, records) = records
    BY <2>1, <2>4, RecordsType, CatNone
  <2> HIDE DEF prefix, x, y, z
  <2>11. records # <<>> /\ Opens(Head(records).bytes, Tail(records), <<>>)
    <3>1. Payload(<<>>) = <<>>
      BY NothingThere
    <3>2. CASE records = <<x>>
      <4>1. records # <<>> /\ Head(records) = x /\ Tail(records) = <<>>
        BY <2>7, <3>2
      <4> QED
        BY Zenon, <2>5, <2>8, <3>1, <4>1 DEF Opens, Skips
    <3>3. CASE records = <<y, z>>
      <4>1. records # <<>> /\ Head(records) = y /\ Tail(records) = <<z>>
        BY <2>7, <3>3
      <4>2. <<z>> # <<>> /\ Head(<<z>>) = z /\ Tail(<<z>>) = <<>>
        BY <2>7
      <4>3. Skips(HandshakeSize, <<z>>, <<>>)
        BY <2>4, <2>8, <3>1, <4>2 DEF Skips
      <4> QED
        BY Zenon, <2>5, <2>8, <4>1, <4>3 DEF Opens
    <3> QED
      BY <2>9, <3>2, <3>3
  <2>12. InFlight(c, records, <<>>)
    BY <2>3, <2>11 DEF InFlight
  <2>13. Reads(Expects(c), <<>>, left) /\ <<>> \in Bytes
    BY <2>2, <2>3, NothingThere, EmptySeq DEF Expects, Reads, Bytes
  <2>14. Carries(b, c, Cat(segments, records), left, lost)
    <3>1. Live(b) => lost = b.message_queue
      BY <1>1, <1>3 DEF Carries
    <3> QED
      BY <2>10, <2>12, <2>13, <3>1 DEF Carries
  <2> QED
    BY <1>1, <2>14 DEF Link
<1> QED
  BY <1>2, <1>3

\* Steps of the reader that read nothing.
LEMMA LinkSameReads ==
  ASSUME NEW a, NEW c, NEW d, NEW segments, Link(a, c, segments), SameReads(c, d),
         c.outbound = "ian_handshake" <=> d.outbound = "ian_handshake"
  PROVE  Link(a, d, segments)
<1>1. (Alive(c) <=> Alive(d)) /\ (Awaits(c) <=> Awaits(d)) /\ Expects(c) = Expects(d) /\ Held(c) = Held(d)
  BY DEF SameReads, Alive, Awaits, Expects, Held
<1>2. \A stream : InFlight(c, segments, stream) => InFlight(d, segments, stream)
  BY <1>1 DEF SameReads, InFlight
<1>3. \A left, lost : Carries(a, c, segments, left, lost) => Carries(a, d, segments, left, lost)
  BY <1>1, <1>2 DEF Carries
<1> QED
  BY <1>1, <1>3 DEF Link, SameReads

\* A reader that has stopped.
LEMMA LinkDead ==
  ASSUME NEW a, NEW c, NEW d, NEW segments, Link(a, c, segments), d.processed = c.processed, ~Alive(d)
  PROVE  Link(a, d, segments)
BY DEF Link

\* A reader that has not started.
LEMMA LinkAwaits ==
  ASSUME NEW a, NEW c, NEW d, NEW segments, Link(a, c, segments), d.processed = c.processed,
         Awaits(c), c.inbound # "read", Awaits(d), d.inbound # "read",
         d.inbound = "ian_handshake" => d.in_message_len = 0 /\ d.inbound_ec # "ok"
  PROVE  Link(a, d, segments)
<1>1. Expects(c) = 0 /\ Expects(d) = 0 /\ Alive(c)
  BY DEF Expects, Alive, Awaits
<1>2. \A stream : InFlight(c, segments, stream) => InFlight(d, segments, stream)
  BY DEF InFlight
<1>3. \A left, lost : Carries(a, c, segments, left, lost) => Carries(a, d, segments, left, lost)
  BY <1>1, <1>2 DEF Carries
<1> QED
  BY <1>1, <1>3 DEF Link

\* What a read takes from the stream is what it brings.
LEMMA ConsumePayload ==
  ASSUME NEW segments \in Seq(Segment), segments # <<>>, NEW n \in 0 .. Len(Head(segments).bytes)
  PROVE  /\ SubSeq(Head(segments).bytes, 1, n) \in Bytes /\ Len(SubSeq(Head(segments).bytes, 1, n)) = n
         /\ Cat(SubSeq(Head(segments).bytes, 1, n), Payload(Consume(segments, n))) = Payload(segments)
         /\ n = Len(Head(segments).bytes) =>
              SubSeq(Head(segments).bytes, 1, n) = Head(segments).bytes /\ Consume(segments, n) = Tail(segments)
         /\ n # Len(Head(segments).bytes) =>
              /\ Consume(segments, n) # <<>> /\ Tail(Consume(segments, n)) = Tail(segments)
              /\ Len(Head(Consume(segments, n)).bytes) = Len(Head(segments).bytes) - n
<1> DEFINE head == Head(segments)
           bytes == head.bytes
           tail == Tail(segments)
           front == SubSeq(bytes, 1, n)
           back == Drop(bytes, n)
<1>1. head \in Segment /\ tail \in Seq(Segment) /\ head = segments[1]
  BY HeadTailProperties
<1>2. bytes \in Seq(Byte)
  BY <1>1 DEF Segment
<1>3. /\ front \in Seq(Byte) /\ Len(front) = n /\ back \in Seq(Byte) /\ Len(back) = Len(bytes) - n
      /\ Cat(front, back) = bytes
  BY Zenon, <1>2, CatCut
<1>4. Payload(segments) = Cat(bytes, Payload(tail)) /\ Payload(tail) \in Bytes
  BY Zenon, <1>1, PayloadLaws
<1>5. CASE n = Len(bytes)
  <2>1. Consume(segments, n) = tail
    BY <1>5 DEF Consume
  <2>2. Len(back) = 0
    <3>1. Len(bytes) \in Nat
      BY <1>2, LenProperties
    <3> HIDE DEF back, bytes
    <3> QED
      BY <1>3, <1>5, <3>1
  <2>3. back = <<>>
    BY <1>3, <2>2, EmptySeq
  <2>4. Cat(front, <<>>) = front
    BY Zenon, <1>3, CatNone
  <2> HIDE DEF front, back, bytes, tail, head
  <2>5. front = bytes
    BY <1>3, <2>3, <2>4
  <2> QED
    BY Zenon, <1>3, <1>4, <1>5, <2>1, <2>5 DEF Bytes, front, bytes, tail, head
<1>6. CASE n # Len(bytes)
  <2> DEFINE rest == [head EXCEPT !.bytes = back]
             less == [segments EXCEPT ![1] = rest]
  <2>1. Consume(segments, n) = less
    BY Zenon, <1>1, <1>6 DEF Consume
  <2>2. rest \in Segment /\ rest.bytes = back
    BY Zenon, <1>1, <1>3 DEF Segment
  <2> HIDE DEF rest
  <2>3. Len(segments) \in Nat \ {0}
    BY EmptySeq
  <2>4. 1 \in 1 .. Len(segments)
    BY <2>3
  <2>5. /\ less \in Seq(Segment) /\ Len(less) = Len(segments)
        /\ \A j \in 1 .. Len(segments) : less[j] = IF j = 1 THEN rest ELSE segments[j]
    BY <2>2, <2>4, ExceptSeq
  <2> HIDE DEF less
  <2>6. less # <<>> /\ less[1] = rest
    BY <2>3, <2>4, <2>5, EmptySeq
  <2>7. Head(less) = rest
    BY <2>6
  <2>8. Tail(less) = tail
    <3>1. Tail(less) \in Seq(Segment) /\ Len(Tail(less)) = Len(less) - 1 /\ \A i \in 1 .. Len(Tail(less)) : Tail(less)[i] = less[i + 1]
      BY <2>5, <2>6, HeadTailProperties
    <3>2. tail \in Seq(Segment) /\ Len(tail) = Len(segments) - 1 /\ \A i \in 1 .. Len(tail) : tail[i] = segments[i + 1]
      BY HeadTailProperties
    <3> HIDE DEF tail
    <3>3. Len(Tail(less)) = Len(tail)
      BY <2>5, <3>1, <3>2
    <3>4. ASSUME NEW i \in 1 .. Len(tail) PROVE Tail(less)[i] = tail[i]
      <4> DEFINE m == Len(tail)
                 k == Len(segments)
      <4>1. m = k - 1 /\ k \in Nat \ {0} /\ i \in 1 .. m
        BY <2>3, <3>2
      <4> HIDE DEF m, k
      <4>2. i + 1 \in 1 .. k /\ i + 1 # 1
        BY <4>1
      <4>3. less[i + 1] = segments[i + 1]
        BY <2>5, <4>2 DEF k
      <4> QED
        BY <3>1, <3>2, <3>3, <4>3
    <3> QED
      BY <3>1, <3>2, <3>3, <3>4, SeqEqual
  <2>9. Payload(less) = Cat(back, Payload(tail))
    BY Zenon, <2>2, <2>5, <2>6, <2>7, <2>8, PayloadLaws
  <2> HIDE DEF front, back, tail
  <2>10. Cat(front, Cat(back, Payload(tail))) = Cat(Cat(front, back), Payload(tail))
    BY <1>3, <1>4, CatAssoc DEF Bytes
  <2>11. Cat(front, Payload(less)) = Payload(segments)
    BY <1>3, <1>4, <2>9, <2>10
  <2> QED
    BY Zenon, <1>3, <1>6, <2>1, <2>2, <2>6, <2>7, <2>8, <2>11 DEF Bytes, front, tail
<1> QED
  BY <1>5, <1>6

\* A read that fails brings nothing.
LEMMA LinkFails ==
  ASSUME NEW a, NEW c, NEW d, NEW segments, Link(a, c, segments), c.inbound_ec # "ok", d.inbound_ec # "ok",
         d.inbound = c.inbound, d.chunk = c.chunk, d.in_message_len = c.in_message_len,
         d.read_buffer = c.read_buffer, d.processed = c.processed, d.outbound = c.outbound
  PROVE  Link(a, d, segments)
<1>1. (Alive(c) <=> Alive(d)) /\ (Awaits(c) <=> Awaits(d)) /\ Expects(c) = Expects(d) /\ Held(c) = Held(d)
  BY DEF Alive, Awaits, Expects, Held
<1>2. \A stream : InFlight(c, segments, stream) => InFlight(d, segments, stream)
  BY <1>1 DEF InFlight
<1>3. \A left, lost : Carries(a, c, segments, left, lost) => Carries(a, d, segments, left, lost)
  BY <1>1, <1>2 DEF Carries
<1> QED
  BY <1>1, <1>3 DEF Link

\* A read takes what is first in the stream.
LEMMA InFlightReceives ==
  ASSUME NEW c \in Connection, NEW d \in Connection, NEW segments \in Seq(Segment), NEW stream \in Bytes,
         InFlight(c, segments, stream), Local(c), segments # <<>>,
         c.inbound \in {"ian_handshake", "read"}, c.inbound_ec = "pending",
         NEW n \in Portions(c, Head(segments)),
         d.inbound = c.inbound, d.inbound_ec = "ok", d.chunk = SubSeq(Head(segments).bytes, 1, n),
         d.in_message_len = c.in_message_len, d.read_buffer = c.read_buffer, d.outbound = c.outbound
  PROVE  InFlight(d, Consume(segments, n), stream)
<1> DEFINE bytes == Head(segments).bytes
           size == Len(bytes)
           front == SubSeq(bytes, 1, n)
           less == Consume(segments, n)
<1>1. bytes \in Seq(Byte)
  <2>1. Head(segments) \in Segment
    BY HeadTailProperties
  <2> QED
    BY <2>1 DEF Segment
<1>2. size \in Nat
  BY <1>1, LenProperties
<1>3. n \in 0 .. size
  BY <1>2 DEF Portions
<1>4. c.chunk = <<>> /\ c.outbound # "ian_handshake"
  BY DEF Local, Settled, Phase
<1>5. ~Awaits(d)
  BY <1>4 DEF Awaits
<1>6. /\ front \in Bytes /\ Len(front) = n /\ Cat(front, Payload(less)) = Payload(segments)
      /\ n = size => front = bytes /\ less = Tail(segments)
      /\ n # size => less # <<>> /\ Tail(less) = Tail(segments) /\ Len(Head(less).bytes) = size - n
  BY <1>3, ConsumePayload
<1>7. d.chunk = front
  OBVIOUS
<1>8. less \in Seq(Segment) /\ Payload(less) \in Bytes /\ Payload(segments) \in Bytes
  BY <1>3, ConsumeType, PayloadLaws
<1>9. c.read_buffer \in Bytes /\ HandshakeSize \in Nat
  BY ConnectionFields, LinkAssumption
<1>10. CASE c.inbound = "ian_handshake" /\ c.in_message_len = 0
  <2>1. n = size
    BY <1>10 DEF Portions
  <2>2. Awaits(c)
    BY <1>10 DEF Awaits
  <2>3. Opens(bytes, Tail(segments), stream)
    BY <2>2 DEF InFlight
  <2> HIDE DEF bytes, size, front, less
  <2>4. Opens(d.chunk, less, stream)
    BY Zenon, <1>6, <1>7, <2>1, <2>3
  <2> QED
    BY <1>5, <1>10, <2>4 DEF InFlight, less
<1>11. CASE c.inbound = "ian_handshake" /\ c.in_message_len # 0
  <2> DEFINE h == Held(c)
             k == HandshakeSize - h
             m == Len(c.read_buffer)
  <2>1. /\ c.in_message_len = HandshakeSize /\ h < HandshakeSize /\ Skips(k, segments, stream)
    BY <1>11 DEF InFlight
  <2>2. m \in Nat
    BY <1>9, LenProperties DEF Bytes
  <2>3. h = m + Len(<<>>) /\ Len(<<>>) = 0
    BY <1>4, EmptySeq DEF Held
  <2>4. Held(d) = m + n
    BY Zenon, <1>6, <1>7 DEF Held
  <2> HIDE DEF h, m
  <2>5. h \in Nat /\ k \in Nat \ {0} /\ Held(d) = h + n
    BY <1>9, <2>1, <2>2, <2>3, <2>4
  <2>6. size = k /\ Payload(Tail(segments)) = stream
    BY <2>1, <2>5 DEF Skips
  <2> DEFINE j == HandshakeSize - Held(d)
  <2>7. Held(d) <= HandshakeSize /\ j = size - n
    BY <1>3, <1>9, <2>5, <2>6
  <2> HIDE DEF bytes, size, front, less, j, k
  <2>8. CASE n = size
    <3>1. j = 0
      BY <1>2, <2>7, <2>8
    <3>2. Skips(j, less, stream)
      BY Zenon, <1>6, <2>6, <2>8, <3>1 DEF Skips
    <3> QED
      BY <1>5, <1>11, <2>1, <2>7, <3>2 DEF InFlight, less, j
  <2>9. CASE n # size
    <3>1. j # 0
      BY <1>2, <1>3, <2>7, <2>9
    <3>2. Skips(j, less, stream)
      BY Zenon, <1>6, <2>6, <2>7, <2>9, <3>1 DEF Skips
    <3> QED
      BY <1>5, <1>11, <2>1, <2>7, <3>2 DEF InFlight, less, j
  <2> QED
    BY <2>8, <2>9
<1>12. CASE c.inbound = "read"
  <2> DEFINE rb == c.read_buffer
  <2>1. Cat(Cat(rb, <<>>), Payload(segments)) = stream
    BY <1>4, <1>12 DEF InFlight
  <2>2. Cat(rb, <<>>) = rb
    BY <1>9, CatNone DEF Bytes
  <2> HIDE DEF front, less
  <2>3. Cat(Cat(rb, front), Payload(less)) = Cat(rb, Cat(front, Payload(less)))
    BY <1>6, <1>8, <1>9, CatAssoc DEF Bytes
  <2>4. Cat(Cat(d.read_buffer, d.chunk), Payload(less)) = stream
    BY Zenon, <1>6, <1>7, <2>1, <2>2, <2>3
  <2> QED
    BY Zenon, <1>5, <1>12, <2>4 DEF InFlight, less
<1> QED
  BY <1>10, <1>11, <1>12

\* A read that takes a part of the first segment keeps the stream.
LEMMA LinkReceives ==
  ASSUME NEW a, NEW c \in Connection, NEW d \in Connection, NEW segments \in Seq(Segment),
         Link(a, c, segments), Local(c), segments # <<>>,
         c.inbound \in {"ian_handshake", "read"}, c.inbound_ec = "pending",
         NEW n \in Portions(c, Head(segments)),
         d.inbound = c.inbound, d.inbound_ec = "ok", d.chunk = SubSeq(Head(segments).bytes, 1, n),
         d.in_message_len = c.in_message_len, d.read_buffer = c.read_buffer, d.outbound = c.outbound,
         d.processed = c.processed
  PROVE  Link(a, d, Consume(segments, n))
<1>1. PICK left \in Seq(Text), lost \in Seq(Text) :
        /\ Cat(Cat(c.processed, left), lost) = a.accepted
        /\ Alive(c) => Carries(a, c, segments, left, lost)
  BY DEF Link
<1>2. Carries(a, c, segments, left, lost)
  BY <1>1 DEF Alive
<1>3. PICK stream \in Bytes : Reads(Expects(c), stream, left) /\ InFlight(c, segments, stream)
  BY <1>2 DEF Carries
<1>4. InFlight(d, Consume(segments, n), stream)
  BY <1>3, InFlightReceives
<1>5. Expects(d) = Expects(c)
  BY DEF Expects
<1>6. Carries(a, d, Consume(segments, n), left, lost)
  BY <1>2, <1>3, <1>4, <1>5 DEF Carries
<1> QED
  BY <1>1, <1>6 DEF Link

\* on_ian_handshake finds the handshake, or the part of it that it has read.
LEMMA HandshakeArrives ==
  ASSUME NEW c \in Connection, NEW segments, NEW stream, InFlight(c, segments, stream), Local(c),
         c.inbound = "ian_handshake", c.inbound_ec = "ok"
  PROVE  LET buffer == Cat(c.read_buffer, c.chunk)
             t == TakeLength(c.in_message_len, buffer)
         IN /\ ~(c.in_message_len = 0 /\ Len(buffer) < PrefixSize)
            /\ t.len = HandshakeSize /\ HandshakeSize # 0
            /\ t.buffer \in Bytes /\ Len(t.buffer) <= HandshakeSize
            /\ Skips(HandshakeSize - Len(t.buffer), segments, stream)
<1> DEFINE buffer == Cat(c.read_buffer, c.chunk)
           t == TakeLength(c.in_message_len, buffer)
<1>1. c.read_buffer \in Bytes /\ c.chunk \in Bytes /\ HandshakeSize \in Nat /\ PrefixSize \in Nat
  BY ConnectionFields, LinkAssumption
<1>2. buffer \in Bytes /\ Len(buffer) = Held(c)
  BY Zenon, <1>1, CatType DEF Bytes, Held
<1>3. CASE c.in_message_len # 0
  <2>1. t.len = c.in_message_len /\ t.buffer = buffer
    BY <1>3 DEF TakeLength
  <2>2. /\ c.in_message_len = HandshakeSize /\ Held(c) <= HandshakeSize
        /\ Skips(HandshakeSize - Held(c), segments, stream)
    BY <1>3 DEF InFlight
  <2> HIDE DEF buffer, t
  <2> QED
    BY <1>2, <1>3, <2>1, <2>2 DEF buffer, t
<1>4. CASE c.in_message_len = 0
  <2>1. c.read_buffer = <<>>
    BY <1>4 DEF Local
  <2>2. buffer = c.chunk
    BY <1>1, <2>1, CatNone DEF Bytes
  <2>3. Opens(buffer, segments, stream)
    BY <1>4, <2>2 DEF InFlight
  <2>4. t.len = Decode(buffer) /\ t.buffer = Drop(buffer, PrefixSize)
    BY <1>4 DEF TakeLength
  <2> DEFINE prefix == Encode(HandshakeSize)
             size == Len(buffer)
  <2>5. Zeros \in Bytes /\ Len(Zeros) = HandshakeSize
    BY <1>1, LinkAssumption DEF Zeros, Bytes, Byte
  <2>6. prefix \in Bytes /\ Len(prefix) = PrefixSize
    BY <2>5, PrefixType
  <2> HIDE DEF buffer, t, prefix
  <2>7. HandshakeSize # 0
    BY <2>3 DEF Opens
  <2>8. PICK k \in {0, HandshakeSize} :
          /\ size = PrefixSize + (HandshakeSize - k) /\ Skips(k, segments, stream)
          /\ \A j \in 1 .. PrefixSize : buffer[j] = prefix[j]
    <3>1. CASE buffer = Cat(prefix, Zeros) /\ Skips(0, segments, stream)
      <4> DEFINE m == Len(prefix)
                 n == Len(Zeros)
                 whole == Cat(prefix, Zeros)
      <4>1. m = PrefixSize /\ n = HandshakeSize /\ Len(whole) = m + n
        BY Zenon, <2>5, <2>6, CatType DEF Bytes
      <4>2. \A i \in 1 .. m + n : whole[i] = IF i <= m THEN prefix[i] ELSE Zeros[i - m]
        BY Zenon, <2>5, <2>6, CatElements DEF Bytes
      <4> HIDE DEF m, n, whole
      <4>3. \A j \in 1 .. PrefixSize : whole[j] = prefix[j]
        BY <1>1, <4>1, <4>2
      <4>4. Len(whole) = PrefixSize + (HandshakeSize - 0)
        BY <1>1, <4>1
      <4>5. buffer = whole
        BY <3>1 DEF whole
      <4> QED
        BY <3>1, <4>3, <4>4, <4>5
    <3>2. CASE buffer = prefix /\ Skips(HandshakeSize, segments, stream)
      <4>1. size = PrefixSize + (HandshakeSize - HandshakeSize)
        BY <1>1, <2>6, <3>2
      <4> QED
        BY <3>2, <4>1
    <3> QED
      BY <2>3, <3>1, <3>2 DEF Opens, prefix
  <2>9. HandshakeSize \in 0 .. Values[PrefixSize] - 1
    BY LinkAssumption
  <2>10. Decode(buffer) = HandshakeSize
    BY <2>8, <2>9, DecodeEncode DEF prefix
  <2> HIDE DEF size
  <2>11. PrefixSize \in 0 .. size /\ HandshakeSize - k \in 0 .. HandshakeSize /\ HandshakeSize - (HandshakeSize - k) = k
    BY <1>1, <2>8
  <2>12. Drop(buffer, PrefixSize) \in Bytes /\ Len(Drop(buffer, PrefixSize)) = size - PrefixSize
    BY <1>2, <2>11, CatCut DEF Bytes, size
  <2>13. size - PrefixSize = HandshakeSize - k
    BY <1>1, <2>8, <2>11
  <2>14. Len(t.buffer) = HandshakeSize - k
    BY <2>4, <2>12, <2>13
  <2>15. ~(size < PrefixSize) /\ HandshakeSize - k <= HandshakeSize
    BY <1>1, <2>8, <2>11
  <2>16. t.len = HandshakeSize /\ t.buffer \in Bytes
    BY <2>4, <2>10, <2>12
  <2>17. Skips(HandshakeSize - Len(t.buffer), segments, stream)
    BY <2>8, <2>11, <2>14
  <2> QED
    BY <2>7, <2>14, <2>15, <2>16, <2>17 DEF buffer, t, size
<1> QED
  BY <1>3, <1>4

\* The rest of the handshake is read, or the messages behind it.
LEMMA LinkShakesHands ==
  ASSUME NEW a, NEW c \in Connection, NEW d \in Connection, NEW segments, Link(a, c, segments), Local(c),
         c.inbound = "ian_handshake", c.inbound_ec = "ok",
         d.outbound # "ian_handshake", d.inbound_ec = "pending", d.chunk = <<>>, d.processed = c.processed,
         NEW len, NEW buffer,
         TakeLength(c.in_message_len, Cat(c.read_buffer, c.chunk)).len = len,
         TakeLength(c.in_message_len, Cat(c.read_buffer, c.chunk)).buffer = buffer,
         \/ /\ d.inbound = "ian_handshake" /\ Len(buffer) < len
            /\ d.in_message_len = len /\ d.read_buffer = buffer
         \/ /\ d.inbound = "read" /\ Len(buffer) = len
            /\ d.in_message_len = 0 /\ d.read_buffer = <<>>
  PROVE  Link(a, d, segments)
<1>1. PICK left \in Seq(Text), lost \in Seq(Text) :
        /\ Cat(Cat(c.processed, left), lost) = a.accepted
        /\ Alive(c) => Carries(a, c, segments, left, lost)
  BY DEF Link
<1>2. Carries(a, c, segments, left, lost)
  BY <1>1 DEF Alive
<1>3. c.outbound = "none"
  BY DEF Local, Phase
<1>4. ~Awaits(c)
  BY <1>3 DEF Awaits
<1>5. PICK stream \in Bytes : Reads(Expects(c), stream, left) /\ InFlight(c, segments, stream)
  BY <1>2, <1>4 DEF Carries
<1>6. /\ len = HandshakeSize /\ HandshakeSize # 0 /\ buffer \in Bytes /\ Len(buffer) <= HandshakeSize
      /\ Skips(HandshakeSize - Len(buffer), segments, stream)
  BY Zenon, <1>5, HandshakeArrives
<1>7. Expects(c) = 0 /\ Expects(d) = 0
  BY DEF Expects
<1>8. Len(buffer) \in Nat /\ HandshakeSize \in Nat /\ Len(<<>>) = 0
  BY <1>6, LinkAssumption, LenProperties, EmptySeq DEF Bytes
<1>9. InFlight(d, segments, stream)
  <2>1. CASE d.inbound = "ian_handshake" /\ Len(buffer) < len /\ d.in_message_len = len /\ d.read_buffer = buffer
    <3>1. Held(d) = Len(buffer)
      BY <1>8, <2>1 DEF Held
    <3>2. ~Awaits(d)
      BY <1>6, <2>1 DEF Awaits
    <3> QED
      BY Zenon, <1>6, <2>1, <3>1, <3>2 DEF InFlight
  <2>2. CASE d.inbound = "read" /\ Len(buffer) = len /\ d.in_message_len = 0 /\ d.read_buffer = <<>>
    <3>1. HandshakeSize - Len(buffer) = 0
      BY <1>6, <1>8, <2>2
    <3>2. Payload(segments) = stream
      BY <1>6, <3>1 DEF Skips
    <3>3. Cat(<<>>, <<>>) = <<>> /\ Cat(<<>>, stream) = stream
      BY Zenon, CatNone DEF Bytes
    <3>4. ~Awaits(d)
      BY <2>2 DEF Awaits
    <3> QED
      BY Zenon, <2>2, <3>2, <3>3, <3>4 DEF InFlight
  <2> QED
    BY <2>1, <2>2
<1>10. Carries(a, d, segments, left, lost)
  BY Zenon, <1>2, <1>4, <1>5, <1>7, <1>9 DEF Carries
<1> QED
  BY Zenon, <1>1, <1>10 DEF Link

\* on_read: what the loop takes from the stream it adds to what is processed.
LEMMA LoopInStep ==
  ASSUME NEW a, NEW c \in Connection, NEW segments \in Seq(Segment), Link(a, c, segments), Local(c),
         c.inbound = "read", c.inbound_ec = "ok",
         NEW r \in RoundState, r = ReadLoop(c.in_message_len, Cat(c.read_buffer, c.chunk))
  PROVE  \E left \in Seq(Text), lost \in Seq(Text) :
           /\ Cat(Cat(Cat(c.processed, r.messages), left), lost) = a.accepted
           /\ Live(a) => lost = a.message_queue
           /\ a.inbound # "ssl_handshake"
           /\ r.end # "invalid" => Reads(r.len, Cat(r.buffer, Payload(segments)), left)
           /\ r.end = "invalid" => left # <<>> /\ Len(Head(left)) = 0
<1>1. PICK left \in Seq(Text), lost \in Seq(Text) :
        /\ Cat(Cat(c.processed, left), lost) = a.accepted
        /\ Alive(c) => Carries(a, c, segments, left, lost)
  BY DEF Link
<1>2. Carries(a, c, segments, left, lost)
  BY <1>1 DEF Alive
<1>3. ~Awaits(c)
  BY DEF Local, Phase, Awaits
<1>4. PICK stream \in Bytes : Reads(Expects(c), stream, left) /\ InFlight(c, segments, stream)
  BY <1>2, <1>3 DEF Carries
<1> DEFINE buffer == Cat(c.read_buffer, c.chunk)
           rest == Payload(segments)
<1>5. Cat(buffer, rest) = stream /\ Expects(c) = c.in_message_len
  BY <1>4 DEF InFlight, Expects
<1>6. buffer \in Bytes /\ rest \in Bytes /\ c.in_message_len \in Nat /\ c.processed \in Seq(Bytes)
  BY Zenon, ConnectionFields, CatType, PayloadLaws DEF Bytes
<1> HIDE DEF buffer, rest
<1>7. Reads(c.in_message_len, Cat(buffer, rest), left)
  BY <1>4, <1>5
<1>8. InStep(ReadLoop(c.in_message_len, buffer), left, rest)
  BY <1>6, <1>7, ReadLoopReads
<1>9. InStep(r, left, rest)
  BY <1>8 DEF buffer
<1>10. PICK now \in Seq(Text) :
         /\ Cat(r.messages, now) = left
         /\ r.end # "invalid" => Reads(r.len, Cat(r.buffer, rest), now)
         /\ r.end = "invalid" => now # <<>> /\ Len(Head(now)) = 0
  BY <1>9 DEF InStep
<1>11. r.messages \in Seq(Bytes) /\ now \in Seq(Bytes)
  BY TextType DEF RoundState
<1>12. Cat(Cat(c.processed, r.messages), now) = Cat(c.processed, Cat(r.messages, now))
  BY <1>6, <1>11, CatAssoc
<1>13. Cat(Cat(Cat(c.processed, r.messages), now), lost) = a.accepted
  BY <1>1, <1>10, <1>12
<1>14. (Live(a) => lost = a.message_queue) /\ a.inbound # "ssl_handshake"
  BY <1>2, <1>3 DEF Carries
<1> QED
  BY Zenon, <1>10, <1>13, <1>14 DEF rest

\* on_read takes whole messages from the stream, in order.
LEMMA LinkReads ==
  ASSUME NEW a, NEW c \in Connection, NEW d \in Connection, NEW segments \in Seq(Segment),
         Link(a, c, segments), Local(c), c.inbound = "read", c.inbound_ec = "ok",
         NEW r \in RoundState, r = ReadLoop(c.in_message_len, Cat(c.read_buffer, c.chunk)),
         d.processed = Cat(c.processed, r.messages), d.outbound # "ian_handshake",
         \/ d.inbound = "none"
         \/ /\ r.end # "invalid" /\ d.inbound = "read" /\ d.inbound_ec = "pending" /\ d.chunk = <<>>
            /\ d.in_message_len = r.len /\ d.read_buffer = r.buffer
  PROVE  Link(a, d, segments)
<1>1. PICK left \in Seq(Text), lost \in Seq(Text) :
        /\ Cat(Cat(Cat(c.processed, r.messages), left), lost) = a.accepted
        /\ Live(a) => lost = a.message_queue
        /\ a.inbound # "ssl_handshake"
        /\ r.end # "invalid" => Reads(r.len, Cat(r.buffer, Payload(segments)), left)
  BY Zenon, LoopInStep
<1>2. CASE d.inbound = "none"
  <2>1. ~Alive(d)
    BY <1>2 DEF Alive
  <2> QED
    BY Zenon, <1>1, <2>1 DEF Link
<1>3. CASE /\ r.end # "invalid" /\ d.inbound = "read" /\ d.inbound_ec = "pending" /\ d.chunk = <<>>
           /\ d.in_message_len = r.len /\ d.read_buffer = r.buffer
  <2> DEFINE stream == Cat(r.buffer, Payload(segments))
  <2>1. r.buffer \in Bytes /\ Payload(segments) \in Bytes
    BY PayloadLaws DEF RoundState
  <2>2. stream \in Bytes
    BY Zenon, <2>1, CatType DEF Bytes
  <2>3. Cat(d.read_buffer, d.chunk) = r.buffer
    BY <1>3, <2>1, CatNone DEF Bytes
  <2>4. Reads(Expects(d), stream, left)
    BY <1>1, <1>3 DEF Expects
  <2>5. ~Awaits(d)
    BY <1>3 DEF Awaits
  <2>6. InFlight(d, segments, stream)
    BY Zenon, <1>3, <2>3, <2>5 DEF InFlight
  <2> HIDE DEF stream
  <2>7. Carries(a, d, segments, left, lost)
    BY Zenon, <1>1, <2>2, <2>4, <2>6 DEF Carries
  <2> QED
    BY Zenon, <1>1, <2>7 DEF Link
<1> QED
  BY Zenon, <1>2, <1>3
================================================================================
