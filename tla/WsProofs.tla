------------------------------- MODULE WsProofs --------------------------------
(***************************************************************************)
(* The clients of the front server: all acceptors and connections around   *)
(* the counter (WsAcceptor), one connection (WsConnection), and its queue  *)
(* (MessageQueue).                                                         *)
(*                                                                         *)
(* The limits hold for any number of acceptors and any limits. Neither     *)
(* limit is inductive as it stands. The hard limit needs to count the      *)
(* acceptors that have passed accept_next's check and still wait for their *)
(* client; the soft limit needs the admitted connections, all of which are *)
(* live and therefore counted.                                             *)
(*                                                                         *)
(* The theorems about one client connection hold for every timeout, limit, *)
(* message length and number of messages sent.                             *)
(*                                                                         *)
(* MessageQueue implements Fifo, for all messages and any length. This is  *)
(* what lets WsConnection and ClusterLink keep their queue oldest first.   *)
(* And its running total is the sum of the sizes, by induction over the    *)
(* length: a set of numbers with 0 and with the successor of each of its   *)
(* members has all numbers.                                                *)
(***************************************************************************)
EXTENDS WsAcceptor, WsConnection, MessageQueue,
        FiniteSetTheorems, SequenceTheorems, WellFoundedInduction, TLAPS

(* The acceptors. *)

Waiting == {a \in Acceptors : at[a] = "accepting"}

OpenSockets == {c \in Connections : stage[c] = "open"}

\* Every acceptor that waits for a client may add one to the count.
HardInv ==
  active_connection_count + Cardinality(Waiting)
    < connection_limit_hard + Cardinality(Acceptors)

\* Open websockets were admitted, what was admitted is live and within limits.
SoftInv ==
  /\ OpenSockets \subseteq admitted
  /\ admitted \subseteq Live
  /\ Cardinality(admitted) <= connection_limit_soft

\* Sets of acceptors and of connections are finite.
LEMMA Finite ==
  /\ \A S \in SUBSET Acceptors :
       IsFiniteSet(S) /\ Cardinality(S) \in Nat /\ Cardinality(S) <= Cardinality(Acceptors)
  /\ \A S \in SUBSET Connections : IsFiniteSet(S) /\ Cardinality(S) \in Nat
BY AcceptorAssumption, FS_Subset, FS_CardinalityType

\* The initial state satisfies the whole invariant.
LEMMA InitInv == AcceptorInit => AcceptorTypeOK /\ CountsLive /\ HardInv /\ SoftInv
<1> SUFFICES ASSUME AcceptorInit PROVE AcceptorTypeOK /\ CountsLive /\ HardInv /\ SoftInv
  OBVIOUS
<1>1. AcceptorTypeOK
  BY DEF AcceptorInit, AcceptorTypeOK, Places, L!Stages
<1>2. Live = {} /\ Waiting = {} /\ OpenSockets = {}
  BY DEF AcceptorInit, Live, Waiting, OpenSockets
<1>3. CountsLive
  BY <1>2, FS_EmptySet DEF AcceptorInit, CountsLive
<1>4. Cardinality(Acceptors) \in Nat /\ Cardinality(Acceptors) # 0
  BY AcceptorAssumption, FS_CardinalityType, FS_EmptySet
<1>5. HardInv
  BY <1>2, <1>4, AcceptorAssumption, FS_EmptySet DEF AcceptorInit, HardInv
<1>6. SoftInv
  BY <1>2, AcceptorAssumption, FS_EmptySet DEF AcceptorInit, SoftInv
<1> QED
  BY <1>1, <1>3, <1>5, <1>6

\* Every step preserves the types; a connection that goes was counted.
LEMMA AcceptorNextType == AcceptorTypeOK /\ CountsLive /\ [AcceptorNext]_acceptorVars => AcceptorTypeOK'
<1> SUFFICES ASSUME AcceptorTypeOK, CountsLive, [AcceptorNext]_acceptorVars PROVE AcceptorTypeOK'
  OBVIOUS
<1> USE DEF AcceptorTypeOK, Places, IsAt, Goto
<1>1. ASSUME NEW a \in Acceptors, RunOpen(a) PROVE AcceptorTypeOK'
  BY <1>1 DEF RunOpen, TryOpen
<1>2. ASSUME NEW a \in Acceptors, AcceptNext(a) PROVE AcceptorTypeOK'
  BY <1>2 DEF AcceptNext
<1>3. ASSUME NEW a \in Acceptors, OnAcceptError(a) PROVE AcceptorTypeOK'
  BY <1>3 DEF OnAcceptError
<1>4. ASSUME NEW a \in Acceptors, OnAcceptThrow(a) PROVE AcceptorTypeOK'
  BY <1>4 DEF OnAcceptThrow
<1>5. ASSUME NEW a \in Acceptors, Throttle(a) PROVE AcceptorTypeOK'
  BY <1>5 DEF Throttle
<1>6. ASSUME NEW a \in Acceptors, OnTimerReopen(a) PROVE AcceptorTypeOK'
  BY <1>6 DEF OnTimerReopen, TryOpen, acceptorVars
<1>7. ASSUME NEW a \in Acceptors, NEW c \in Connections, OnAcceptClient(a, c) PROVE AcceptorTypeOK'
  BY <1>7 DEF OnAcceptClient, L!Stages
<1>8. ASSUME NEW c \in Connections, AdmitOnReadRequest(c) PROVE AcceptorTypeOK'
  BY <1>8 DEF AdmitOnReadRequest, L!Stages
<1>9. ASSUME NEW c \in Connections, Proceed(c) PROVE AcceptorTypeOK'
  <2>1. PICK s \in L!Successors[stage[c]] :
          /\ stage' = [stage EXCEPT ![c] = s]
          /\ IF s = "gone"
             THEN /\ active_connection_count' = active_connection_count - 1
                  /\ admitted' = admitted \ {c}
             ELSE UNCHANGED <<active_connection_count, admitted>>
    BY <1>9 DEF Proceed
  <2>2. s \in L!Stages /\ stage[c] # "gone"
    BY <2>1 DEF L!Successors, L!Stages
  <2>3. Live \in SUBSET Connections /\ c \in Live
    BY <2>2 DEF Live
  <2>4. active_connection_count # 0
    BY <2>3, Finite, FS_EmptySet DEF CountsLive
  <2> QED
    BY <1>9, <2>1, <2>2, <2>4 DEF Proceed
<1>10. CASE UNCHANGED acceptorVars
  BY <1>10 DEF acceptorVars
<1> QED
  BY <1>1, <1>2, <1>3, <1>4, <1>5, <1>6, <1>7, <1>8, <1>9, <1>10 DEF AcceptorNext, AcceptorStep

\* A connection that comes, goes or stays changes the number of live ones as
\* its constructor and destructor change the count.
LEMMA NextCounts == AcceptorTypeOK /\ CountsLive /\ [AcceptorNext]_acceptorVars => CountsLive'
<1> SUFFICES ASSUME AcceptorTypeOK, CountsLive, [AcceptorNext]_acceptorVars PROVE CountsLive'
  OBVIOUS
<1> USE DEF AcceptorTypeOK
<1>0. IsFiniteSet(Live) /\ Cardinality(Live) \in Nat
  BY Finite DEF Live
<1>1. ASSUME UNCHANGED <<stage, active_connection_count>> PROVE CountsLive'
  BY <1>1 DEF CountsLive, Live
<1>2. ASSUME NEW a \in Acceptors, NEW c \in Connections, OnAcceptClient(a, c) PROVE CountsLive'
  <2>1. Live' = Live \cup {c} /\ c \notin Live
    BY <1>2 DEF OnAcceptClient, Live
  <2> QED
    BY <1>0, <1>2, <2>1, FS_AddElement DEF OnAcceptClient, CountsLive
<1>3. ASSUME NEW c \in Connections, AdmitOnReadRequest(c) PROVE CountsLive'
  <2>1. Live' = Live
    BY <1>3 DEF AdmitOnReadRequest, Live
  <2> QED
    BY <1>3, <2>1 DEF AdmitOnReadRequest, CountsLive
<1>4. ASSUME NEW c \in Connections, Proceed(c) PROVE CountsLive'
  <2>1. PICK s \in L!Successors[stage[c]] :
          /\ stage' = [stage EXCEPT ![c] = s]
          /\ IF s = "gone"
             THEN active_connection_count' = active_connection_count - 1
             ELSE UNCHANGED active_connection_count
    BY <1>4 DEF Proceed
  <2>2. stage[c] # "gone"
    BY <2>1 DEF L!Successors, L!Stages
  <2>3. CASE s = "gone"
    <3>1. Live' = Live \ {c} /\ c \in Live
      BY <2>1, <2>2, <2>3 DEF Live
    <3> QED
      BY <1>0, <2>1, <2>3, <3>1, FS_RemoveElement DEF CountsLive
  <2>4. CASE s # "gone"
    <3>1. Live' = Live
      BY <2>1, <2>2, <2>4 DEF Live
    <3> QED
      BY <2>1, <2>4, <3>1 DEF CountsLive
  <2> QED
    BY <2>3, <2>4
<1>5. ASSUME NEW a \in Acceptors,
             \/ RunOpen(a) \/ AcceptNext(a) \/ OnAcceptError(a) \/ OnAcceptThrow(a)
             \/ Throttle(a) \/ OnTimerReopen(a)
      PROVE  UNCHANGED <<stage, active_connection_count>>
  BY <1>5 DEF RunOpen, TryOpen, AcceptNext, OnAcceptError, OnAcceptThrow, Throttle,
              OnTimerReopen, acceptorVars
<1>6. CASE UNCHANGED acceptorVars
  BY <1>1, <1>6 DEF acceptorVars
<1> QED
  BY <1>1, <1>2, <1>3, <1>4, <1>5, <1>6 DEF AcceptorNext, AcceptorStep

\* The places an acceptor goes to without passing accept_next's check add
\* nothing to Waiting, and on_accept takes its acceptor out of it.
LEMMA NextHard ==
  AcceptorTypeOK /\ CountsLive /\ HardInv /\ [AcceptorNext]_acceptorVars => HardInv'
<1> SUFFICES ASSUME AcceptorTypeOK, CountsLive, HardInv, [AcceptorNext]_acceptorVars PROVE HardInv'
  OBVIOUS
<1> USE DEF AcceptorTypeOK
<1>0. /\ IsFiniteSet(Waiting) /\ Cardinality(Waiting) \in Nat
      /\ Waiting' \in SUBSET Acceptors
      /\ Cardinality(Waiting') \in Nat /\ Cardinality(Waiting') <= Cardinality(Acceptors)
      /\ Cardinality(Acceptors) \in Nat
      /\ connection_limit_hard \in Nat
  <2>1. Waiting \in SUBSET Acceptors /\ Waiting' \in SUBSET Acceptors
    BY DEF Waiting
  <2> QED
    BY <2>1, Finite, AcceptorAssumption
<1>1. ASSUME Waiting' = Waiting, UNCHANGED active_connection_count PROVE HardInv'
  BY <1>1 DEF HardInv
<1>2. ASSUME NEW a \in Acceptors, NEW p \in Places \ {"accepting"},
             at[a] # "accepting", Goto(a, p)
      PROVE  Waiting' = Waiting
  BY <1>2 DEF Waiting, Goto
<1>3. ASSUME NEW a \in Acceptors, NEW p \in Places \ {"accepting"},
             at[a] = "accepting", Goto(a, p)
      PROVE  Cardinality(Waiting') = Cardinality(Waiting) - 1
  <2>1. Waiting' = Waiting \ {a} /\ a \in Waiting
    BY <1>3 DEF Waiting, Goto
  <2> QED
    BY <1>0, <2>1, FS_RemoveElement
<1>4. ASSUME NEW a \in Acceptors, RunOpen(a) PROVE HardInv'
  BY <1>1, <1>2, <1>4 DEF RunOpen, TryOpen, IsAt, Places
<1>5. ASSUME NEW a \in Acceptors, AcceptNext(a) PROVE HardInv'
  <2>1. CASE HardLimitReached
    BY <1>1, <1>2, <1>5, <2>1 DEF AcceptNext, IsAt, Places
  <2>2. CASE ~HardLimitReached
    BY <1>0, <1>5, <2>2 DEF AcceptNext, HardLimitReached, HardInv
  <2> QED
    BY <2>1, <2>2
<1>6. ASSUME NEW a \in Acceptors, OnAcceptError(a) PROVE HardInv'
  <2>1. Cardinality(Waiting') = Cardinality(Waiting) - 1
    BY <1>3, <1>6 DEF OnAcceptError, IsAt, Places
  <2> QED
    BY <1>0, <1>6, <2>1 DEF OnAcceptError, HardInv
<1>7. ASSUME NEW a \in Acceptors, OnAcceptThrow(a) PROVE HardInv'
  BY <1>1, <1>7 DEF OnAcceptThrow, Waiting
<1>8. ASSUME NEW a \in Acceptors, Throttle(a) PROVE HardInv'
  BY <1>1, <1>2, <1>8 DEF Throttle, IsAt, Places
<1>9. ASSUME NEW a \in Acceptors, OnTimerReopen(a) PROVE HardInv'
  <2>1. CASE UNCHANGED acceptorVars
    BY <1>1, <2>1 DEF acceptorVars, Waiting
  <2>2. CASE TryOpen(a)
    BY <1>1, <1>2, <1>9, <2>2 DEF OnTimerReopen, TryOpen, IsAt, Places
  <2> QED
    BY <1>9, <2>1, <2>2 DEF OnTimerReopen
<1>10. ASSUME NEW a \in Acceptors, NEW c \in Connections, OnAcceptClient(a, c) PROVE HardInv'
  <2>1. Cardinality(Waiting') = Cardinality(Waiting) - 1
    BY <1>3, <1>10 DEF OnAcceptClient, IsAt, Places
  <2> QED
    BY <1>0, <1>10, <2>1 DEF OnAcceptClient, HardInv
<1>11. ASSUME NEW c \in Connections, AdmitOnReadRequest(c) PROVE HardInv'
  BY <1>1, <1>11 DEF AdmitOnReadRequest, Waiting
<1>12. ASSUME NEW c \in Connections, Proceed(c) PROVE HardInv'
  <2>1. Waiting' = Waiting
    BY <1>12 DEF Proceed, Waiting
  <2>2. active_connection_count' \in {active_connection_count, active_connection_count - 1}
    BY <1>12 DEF Proceed
  <2> QED
    BY <1>0, <2>1, <2>2 DEF HardInv
<1>13. CASE UNCHANGED acceptorVars
  BY <1>1, <1>13 DEF acceptorVars, Waiting
<1> QED
  BY <1>4, <1>5, <1>6, <1>7, <1>8, <1>9, <1>10, <1>11, <1>12, <1>13 DEF AcceptorNext, AcceptorStep

\* A connection is admitted when the count, and so the number of live ones
\* with those admitted before among them, is within the soft limit.
LEMMA NextSoft ==
  AcceptorTypeOK /\ CountsLive /\ SoftInv /\ [AcceptorNext]_acceptorVars => SoftInv'
<1> SUFFICES ASSUME AcceptorTypeOK, CountsLive, SoftInv, [AcceptorNext]_acceptorVars PROVE SoftInv'
  OBVIOUS
<1> USE DEF AcceptorTypeOK
<1>0. /\ IsFiniteSet(Live) /\ Cardinality(Live) \in Nat
      /\ IsFiniteSet(admitted) /\ Cardinality(admitted) \in Nat
      /\ connection_limit_soft \in Nat
  BY Finite, AcceptorAssumption DEF Live
<1>1. ASSUME UNCHANGED <<stage, admitted>> PROVE SoftInv'
  BY <1>1 DEF SoftInv, Live, OpenSockets
<1>2. ASSUME NEW a \in Acceptors,
             \/ RunOpen(a) \/ AcceptNext(a) \/ OnAcceptError(a) \/ OnAcceptThrow(a)
             \/ Throttle(a) \/ OnTimerReopen(a)
      PROVE  UNCHANGED <<stage, admitted>>
  BY <1>2 DEF RunOpen, TryOpen, AcceptNext, OnAcceptError, OnAcceptThrow, Throttle,
              OnTimerReopen, acceptorVars
<1>3. ASSUME NEW a \in Acceptors, NEW c \in Connections, OnAcceptClient(a, c) PROVE SoftInv'
  BY <1>3 DEF OnAcceptClient, SoftInv, Live, OpenSockets
<1>4. ASSUME NEW c \in Connections, AdmitOnReadRequest(c) PROVE SoftInv'
  <2>1. CASE active_connection_count > connection_limit_soft
    BY <1>4, <2>1 DEF AdmitOnReadRequest, SoftInv, Live, OpenSockets
  <2>2. CASE ~(active_connection_count > connection_limit_soft)
    <3>1. admitted' = admitted \cup {c} /\ UNCHANGED stage /\ c \in Live
      BY <1>4, <2>2 DEF AdmitOnReadRequest, Live
    <3>2. admitted' \in SUBSET Live
      BY <3>1 DEF SoftInv
    <3>3. Cardinality(admitted') <= Cardinality(Live) /\ Cardinality(admitted') \in Nat
      BY <1>0, <3>2, FS_Subset, FS_CardinalityType
    <3>4. Cardinality(admitted') <= connection_limit_soft
      BY <1>0, <2>2, <3>3 DEF CountsLive
    <3> QED
      BY <3>1, <3>2, <3>4 DEF SoftInv, Live, OpenSockets
  <2> QED
    BY <2>1, <2>2
<1>5. ASSUME NEW c \in Connections, Proceed(c) PROVE SoftInv'
  <2>1. PICK s \in L!Successors[stage[c]] :
          /\ s = "open" => c \in admitted
          /\ stage' = [stage EXCEPT ![c] = s]
          /\ IF s = "gone" THEN admitted' = admitted \ {c} ELSE UNCHANGED admitted
    BY <1>5 DEF Proceed
  <2>2. CASE s = "gone"
    <3>1. admitted' = admitted \ {c}
      BY <2>1, <2>2
    <3>2. Cardinality(admitted') <= Cardinality(admitted) /\ Cardinality(admitted') \in Nat
      BY <1>0, <3>1, FS_Subset, FS_CardinalityType
    <3>3. Cardinality(admitted') <= connection_limit_soft
      BY <1>0, <3>2 DEF SoftInv
    <3> QED
      BY <2>1, <2>2, <3>1, <3>3 DEF SoftInv, Live, OpenSockets
  <2>3. CASE s # "gone"
    BY <2>1, <2>3 DEF SoftInv, Live, OpenSockets
  <2> QED
    BY <2>2, <2>3
<1>6. CASE UNCHANGED acceptorVars
  BY <1>1, <1>6 DEF acceptorVars
<1> QED
  BY <1>1, <1>2, <1>3, <1>4, <1>5, <1>6 DEF AcceptorNext, AcceptorStep

\* active_connection_count is the number of WsConnection objects, and so never
\* negative, in every reachable state of every configuration.
THEOREM CountCorrect == AcceptorSpec => [](AcceptorTypeOK /\ CountsLive)
<1>1. AcceptorInit => AcceptorTypeOK /\ CountsLive
  BY InitInv
<1>2. AcceptorTypeOK /\ CountsLive /\ [AcceptorNext]_acceptorVars => AcceptorTypeOK' /\ CountsLive'
  BY AcceptorNextType, NextCounts
<1> QED
  BY <1>1, <1>2, PTL DEF AcceptorSpec

\* With N acceptors the count stays below connection_limit_hard + N: the
\* unsynchronised checks of accept_next exceed the limit by at most N - 1.
THEOREM HardLimitHolds == AcceptorSpec => []HardLimit
<1>1. AcceptorInit => HardInv
  BY InitInv
<1>2. AcceptorTypeOK /\ CountsLive /\ HardInv /\ [AcceptorNext]_acceptorVars => HardInv'
  BY NextHard
<1>3. AcceptorTypeOK /\ HardInv => HardLimit
  <2> SUFFICES ASSUME AcceptorTypeOK, HardInv PROVE HardLimit
    OBVIOUS
  <2>1. Cardinality(Waiting) \in Nat /\ Cardinality(Acceptors) \in Nat
    BY Finite DEF Waiting
  <2> QED
    BY <2>1, AcceptorAssumption DEF AcceptorTypeOK, HardInv, HardLimit
<1> QED
  BY <1>1, <1>2, <1>3, CountCorrect, PTL DEF AcceptorSpec

\* There are never more open websockets than connection_limit_soft, however
\* the checks of on_read_request interleave.
THEOREM SoftLimitHolds == AcceptorSpec => []SoftLimit
<1>1. AcceptorInit => SoftInv
  BY InitInv
<1>2. AcceptorTypeOK /\ CountsLive /\ SoftInv /\ [AcceptorNext]_acceptorVars => SoftInv'
  BY NextSoft
<1>3. AcceptorTypeOK /\ SoftInv => SoftLimit
  <2> SUFFICES ASSUME AcceptorTypeOK, SoftInv PROVE SoftLimit
    OBVIOUS
  <2>1. OpenSockets \in SUBSET admitted /\ IsFiniteSet(admitted) /\ Cardinality(admitted) \in Nat
    BY Finite DEF AcceptorTypeOK, SoftInv
  <2>2. Cardinality(OpenSockets) <= Cardinality(admitted) /\ Cardinality(OpenSockets) \in Nat
    BY <2>1, FS_Subset, FS_CardinalityType
  <2> QED
    BY <2>1, <2>2, AcceptorAssumption DEF SoftInv, SoftLimit, OpenSockets
<1> QED
  BY <1>1, <1>2, <1>3, CountCorrect, PTL DEF AcceptorSpec

--------------------------------------------------------------------------------
(* The message queue. *)

\* The part of the type invariant the refinement needs.
QueueType == queue \in Seq(Message) /\ message \in Message

\* Every step leaves a queue of messages.
LEMMA NextQueueType == QueueType /\ [QueueNext]_queueVars => QueueType'
<1> SUFFICES ASSUME QueueType, [QueueNext]_queueVars PROVE QueueType'
  OBVIOUS
<1> USE DEF QueueType
<1>1. ASSUME NEW m \in Message, Push(m) PROVE QueueType'
  <2>1. <<m>> \in Seq(Message)
    OBVIOUS
  <2> QED
    BY <1>1, <2>1, ConcatProperties DEF Push
<1>2. CASE TryPop
  <2>1. Len(queue) \in 1 .. Len(queue)
    BY <1>2, EmptySeq DEF TryPop
  <2>2. queue[Len(queue)] \in Message /\ \A i \in 1 .. Len(queue) - 1 : queue[i] \in Message
    BY <2>1, ElementOfSeq
  <2>3. SubSeq(queue, 1, Len(queue) - 1) \in Seq(Message)
    BY <2>1, <2>2, SubSeqProperties
  <2> QED
    BY <1>2, <2>2, <2>3 DEF TryPop
<1>3. CASE Clear
  BY <1>3, EmptySeq DEF Clear
<1>4. CASE UNCHANGED queueVars
  BY <1>4 DEF queueVars
<1> QED
  BY <1>1, <1>2, <1>3, <1>4 DEF QueueNext

\* try_pop moves the last element out and leaves the others.
LEMMA PopLeaves ==
  ASSUME QueueType, TryPop
  PROVE  /\ queue # <<>> /\ Len(queue) \in Nat \ {0}
         /\ Len(queue') = Len(queue) - 1
         /\ \A i \in 1 .. Len(queue) - 1 : queue'[i] = queue[i]
         /\ message' = queue[Len(queue)]
<1>1. queue # <<>> /\ Len(queue) \in Nat \ {0}
  BY EmptySeq DEF TryPop, QueueType
<1>2. \A i \in 1 .. Len(queue) - 1 : queue[i] \in Message
  BY <1>1, ElementOfSeq DEF QueueType
<1> DEFINE rest == SubSeq(queue, 1, Len(queue) - 1)
<1>3. /\ Len(rest) = IF 1 <= Len(queue) - 1 THEN (Len(queue) - 1) - 1 + 1 ELSE 0
      /\ \A i \in 1 .. (Len(queue) - 1) - 1 + 1 : rest[i] = queue[1 + i - 1]
  BY <1>1, <1>2, SubSeqProperties
<1>4. queue' = rest /\ message' = queue[Len(queue)]
  BY DEF TryPop
<1> HIDE DEF rest
<1>5. Len(rest) = Len(queue) - 1
  <2>1. \A n \in Nat \ {0} : (IF 1 <= n - 1 THEN (n - 1) - 1 + 1 ELSE 0) = n - 1
    OBVIOUS
  <2> QED
    BY <1>1, <1>3, <2>1
<1>6. \A i \in 1 .. Len(queue) - 1 : rest[i] = queue[i]
  BY <1>1, <1>3
<1> QED
  BY <1>1, <1>4, <1>5, <1>6

\* The queue read from its back is a sequence of messages.
LEMMA OldestFirstType ==
  ASSUME NEW q \in Seq(Message)
  PROVE  /\ OldestFirst(q) \in Seq(Message) /\ Len(OldestFirst(q)) = Len(q) /\ Len(q) \in Nat
         /\ \A i \in 1 .. Len(q) : OldestFirst(q)[i] = q[Len(q) + 1 - i]
         /\ OldestFirst(q) = <<>> <=> q = <<>>
<1>1. Len(q) \in Nat /\ \A i \in 1 .. Len(q) : q[Len(q) + 1 - i] \in Message
  BY ElementOfSeq, LenProperties
<1>2. OldestFirst(q) \in Seq(Message) /\ Len(OldestFirst(q)) = Len(q)
  BY <1>1 DEF OldestFirst
<1> QED
  BY <1>1, <1>2, EmptySeq DEF OldestFirst

\* Messages leave MessageQueue in the order in which push received them.
THEOREM QueueIsFifo == QueueSpec => IsFifo
<1> DEFINE old == OldestFirst(queue)
<1>1. QueueInit => QueueType /\ F!Init
  <2> SUFFICES ASSUME QueueInit PROVE QueueType /\ F!Init
    OBVIOUS
  <2>1. QueueType
    BY EmptySeq DEF QueueInit, QueueType
  <2> QED
    BY <2>1, OldestFirstType DEF QueueType, QueueInit, F!Init
<1>2. QueueType /\ [QueueNext]_queueVars => [F!Next]_<<old, message>>
  <2> SUFFICES ASSUME QueueType, [QueueNext]_queueVars PROVE [F!Next]_<<old, message>>
    OBVIOUS
  <2>1. QueueType'
    BY NextQueueType
  <2>2. /\ old \in Seq(Message) /\ Len(old) = Len(queue) /\ Len(queue) \in Nat
        /\ \A i \in 1 .. Len(queue) : old[i] = queue[Len(queue) + 1 - i]
        /\ old = <<>> <=> queue = <<>>
    BY OldestFirstType DEF QueueType
  <2>3. /\ old' \in Seq(Message) /\ Len(old') = Len(queue') /\ Len(queue') \in Nat
        /\ \A i \in 1 .. Len(queue') : old'[i] = queue'[Len(queue') + 1 - i]
        /\ old' = <<>> <=> queue' = <<>>
    BY <2>1, OldestFirstType DEF QueueType
  <2>4. ASSUME NEW m \in Message, Push(m) PROVE F!Put(m)
    <3>1. /\ Len(queue') = Len(queue) + 1 /\ queue'[1] = m
          /\ \A i \in 1 .. Len(queue) : queue'[i + 1] = queue[i]
      BY <2>4 DEF Push, QueueType
    <3>2. /\ Append(old, m) \in Seq(Message)
          /\ Len(Append(old, m)) = Len(old) + 1
          /\ \A i \in 1 .. Len(old) : Append(old, m)[i] = old[i]
          /\ Append(old, m)[Len(old) + 1] = m
      BY <2>2
    <3>3. ASSUME NEW i \in 1 .. Len(old')
          PROVE  old'[i] = Append(old, m)[i]
      <4>1. CASE i = Len(queue) + 1
        BY <2>2, <2>3, <3>1, <3>2, <4>1
      <4>2. CASE i \in 1 .. Len(queue)
        <5>1. old'[i] = queue'[(Len(queue) + 1 - i) + 1]
          BY <2>2, <2>3, <3>1, <4>2
        <5>2. Len(queue) + 1 - i \in 1 .. Len(queue)
          BY <2>2, <4>2
        <5>3. old'[i] = queue[Len(queue) + 1 - i]
          BY <3>1, <5>1, <5>2
        <5> QED
          BY <2>2, <3>2, <4>2, <5>3
      <4> QED
        BY <2>2, <2>3, <3>1, <4>1, <4>2
    <3>4. old' = Append(old, m)
      BY <2>2, <2>3, <3>1, <3>2, <3>3, SeqEqual
    <3> QED
      BY <2>4, <3>4 DEF Push, F!Put
  <2>5. CASE TryPop
    <3>1. /\ queue # <<>> /\ Len(queue) \in Nat \ {0}
          /\ Len(queue') = Len(queue) - 1
          /\ \A i \in 1 .. Len(queue) - 1 : queue'[i] = queue[i]
          /\ message' = queue[Len(queue)]
      BY <2>5, PopLeaves
    <3>2. /\ Tail(old) \in Seq(Message)
          /\ Len(Tail(old)) = Len(old) - 1
          /\ \A i \in 1 .. Len(Tail(old)) : Tail(old)[i] = old[i + 1]
          /\ Head(old) = old[1]
      BY <2>2, <3>1, HeadTailProperties
    <3>3. ASSUME NEW i \in 1 .. Len(old')
          PROVE  old'[i] = Tail(old)[i]
      <4>1. i \in 1 .. Len(queue) - 1 /\ Len(queue) - i \in 1 .. Len(queue) - 1
        BY <2>2, <2>3, <3>1
      <4>2. old'[i] = queue[Len(queue) - i]
        BY <2>3, <3>1, <4>1
      <4>3. Tail(old)[i] = old[i + 1]
        BY <2>2, <3>2, <4>1
      <4>4. old[i + 1] = queue[Len(queue) - i]
        BY <2>2, <4>1
      <4> QED
        BY <4>2, <4>3, <4>4
    <3>4. old' = Tail(old)
      BY <2>2, <2>3, <3>1, <3>2, <3>3, SeqEqual
    <3>5. message' = Head(old)
      BY <2>2, <3>1, <3>2
    <3> QED
      BY <2>2, <3>1, <3>4, <3>5 DEF F!Next, F!Take
  <2>6. CASE Clear
    BY <2>3, <2>6 DEF Clear, F!Next, F!Drop
  <2>7. CASE UNCHANGED queueVars
    BY <2>7 DEF queueVars
  <2> QED
    BY <2>4, <2>5, <2>6, <2>7 DEF QueueNext, F!Next
<1>3. QueueType /\ [QueueNext]_queueVars => QueueType'
  BY NextQueueType
<1> QED
  BY <1>1, <1>2, <1>3, PTL DEF QueueSpec, IsFifo, F!Spec

--------------------------------------------------------------------------------
(* The running total. *)

\* A set of numbers that has a member has a least one.
LEMMA Least == ASSUME NEW T, T \subseteq Nat, T # {} PROVE \E x \in T : \A y \in T : x <= y
<1>1. IsWellFoundedOn(OpToRel(<, Nat), Nat)
  BY NatLessThanWellFounded
<1>2. PICK x \in T : \A y \in T : ~ (<<y, x>> \in OpToRel(<, Nat))
  BY <1>1, WFMin
<1>3. \A y \in T : ~ (y < x)
  BY <1>2 DEF OpToRel
<1> QED
  BY <1>3

\* A set with 0 and the successors of its members has every number.
LEMMA Induction == ASSUME NEW S, 0 \in S, \A n \in Nat : n \in S => n + 1 \in S PROVE Nat \subseteq S
<1> DEFINE T == {n \in Nat : n \notin S}
<1> SUFFICES ASSUME T # {} PROVE FALSE
  OBVIOUS
<1> HIDE DEF T
<1>1. T \subseteq Nat
  BY DEF T
<1>2. PICK x \in T : \A y \in T : x <= y
  BY <1>1, Least
<1>3. x \in Nat /\ x # 0
  BY <1>2 DEF T
<1>4. x - 1 \in Nat /\ (x - 1) + 1 = x
  BY <1>3
<1>5. x - 1 \notin T
  BY <1>2, <1>3, <1>4
<1> QED
  BY <1>2, <1>4, <1>5 DEF T

\* f[n] is the sum of the first n of the numbers a[1] .. a[len].
IsSum(f, a, len) ==
  f = [n \in 0 .. len |-> IF n = 0 THEN 0 ELSE f[n - 1] + a[n]]

\* There is only one such f, and it has numbers as values.
LEMMA SumUnique ==
  ASSUME NEW len \in Nat, NEW a, \A n \in 1 .. len : a[n] \in Nat,
         NEW f, IsSum(f, a, len), NEW g, IsSum(g, a, len)
  PROVE  \A n \in 0 .. len : f[n] = g[n] /\ f[n] \in Nat
<1> DEFINE S == {n \in Nat : n <= len => f[n] = g[n] /\ f[n] \in Nat}
<1>1. f[0] = 0 /\ g[0] = 0
  BY DEF IsSum
<1>2. \A n \in Nat : n + 1 <= len => f[n + 1] = f[n] + a[n + 1] /\ g[n + 1] = g[n] + a[n + 1]
  <2> SUFFICES ASSUME NEW n \in Nat, n + 1 <= len
               PROVE  f[n + 1] = f[n] + a[n + 1] /\ g[n + 1] = g[n] + a[n + 1]
    OBVIOUS
  <2>1. n + 1 \in 0 .. len /\ n + 1 # 0 /\ (n + 1) - 1 = n
    OBVIOUS
  <2> QED
    BY <2>1 DEF IsSum
<1>3. 0 \in S
  BY <1>1
<1>4. \A n \in Nat : n \in S => n + 1 \in S
  <2> SUFFICES ASSUME NEW n \in Nat, n \in S, n + 1 <= len
               PROVE  f[n + 1] = g[n + 1] /\ f[n + 1] \in Nat
    OBVIOUS
  <2>1. f[n] = g[n] /\ f[n] \in Nat
    OBVIOUS
  <2>2. a[n + 1] \in Nat
    OBVIOUS
  <2> QED
    BY <1>2, <2>1, <2>2
<1> HIDE DEF S
<1>5. Nat \subseteq S
  BY <1>3, <1>4, Induction
<1> QED
  BY <1>5 DEF S

\* Sums of the numbers in a, one longer than before.
LEMMA SumExtends ==
  ASSUME NEW len \in Nat, NEW a, NEW f, IsSum(f, a, len)
  PROVE  IsSum([n \in 0 .. len + 1 |-> IF n = len + 1 THEN f[len] + a[len + 1] ELSE f[n]], a, len + 1)
<1> DEFINE g == [n \in 0 .. len + 1 |-> IF n = len + 1 THEN f[len] + a[len + 1] ELSE f[n]]
           h == [n \in 0 .. len + 1 |-> IF n = 0 THEN 0 ELSE g[n - 1] + a[n]]
<1>1. ASSUME NEW n \in 0 .. len + 1 PROVE g[n] = h[n]
  <2>1. CASE n = len + 1
    <3>1. n - 1 = len /\ len \in 0 .. len + 1 /\ len # len + 1 /\ n # 0
      BY <2>1
    <3>2. g[n - 1] = f[len]
      BY <3>1
    <3> QED
      BY <2>1, <3>1, <3>2
  <2>2. CASE n = 0
    BY <2>2 DEF IsSum
  <2>3. CASE n # 0 /\ n # len + 1
    <3>1. n \in 0 .. len /\ n - 1 \in 0 .. len + 1 /\ n - 1 # len + 1
      BY <2>3
    <3>2. f[n] = f[n - 1] + a[n]
      BY <2>3, <3>1 DEF IsSum
    <3>3. g[n - 1] = f[n - 1] /\ g[n] = f[n]
      BY <2>3, <3>1
    <3> QED
      BY <2>3, <3>2, <3>3
  <2> QED
    BY <2>1, <2>2, <2>3
<1>2. g = h
  BY <1>1
<1> QED
  BY <1>2 DEF IsSum

\* There is such an f, for every length.
LEMMA SumExists == ASSUME NEW a PROVE \A len \in Nat : \E f : IsSum(f, a, len)
<1> DEFINE S == {len \in Nat : \E f : IsSum(f, a, len)}
<1>1. 0 \in S
  <2>1. [n \in 0 .. 0 |-> 0] = [n \in 0 .. 0 |-> IF n = 0 THEN 0 ELSE [k \in 0 .. 0 |-> 0][n - 1] + a[n]]
    OBVIOUS
  <2> QED
    BY <2>1 DEF IsSum
<1>2. \A len \in Nat : len \in S => len + 1 \in S
  <2> SUFFICES ASSUME NEW len \in Nat, NEW f, IsSum(f, a, len) PROVE \E g : IsSum(g, a, len + 1)
    OBVIOUS
  <2> QED
    BY SumExtends
<1> HIDE DEF S
<1>3. Nat \subseteq S
  BY <1>1, <1>2, Induction
<1> QED
  BY <1>3 DEF S

SizesOf(q) == [n \in 1 .. Len(q) |-> q[n].size]

\* SumOfSizes is the last of any such sums of the sizes.
LEMMA SumOfSizesIs ==
  ASSUME NEW q \in Seq(Message), NEW f, IsSum(f, SizesOf(q), Len(q))
  PROVE  SumOfSizes(q) = f[Len(q)] /\ SumOfSizes(q) \in Nat
<1>1. Len(q) \in Nat /\ \A n \in 1 .. Len(q) : SizesOf(q)[n] \in Nat
  <2>1. Len(q) \in Nat
    OBVIOUS
  <2>2. \A n \in 1 .. Len(q) : q[n] \in Message
    BY ElementOfSeq
  <2>3. \A n \in 1 .. Len(q) : q[n].size \in Nat
    BY <2>2, QueueAssumption DEF Message
  <2> QED
    BY <2>1, <2>3 DEF SizesOf
<1> DEFINE sum == CHOOSE g : g = [n \in 0 .. Len(q) |-> IF n = 0 THEN 0 ELSE g[n - 1] + q[n].size]
<1>2. SumOfSizes(q) = sum[Len(q)]
  BY DEF SumOfSizes
<1>3. ASSUME NEW g
      PROVE  IsSum(g, SizesOf(q), Len(q)) <=> g = [n \in 0 .. Len(q) |-> IF n = 0 THEN 0 ELSE g[n - 1] + q[n].size]
  <2>1. \A n \in 0 .. Len(q) : n # 0 => SizesOf(q)[n] = q[n].size
    BY <1>1 DEF SizesOf
  <2>2. [n \in 0 .. Len(q) |-> IF n = 0 THEN 0 ELSE g[n - 1] + SizesOf(q)[n]]
          = [n \in 0 .. Len(q) |-> IF n = 0 THEN 0 ELSE g[n - 1] + q[n].size]
    BY <2>1
  <2> QED
    BY <2>2, Zenon DEF IsSum
<1>4. sum = [n \in 0 .. Len(q) |-> IF n = 0 THEN 0 ELSE sum[n - 1] + q[n].size]
  BY <1>3
<1> HIDE DEF sum
<1>5. IsSum(sum, SizesOf(q), Len(q))
  BY <1>3, <1>4
<1> QED
  BY <1>1, <1>2, <1>5, SumUnique

\* push adds the size of the message.
LEMMA SumOfPush ==
  ASSUME NEW q \in Seq(Message), NEW m \in Message
  PROVE  SumOfSizes(<<m>> \o q) = SumOfSizes(q) + m.size
<1> DEFINE p == <<m>> \o q
           len == Len(q)
<1>1. /\ p \in Seq(Message) /\ len \in Nat /\ Len(p) = len + 1
      /\ p[1] = m /\ \A n \in 1 .. len : p[n + 1] = q[n]
  OBVIOUS
<1>2. m.size \in Nat
  BY QueueAssumption DEF Message
<1>3. PICK f : IsSum(f, SizesOf(q), len)
  BY <1>1, SumExists
<1>4. f[0] = 0 /\ f[len] = SumOfSizes(q) /\ f[len] \in Nat
  BY <1>1, <1>3, SumOfSizesIs DEF IsSum
<1> HIDE DEF p, len
<1> DEFINE g == [n \in 0 .. len + 1 |-> IF n = 0 THEN 0 ELSE f[n - 1] + m.size]
           h == [n \in 0 .. len + 1 |-> IF n = 0 THEN 0 ELSE g[n - 1] + SizesOf(p)[n]]
<1>5. \A n \in 1 .. len + 1 : SizesOf(p)[n] = p[n].size
  BY <1>1 DEF SizesOf
<1>6. ASSUME NEW n \in 0 .. len + 1 PROVE g[n] = h[n]
  <2>1. CASE n = 0
    BY <2>1
  <2>2. CASE n = 1
    BY <1>1, <1>2, <1>4, <1>5, <2>2
  <2>3. CASE n # 0 /\ n # 1
    <3>1. n - 1 \in 0 .. len /\ n - 1 \in 0 .. len + 1 /\ n - 1 # 0 /\ n - 1 \in 1 .. len /\ (n - 1) + 1 = n
      BY <1>1, <2>3
    <3>2. f[n - 1] = f[(n - 1) - 1] + q[n - 1].size
      BY <3>1, <1>3 DEF IsSum, SizesOf, len
    <3>3. SizesOf(p)[n] = q[n - 1].size
      BY <1>1, <1>5, <2>3, <3>1
    <3>4. \A k \in 0 .. len : f[k] \in Nat
      <4>1. \A k \in 1 .. len : q[k] \in Message
        BY ElementOfSeq DEF len
      <4>2. \A k \in 1 .. len : SizesOf(q)[k] \in Nat
        BY <1>1, <4>1, QueueAssumption DEF Message, SizesOf, len
      <4> QED
        BY <1>1, <1>3, <4>2, SumUnique
    <3>5. q[n - 1].size \in Nat /\ f[(n - 1) - 1] \in Nat
      <4>1. q[n - 1] \in Message
        BY <3>1, ElementOfSeq DEF len
      <4>2. (n - 1) - 1 \in 0 .. len
        BY <1>1, <3>1
      <4>3. q[n - 1].size \in Nat
        BY <4>1, QueueAssumption DEF Message
      <4> QED
        BY <3>4, <4>2, <4>3
    <3> QED
      BY <1>2, <2>3, <3>1, <3>2, <3>3, <3>5
  <2> QED
    BY <2>1, <2>2, <2>3
<1>7. g = h
  BY <1>6
<1>8. IsSum(g, SizesOf(p), Len(p))
  BY <1>1, <1>7 DEF IsSum
<1>9. SumOfSizes(p) = g[len + 1]
  BY <1>1, <1>8, SumOfSizesIs
<1> QED
  BY <1>1, <1>4, <1>9 DEF p

\* try_pop takes the size of the oldest message off.
LEMMA SumOfPop ==
  ASSUME NEW q \in Seq(Message), NEW rest \in Seq(Message), Len(q) # 0, Len(rest) = Len(q) - 1,
         \A n \in 1 .. Len(rest) : rest[n] = q[n]
  PROVE  SumOfSizes(q) = SumOfSizes(rest) + q[Len(q)].size /\ SumOfSizes(rest) \in Nat
<1> DEFINE len == Len(rest)
<1>1. len \in Nat /\ Len(q) = len + 1
  OBVIOUS
<1>2. PICK f : IsSum(f, SizesOf(q), len)
  BY <1>1, SumExists
<1> HIDE DEF len
<1>3. \A n \in 0 .. len : n # 0 => SizesOf(q)[n] = SizesOf(rest)[n]
  BY <1>1 DEF SizesOf, len
<1>4. IsSum(f, SizesOf(rest), len)
  <2>1. [n \in 0 .. len |-> IF n = 0 THEN 0 ELSE f[n - 1] + SizesOf(q)[n]]
          = [n \in 0 .. len |-> IF n = 0 THEN 0 ELSE f[n - 1] + SizesOf(rest)[n]]
    BY <1>3
  <2> QED
    BY <1>2, <2>1, Zenon DEF IsSum
<1>5. SumOfSizes(rest) = f[len] /\ SumOfSizes(rest) \in Nat
  BY <1>4, SumOfSizesIs DEF len
<1> DEFINE g == [n \in 0 .. len + 1 |-> IF n = len + 1 THEN f[len] + SizesOf(q)[len + 1] ELSE f[n]]
<1>6. IsSum(g, SizesOf(q), len + 1)
  BY <1>1, <1>2, SumExtends
<1>7. SumOfSizes(q) = g[len + 1]
  <2> HIDE DEF g
  <2> QED
    BY <1>1, <1>6, SumOfSizesIs
<1>8. g[len + 1] = f[len] + q[Len(q)].size
  BY <1>1 DEF SizesOf
<1> QED
  BY <1>5, <1>7, <1>8

\* An empty list has no size.
LEMMA SumOfNone == SumOfSizes(<<>>) = 0
<1>1. <<>> \in Seq(Message) /\ Len(<<>>) = 0
  OBVIOUS
<1>2. PICK f : IsSum(f, SizesOf(<<>>), 0)
  BY SumExists
<1>3. f[0] = 0
  BY <1>2 DEF IsSum
<1> QED
  BY <1>1, <1>2, <1>3, SumOfSizesIs

\* The total never drifts from the sum, and stays a number: try_pop does not
\* take off more than was added.
THEOREM TotalIsSum == QueueSpec => [](QueueTypeOK /\ TotalSize)
<1>1. QueueInit => QueueType /\ TotalSize
  <2> SUFFICES ASSUME QueueInit PROVE QueueType /\ TotalSize
    OBVIOUS
  <2>1. QueueType
    BY EmptySeq DEF QueueInit, QueueType
  <2> QED
    BY <2>1, SumOfNone DEF QueueInit, TotalSize
<1>2. QueueType /\ TotalSize /\ [QueueNext]_queueVars => TotalSize'
  <2> SUFFICES ASSUME QueueType, TotalSize, [QueueNext]_queueVars PROVE total_size' = SumOfSizes(queue')
    BY DEF TotalSize
  <2>1. queue \in Seq(Message) /\ queue' \in Seq(Message)
    BY NextQueueType DEF QueueType
  <2>2. ASSUME NEW m \in Message, Push(m) PROVE total_size' = SumOfSizes(queue')
    <3>1. SumOfSizes(<<m>> \o queue) = SumOfSizes(queue) + m.size
      BY <2>1, SumOfPush
    <3> QED
      BY <2>2, <3>1, Zenon DEF Push, TotalSize
  <2>3. CASE TryPop
    <3>1. /\ Len(queue) # 0 /\ Len(queue') = Len(queue) - 1
          /\ \A n \in 1 .. Len(queue') : queue'[n] = queue[n]
          /\ message' = queue[Len(queue)]
      BY <2>3, PopLeaves
    <3>2. SumOfSizes(queue) = SumOfSizes(queue') + queue[Len(queue)].size /\ SumOfSizes(queue') \in Nat
      BY <2>1, <3>1, SumOfPop
    <3>3. queue[Len(queue)].size \in Nat
      <4>1. Len(queue) \in 1 .. Len(queue)
        BY <2>1, <3>1, LenProperties
      <4>2. queue[Len(queue)] \in Message
        BY <2>1, <4>1, ElementOfSeq
      <4> QED
        BY <4>2, QueueAssumption DEF Message
    <3>4. total_size' = SumOfSizes(queue) - queue[Len(queue)].size
      BY <2>3, <3>1 DEF TryPop, TotalSize
    <3> QED
      BY <3>2, <3>3, <3>4
  <2>4. CASE Clear
    BY <2>4, SumOfNone DEF Clear
  <2>5. CASE UNCHANGED queueVars
    BY <2>5 DEF queueVars, TotalSize
  <2> QED
    BY <2>2, <2>3, <2>4, <2>5 DEF QueueNext
<1>3. QueueType /\ TotalSize => QueueTypeOK
  <2> SUFFICES ASSUME QueueType, TotalSize PROVE total_size \in Nat
    BY DEF QueueType, QueueTypeOK
  <2>1. PICK f : IsSum(f, SizesOf(queue), Len(queue))
    BY SumExists, LenProperties DEF QueueType
  <2> QED
    BY <2>1, SumOfSizesIs DEF QueueType, TotalSize
<1>4. QueueType /\ [QueueNext]_queueVars => QueueType'
  BY NextQueueType
<1> QED
  BY <1>1, <1>2, <1>3, <1>4, PTL DEF QueueSpec

--------------------------------------------------------------------------------
(* One connection. *)

\* Only an SSL stream that is being shut down answers "canceled", so an error
\* handler that leaves the connection as it is never leaves it open.  And
\* async_shutdown is started together with shutting_down_.
CloseInv ==
  /\ inbound_ec = "canceled" => ~Open
  /\ write_ec = "canceled" => ~Open
  /\ shutdown_ec # "idle" => shutting_down

\* The writing side: closing empties the queue, and is_writing_ is set during
\* every write.  (After a write that failed it stays set for good.)
WriteInv ==
  /\ WriterAwake
  /\ write_ec # "idle" => is_writing
  /\ ~Open => message_queue = <<>>

\* A message processed late was the last: no read succeeds on a closed socket.
LateInv == late <= 1 /\ (late > 0 => dropped /\ inbound_ec # "ok")

\* On an open websocket the rest of the wait and the silence so far are together
\* more than ws_timeout, whether or not on_read has moved the expiry.
SilenceInv ==
  inbound = "read" /\ timer = "armed" => silence > ws_timeout \/ expiry + silence > ws_timeout

USE DEF Results, OpStates, Handshakes

\* Closing changes the flags, the queue and the timer only in these ways.
LEMMA CloseEffect ==
  ASSUME TypeOK,
         \/ Abort \/ Shutdown \/ UNCHANGED closeVars
         \/ \E ec \in Results \ {"ok"} : HandleError(ec)
  PROVE  /\ dropped' \in BOOLEAN /\ shutting_down' \in BOOLEAN
         /\ shutdown_ec' \in OpStates
         /\ message_queue' \in Seq(Nat)
         /\ timer' \in {"armed", "off"} /\ expiry' \in Nat
         /\ UNCHANGED closeVars \/ (~Open' /\ message_queue' = <<>>)
<1>1. Abort \/ Shutdown \/ UNCHANGED closeVars
  BY DEF HandleError
<1>2. <<>> \in Seq(Nat)
  OBVIOUS
<1>3. CASE UNCHANGED closeVars
  BY <1>3 DEF TypeOK, closeVars
<1>4. CASE Abort
  BY <1>2, <1>3, <1>4 DEF TypeOK, Abort, CancelTimer, Open
<1>5. CASE Shutdown
  BY <1>2, <1>3, <1>5 DEF TypeOK, Shutdown, CancelTimer, Open
<1> QED
  BY <1>1, <1>3, <1>4, <1>5

\* Nothing but the end of a connection closes it, and nothing reopens it.
LEMMA NeverReopens == TypeOK /\ [Next]_vars => (~Open => ~Open')
<1> SUFFICES ASSUME TypeOK, [Next]_vars, ~Open PROVE ~Open'
  OBVIOUS
<1> USE DEF TypeOK, Open
<1>1. CASE UNCHANGED closeVars
  BY <1>1 DEF closeVars
<1>2. CASE CompleteInbound \/ CompleteWrite \/ SendMessage
  BY <1>2 DEF CompleteInbound, CompleteWrite, SendMessage, closeVars
<1>3. CASE CompleteShutdown \/ Tick \/ RunSend \/ OnShutdown
  BY <1>3 DEF CompleteShutdown, Tick, RunSend, OnShutdown
<1>4. CASE OnWriteMessage
  BY <1>4 DEF OnWriteMessage, HandleError, Abort, Shutdown, closeVars
<1>5. CASE OnTimeout
  BY <1>5 DEF OnTimeout, Abort, closeVars
<1>6. CASE OnSslHandshake
  BY <1>6 DEF OnSslHandshake, Abort, closeVars
<1>7. CASE OnReadRequest
  BY <1>7 DEF OnReadRequest, HandleError, Abort, Shutdown, closeVars
<1>8. CASE OnWsHandshake
  BY <1>8 DEF OnWsHandshake, Shutdown, closeVars
<1>9. CASE OnReadError
  BY <1>9 DEF OnReadError, HandleError, Abort, Shutdown, closeVars
<1>10. ASSUME NEW len \in Lengths, NEW binary \in BOOLEAN, OnReadMessage(len, binary)
       PROVE  ~Open'
  BY <1>10 DEF OnReadMessage, Abort, Shutdown, closeVars
<1> QED
  BY <1>1, <1>2, <1>3, <1>4, <1>5, <1>6, <1>7, <1>8, <1>9, <1>10
     DEF Next, OnRead, vars

\* The counters stay counters.
LEMMA RateType ==
  ASSUME rate \in Counters, NEW len \in Nat
  PROVE  /\ Older(rate) \in Counters
         /\ Charge(rate, len) \in Counters
         /\ Checked(Charge(rate, len)) \in Counters
<1>1. Second \in Nat \ {0}
  BY RateAssumption
<1>2. Older(rate) \in Counters
  BY <1>1 DEF Counters, Older
<1>3. Charge(rate, len) \in Counters
  BY <1>1 DEF Counters, Charge
<1>4. ZeroCounters \in Counters
  BY <1>1 DEF Counters, ZeroCounters
<1> QED
  BY <1>2, <1>3, <1>4 DEF Checked

\* Every timeout is a number of ticks.
LEMMA TimeoutType ==
  /\ FullTimeout \in Nat /\ ws_setup_timeout \in Nat
  /\ TypeOK /\ ResetTimeoutIfRequired => timer' \in {"armed", "off"} /\ expiry' \in Nat
BY ConnectionAssumption DEF FullTimeout, TypeOK, ResetTimeoutIfRequired, SetTimeout

\* The writing side keeps its types.
LEMMA WriteType ==
  ASSUME TypeOK
  PROVE  /\ \A m \in Nat : DoWriteMessage(m) =>
              message_outbound' \in Nat /\ write_ec' \in OpStates /\ written' \in Seq(Nat)
         /\ WriteNext =>
              /\ message_outbound' \in Nat /\ write_ec' \in OpStates /\ written' \in Seq(Nat)
              /\ message_queue' \in Seq(Nat) /\ is_writing' \in BOOLEAN
         /\ \A m \in Nat : PushMessage(m) => message_queue' \in Seq(Nat)
<1> USE DEF TypeOK
<1>1. \A m \in Nat : DoWriteMessage(m) =>
        message_outbound' \in Nat /\ write_ec' \in OpStates /\ written' \in Seq(Nat)
  BY DEF DoWriteMessage
<1>2. ASSUME WriteNext
      PROVE  /\ message_outbound' \in Nat /\ write_ec' \in OpStates /\ written' \in Seq(Nat)
             /\ message_queue' \in Seq(Nat) /\ is_writing' \in BOOLEAN
  <2>1. CASE message_queue # <<>>
    <3>1. Head(message_queue) \in Nat /\ Tail(message_queue) \in Seq(Nat)
      BY <2>1
    <3>2. DoWriteMessage(Head(message_queue)) /\ message_queue' = Tail(message_queue)
          /\ is_writing' = is_writing
      BY <1>2, <2>1 DEF WriteNext
    <3> QED
      BY <1>1, <3>1, <3>2
  <2>2. CASE message_queue = <<>>
    <3>1. /\ message_outbound' = 0 /\ write_ec' = "idle" /\ is_writing' = FALSE
          /\ UNCHANGED <<written, message_queue>>
      BY <1>2, <2>2 DEF WriteNext
    <3> QED
      BY <3>1
  <2> QED
    BY <2>1, <2>2
<1>3. \A m \in Nat : PushMessage(m) => message_queue' \in Seq(Nat)
  BY DEF PushMessage
<1> QED
  BY <1>1, <1>2, <1>3

\* Every step preserves the types.
LEMMA NextType == TypeOK /\ [Next]_vars => TypeOK'
<1> SUFFICES ASSUME TypeOK, [Next]_vars PROVE TypeOK'
  OBVIOUS
<1> USE DEF closeVars, writeVars, readVars, sendVars
<1>1. CASE CompleteInbound \/ CompleteWrite \/ CompleteShutdown
  <2>1. Outcomes \subseteq OpStates
    BY DEF Outcomes
  <2>2. upgraded' \in BOOLEAN
    BY <1>1 DEF TypeOK, CompleteInbound, CompleteWrite, CompleteShutdown
  <2>3. inbound_ec' \in OpStates /\ write_ec' \in OpStates /\ shutdown_ec' \in OpStates
    BY <1>1, <2>1 DEF TypeOK, CompleteInbound, CompleteWrite, CompleteShutdown
  <2>4. UNCHANGED <<dropped, shutting_down, is_writing, message_queue, message_outbound,
                    inbound, timer, expiry, expired, rate, posted, sent, accepted,
                    written, silence, late>>
    BY <1>1 DEF CompleteInbound, CompleteWrite, CompleteShutdown
  <2> QED
    BY <2>2, <2>3, <2>4 DEF TypeOK
<1>2. CASE Tick
  <2>1. rate' \in Counters
    BY <1>2, RateType DEF TypeOK, Tick
  <2> QED
    BY <1>2, <2>1 DEF TypeOK, Tick
<1>3. CASE SendMessage
  BY <1>3 DEF TypeOK, SendMessage
<1>4. CASE RunSend
  <2>1. Head(posted) \in Nat /\ Tail(posted) \in Seq(Nat)
    BY <1>4 DEF TypeOK, RunSend
  <2>2. accepted' \in Seq(Nat)
    <3>1. accepted \in Seq(Nat) /\ Append(accepted, Head(posted)) \in Seq(Nat)
      BY <2>1 DEF TypeOK
    <3> QED
      BY <1>4, <3>1 DEF RunSend
  <2>3. message_queue' \in Seq(Nat) /\ is_writing' \in BOOLEAN
        /\ message_outbound' \in Nat /\ write_ec' \in OpStates /\ written' \in Seq(Nat)
    <3>1. CASE ~Open
      BY <1>4, <3>1 DEF TypeOK, RunSend
    <3>2. CASE Open /\ is_writing
      BY <1>4, <2>1, <3>2, WriteType DEF TypeOK, RunSend
    <3>3. CASE Open /\ ~is_writing
      BY <1>4, <2>1, <3>3, WriteType DEF TypeOK, RunSend
    <3> QED
      BY <3>1, <3>2, <3>3
  <2> QED
    BY <1>4, <2>1, <2>2, <2>3 DEF TypeOK, RunSend
<1>5. CASE OnWriteMessage
  <2>1. CASE write_ec = "ok"
    BY <1>5, <2>1, WriteType DEF TypeOK, OnWriteMessage
  <2>2. CASE write_ec # "ok"
    <3>1. write_ec \in Results \ {"ok"} /\ HandleError(write_ec)
      BY <1>5, <2>2 DEF OnWriteMessage
    <3> QED
      BY <1>5, <2>2, <3>1, CloseEffect DEF TypeOK, OnWriteMessage
  <2> QED
    BY <2>1, <2>2
<1>6. CASE OnTimeout
  <2>1. Abort /\ UNCHANGED <<writeVars, readVars, sendVars>> /\ expired' = FALSE
    BY <1>6 DEF OnTimeout
  <2>2. /\ dropped' \in BOOLEAN /\ shutting_down' \in BOOLEAN /\ shutdown_ec' \in OpStates
        /\ message_queue' \in Seq(Nat) /\ timer' \in {"armed", "off"} /\ expiry' \in Nat
    BY <2>1, CloseEffect, Zenon
  <2> QED
    BY <2>1, <2>2 DEF TypeOK, writeVars, readVars, sendVars
<1>7. CASE OnShutdown
  BY <1>7 DEF TypeOK, OnShutdown
<1>8. CASE OnSslHandshake
  <2>1. Abort \/ UNCHANGED closeVars
    BY <1>8 DEF OnSslHandshake
  <2> QED
    BY <1>8, <2>1, CloseEffect DEF TypeOK, OnSslHandshake, StartInbound, EndInbound
<1>9. CASE OnReadRequest
  <2>1. \/ Shutdown \/ UNCHANGED closeVars \/ \E ec \in Results \ {"ok"} : HandleError(ec)
    BY <1>9 DEF OnReadRequest
  <2> QED
    BY <1>9, <2>1, CloseEffect DEF TypeOK, OnReadRequest, StartInbound, EndInbound
<1>10. CASE OnWsHandshake
  <2>1. CASE Shutdown \/ UNCHANGED closeVars
    BY <1>10, <2>1, CloseEffect, TimeoutType DEF TypeOK, OnWsHandshake, StartInbound, EndInbound
  <2>2. CASE SetTimeout(FullTimeout) /\ UNCHANGED <<dropped, shutting_down, shutdown_ec, message_queue>>
    BY <1>10, <2>2, TimeoutType DEF TypeOK, OnWsHandshake, StartInbound, EndInbound, SetTimeout
  <2> QED
    BY <1>10, <2>1, <2>2 DEF OnWsHandshake
<1>11. CASE OnReadError
  <2>1. \E ec \in Results \ {"ok"} : HandleError(ec)
    BY <1>11 DEF OnReadError
  <2> QED
    BY <1>11, <2>1, CloseEffect DEF TypeOK, OnReadError, EndInbound
<1>12. ASSUME NEW len \in Lengths, NEW binary \in BOOLEAN, OnReadMessage(len, binary)
       PROVE  TypeOK'
  <2>1. rate' \in Counters
    BY <1>12, RateType, ConnectionAssumption DEF TypeOK, OnReadMessage
  <2>2. CASE Abort \/ Shutdown
    BY <1>12, <2>1, <2>2, CloseEffect, TimeoutType
       DEF TypeOK, OnReadMessage, StartInbound, EndInbound
  <2>3. CASE ResetTimeoutIfRequired /\ UNCHANGED <<dropped, shutting_down, shutdown_ec, message_queue>>
    BY <1>12, <2>1, <2>3, TimeoutType
       DEF TypeOK, OnReadMessage, StartInbound, EndInbound
  <2> QED
    BY <1>12, <2>2, <2>3 DEF OnReadMessage
<1>13. CASE UNCHANGED vars
  BY <1>13 DEF TypeOK, vars
<1> QED
  BY <1>1, <1>2, <1>3, <1>4, <1>5, <1>6, <1>7, <1>8, <1>9, <1>10, <1>11, <1>12, <1>13
     DEF Next, OnRead

\* An operation completes with "canceled" only on a closing connection, and the
\* connection then stays closing.
LEMMA NextClose == TypeOK /\ CloseInv /\ [Next]_vars => CloseInv'
<1> SUFFICES ASSUME TypeOK, CloseInv, [Next]_vars PROVE CloseInv'
  OBVIOUS
<1>1. ~Open => ~Open'
  BY NeverReopens
<1>2. \/ inbound_ec' = inbound_ec \/ inbound_ec' # "canceled"
      \/ CompleteInbound
  BY DEF Next, vars, closeVars, writeVars, readVars, sendVars, CompleteWrite, CompleteShutdown,
         Tick, SendMessage, RunSend, OnWriteMessage, OnTimeout, OnShutdown, OnSslHandshake,
         OnReadRequest, OnWsHandshake, OnRead, OnReadError, OnReadMessage, StartInbound, EndInbound
<1>3. \/ write_ec' = write_ec \/ write_ec' # "canceled"
      \/ CompleteWrite
  BY DEF Next, vars, closeVars, writeVars, readVars, sendVars, CompleteInbound, CompleteShutdown,
         Tick, SendMessage, RunSend, OnWriteMessage, OnTimeout, OnShutdown, OnSslHandshake,
         OnReadRequest, OnWsHandshake, OnRead, OnReadError, OnReadMessage, DoWriteMessage, WriteNext
<1>4. Open => "canceled" \notin Outcomes
  BY DEF Open, Outcomes
<1>5. inbound_ec' = "canceled" => ~Open'
  BY <1>1, <1>2, <1>4 DEF CloseInv, CompleteInbound
<1>6. write_ec' = "canceled" => ~Open'
  BY <1>1, <1>3, <1>4 DEF CloseInv, CompleteWrite
<1>7. shutdown_ec' # "idle" => shutting_down'
  BY DEF CloseInv, Next, vars, closeVars, CompleteInbound, CompleteWrite, CompleteShutdown, Tick,
         SendMessage, RunSend, OnWriteMessage, OnTimeout, OnShutdown, OnSslHandshake,
         OnReadRequest, OnWsHandshake, OnRead, OnReadError, OnReadMessage,
         HandleError, Abort, Shutdown
<1> QED
  BY <1>5, <1>6, <1>7 DEF CloseInv

\* A handler of the reading side that starts no further operation closes.
LEMMA NextWatched == TypeOK /\ CloseInv /\ Watched /\ [Next]_vars => Watched'
<1> SUFFICES ASSUME TypeOK, CloseInv, Watched, [Next]_vars, Open' PROVE Watched'
  BY DEF Watched
<1>1. Open
  BY NeverReopens
<1>2. inbound_ec # "idle" /\ inbound_ec # "canceled" /\ (timer = "armed" \/ expired)
  BY <1>1 DEF Watched, CloseInv
<1>3. ASSUME Abort \/ Shutdown PROVE FALSE
  BY <1>1, <1>3 DEF Abort, Shutdown, Open
<1>4. ASSUME NEW ec \in Results \ {"ok", "canceled"}, HandleError(ec) PROVE FALSE
  BY <1>3, <1>4 DEF HandleError
<1> USE <1>2 DEF Watched, closeVars, writeVars, readVars, sendVars
<1>5. CASE CompleteInbound
  BY <1>5 DEF CompleteInbound, Outcomes
<1>6. CASE CompleteWrite \/ CompleteShutdown \/ SendMessage \/ RunSend \/ OnShutdown
  BY <1>6 DEF CompleteWrite, CompleteShutdown, SendMessage, RunSend, OnShutdown
<1>7. CASE Tick
  BY <1>7 DEF Tick, TypeOK
<1>8. CASE OnWriteMessage
  <2>1. write_ec # "canceled"
    BY <1>1 DEF CloseInv
  <2>2. write_ec = "ok"
    BY <1>4, <1>8, <2>1 DEF OnWriteMessage
  <2> QED
    BY <1>8, <2>2 DEF OnWriteMessage
<1>9. CASE OnTimeout
  BY <1>3, <1>9 DEF OnTimeout
<1>10. CASE OnSslHandshake
  BY <1>3, <1>10 DEF OnSslHandshake, StartInbound
<1>11. CASE OnReadRequest
  <2>1. StartInbound("ws_handshake") /\ UNCHANGED closeVars
    BY <1>3, <1>4, <1>11 DEF OnReadRequest
  <2> QED
    BY <1>11, <2>1 DEF OnReadRequest, StartInbound
<1>12. CASE OnWsHandshake
  <2>1. StartInbound("read") /\ SetTimeout(FullTimeout)
    BY <1>1, <1>3, <1>12 DEF OnWsHandshake, Open
  <2> QED
    BY <2>1 DEF StartInbound, SetTimeout
<1>13. CASE OnReadError
  BY <1>4, <1>13 DEF OnReadError
<1>14. ASSUME NEW len \in Lengths, NEW binary \in BOOLEAN, OnReadMessage(len, binary)
       PROVE  Watched'
  <2>1. StartInbound("read") /\ ResetTimeoutIfRequired /\ UNCHANGED expired
    BY <1>3, <1>14 DEF OnReadMessage
  <2> QED
    BY <2>1 DEF StartInbound, ResetTimeoutIfRequired, SetTimeout
<1>15. CASE UNCHANGED vars
  BY <1>15 DEF vars, Open
<1> QED
  BY <1>5, <1>6, <1>7, <1>8, <1>9, <1>10, <1>11, <1>12, <1>13, <1>14, <1>15 DEF Next, OnRead

\* The handlers that leave the writing side alone: what they do is close.
LEMMA OtherHandlers ==
  ASSUME TypeOK, [Next]_vars, ~RunSend, ~OnWriteMessage
  PROVE  /\ UNCHANGED <<is_writing, message_outbound, written, accepted>>
         /\ \/ message_queue' = message_queue /\ UNCHANGED <<dropped, shutting_down>>
            \/ message_queue' = <<>> /\ ~Open'
            \/ message_queue' = message_queue /\ OnShutdown
         /\ write_ec' = write_ec \/ CompleteWrite
<1> USE DEF closeVars, writeVars, readVars, sendVars
<1>1. UNCHANGED <<is_writing, message_outbound, written, accepted>>
  BY DEF Next, vars, CompleteInbound, CompleteWrite, CompleteShutdown, Tick, SendMessage,
         OnTimeout, OnShutdown, OnSslHandshake, OnReadRequest, OnWsHandshake, OnRead,
         OnReadError, OnReadMessage
<1>2. write_ec' = write_ec \/ CompleteWrite
  BY DEF Next, vars, CompleteInbound, CompleteShutdown, Tick, SendMessage,
         OnTimeout, OnShutdown, OnSslHandshake, OnReadRequest, OnWsHandshake, OnRead,
         OnReadError, OnReadMessage
<1>3. \/ Abort \/ Shutdown \/ UNCHANGED closeVars
      \/ UNCHANGED <<dropped, shutting_down, message_queue>>
      \/ OnShutdown /\ UNCHANGED message_queue
      \/ \E ec \in Results \ {"ok"} : HandleError(ec)
  BY DEF Next, vars, CompleteInbound, CompleteWrite, CompleteShutdown, Tick, SendMessage,
         OnTimeout, OnShutdown, OnSslHandshake, OnReadRequest, OnWsHandshake, OnRead,
         OnReadError, OnReadMessage
<1> QED
  BY <1>1, <1>2, <1>3, CloseEffect

\* Only RunSend and OnWriteMessage start a write or touch the queue, and a
\* write that fails closes the connection.
LEMMA NextWrite == TypeOK /\ CloseInv /\ WriteInv /\ [Next]_vars => WriteInv'
<1> SUFFICES ASSUME TypeOK, CloseInv, WriteInv, [Next]_vars PROVE WriteInv'
  OBVIOUS
<1>0. ~Open => ~Open'
  BY NeverReopens
<1> USE DEF WriteInv, WriterAwake, closeVars, writeVars, readVars, sendVars
<1>1. CASE RunSend
  <2>1. CASE ~Open
    BY <1>0, <1>1, <2>1 DEF RunSend
  <2>2. CASE Open /\ ~is_writing
    BY <1>1, <2>2 DEF RunSend, DoWriteMessage, Open
  <2>3. CASE Open /\ is_writing
    BY <1>1, <2>3 DEF RunSend, Open
  <2> QED
    BY <2>1, <2>2, <2>3
<1>2. CASE OnWriteMessage
  <2>1. CASE write_ec # "ok"
    <3>1. write_ec \in Results \ {"ok"} /\ HandleError(write_ec)
          /\ UNCHANGED is_writing /\ write_ec' = "idle"
      BY <1>2, <2>1 DEF OnWriteMessage
    <3>2. UNCHANGED closeVars \/ (~Open' /\ message_queue' = <<>>)
      BY <3>1, CloseEffect
    <3>3. ~Open'
      BY <1>0, <3>1 DEF HandleError, CloseInv, Abort, Shutdown, Open
    <3> QED
      BY <3>1, <3>2, <3>3 DEF Open
  <2>2. CASE write_ec = "ok"
    <3>1. WriteNext /\ UNCHANGED <<dropped, shutting_down>>
      BY <1>2, <2>2 DEF OnWriteMessage
    <3>2. CASE message_queue # <<>>
      BY <2>2, <3>1, <3>2 DEF WriteNext, DoWriteMessage, Open
    <3>3. CASE message_queue = <<>>
      BY <3>1, <3>3 DEF WriteNext, Open
    <3> QED
      BY <3>2, <3>3
  <2> QED
    BY <2>1, <2>2
<1>3. CASE ~RunSend /\ ~OnWriteMessage
  <2>1. UNCHANGED is_writing /\ (write_ec' # "idle" <=> write_ec # "idle")
    BY <1>3, OtherHandlers DEF CompleteWrite, Outcomes
  <2>2. \/ UNCHANGED <<message_queue, dropped, shutting_down>>
        \/ message_queue' = <<>> /\ ~Open'
        \/ message_queue' = message_queue /\ OnShutdown
    BY <1>3, OtherHandlers
  <2>3. OnShutdown => ~Open /\ ~Open'
    BY DEF CloseInv, OnShutdown, Open
  <2> QED
    BY <1>0, <2>1, <2>2, <2>3 DEF Open
<1> QED
  BY <1>1, <1>2, <1>3

\* Moving the head of a queue to the end of what comes before it, and adding to
\* the queue, are the same on the concatenation as nothing and as adding.
LEMMA QueueMoves ==
  ASSUME NEW w \in Seq(Nat), NEW q \in Seq(Nat), NEW m \in Nat
  PROVE  /\ q # <<>> => Append(w, Head(q)) \o Tail(q) = w \o q
         /\ w \o Append(q, m) = Append(w \o q, m)
         /\ q = <<>> => Append(w, m) \o q = Append(w \o q, m)
<1>1. q # <<>> => Append(w, Head(q)) \o Tail(q) = w \o q
  <2> SUFFICES ASSUME q # <<>> PROVE Append(w, Head(q)) \o Tail(q) = w \o q
    OBVIOUS
  <2>1. /\ Head(q) = q[1] /\ Head(q) \in Nat /\ Tail(q) \in Seq(Nat)
        /\ 1 \in 1 .. Len(q) /\ Len(q) \in 1 .. Len(q)
    BY HeadTailProperties, EmptySeq
  <2>2. SubSeq(q, 1, Len(q)) = <<q[1]>> \o SubSeq(q, 1 + 1, Len(q))
    BY <2>1, SubSeqRecursiveFirst
  <2>3. q = <<Head(q)>> \o Tail(q)
    BY <2>1, <2>2, TailIsSubSeq, SubSeqFull
  <2>4. Append(w, Head(q)) = w \o <<Head(q)>> /\ <<Head(q)>> \in Seq(Nat)
    BY <2>1
  <2>5. (w \o <<Head(q)>>) \o Tail(q) = w \o (<<Head(q)>> \o Tail(q))
    <3> DEFINE h == <<Head(q)>> t == Tail(q)
    <3>1. h \in Seq(Nat) /\ t \in Seq(Nat)
      BY <2>1, <2>4
    <3> HIDE DEF h, t
    <3>2. (w \o h) \o t = w \o (h \o t)
      BY <3>1, ConcatAssociative, SMTT(30)
    <3> QED
      BY <3>2, Zenon DEF h, t
  <2>6. Append(w, Head(q)) \o Tail(q) = (w \o <<Head(q)>>) \o Tail(q)
    BY <2>4, Zenon
  <2>7. w \o (<<Head(q)>> \o Tail(q)) = w \o q
    BY <2>3, Zenon
  <2> QED
    BY <2>5, <2>6, <2>7, Zenon
<1>2. w \o Append(q, m) = Append(w \o q, m)
  <2>1. Append(q, m) = q \o <<m>> /\ <<m>> \in Seq(Nat)
    OBVIOUS
  <2>2. w \o q \in Seq(Nat)
    BY ConcatProperties
  <2>3. \A s \in Seq(Nat) : Append(s, m) = s \o <<m>>
    OBVIOUS
  <2> QED
    BY <2>1, <2>2, <2>3, ConcatAssociative
<1>3. q = <<>> => Append(w, m) \o q = Append(w \o q, m)
  BY ConcatEmptySeq
<1> QED
  BY <1>1, <1>2, <1>3

\* What was written is a prefix of what it is followed by.
LEMMA WrittenIsPrefix ==
  ASSUME NEW w \in Seq(Nat), NEW q \in Seq(Nat)
  PROVE  /\ Len(w) <= Len(w \o q)
         /\ \A i \in 1 .. Len(w) : w[i] = (w \o q)[i]
<1>1. Len(w) \in Nat /\ Len(q) \in Nat
  BY LenProperties
<1> QED
  BY <1>1, ConcatProperties

\* A message moves from the lambda to the queue and from the queue to the
\* writer; closing forgets the queue, and nothing is written afterwards.
LEMMA NextOrder == TypeOK /\ CloseInv /\ WriteInv /\ InOrder /\ [Next]_vars => InOrder'
<1> SUFFICES ASSUME TypeOK, CloseInv, WriteInv, InOrder, [Next]_vars PROVE InOrder'
  OBVIOUS
<1>1. ASSUME accepted' = written' \o message_queue' PROVE InOrder'
  <2>1. written' \in Seq(Nat) /\ message_queue' \in Seq(Nat)
    BY NextType DEF TypeOK
  <2> QED
    BY <1>1, <2>1, WrittenIsPrefix DEF InOrder
<1>2. ASSUME UNCHANGED <<accepted, written>>, ~Open' PROVE InOrder'
  BY <1>2 DEF InOrder
<1>3. ASSUME UNCHANGED <<accepted, written, message_queue>>, Open' => Open PROVE InOrder'
  BY <1>3 DEF InOrder
<1> USE DEF writeVars, closeVars
<1>4. CASE RunSend
  <2> DEFINE m == Head(posted)
  <2>1. m \in Nat /\ (Open' <=> Open)
    BY <1>4 DEF TypeOK, RunSend, Open
  <2>2. CASE ~Open
    BY <1>3, <1>4, <2>1, <2>2 DEF RunSend
  <2>3. CASE Open /\ is_writing
    <3>1. /\ accepted' = Append(accepted, m) /\ written' = written
          /\ message_queue' = Append(message_queue, m)
      BY <1>4, <2>3 DEF RunSend, PushMessage
    <3>2. written \o Append(message_queue, m) = Append(written \o message_queue, m)
      BY <2>1, QueueMoves DEF TypeOK
    <3> QED
      BY <1>1, <2>3, <3>1, <3>2 DEF InOrder
  <2>4. CASE Open /\ ~is_writing
    <3>1. /\ accepted' = Append(accepted, m) /\ written' = Append(written, m)
          /\ message_queue' = message_queue /\ message_queue = <<>>
      BY <1>4, <2>4 DEF RunSend, DoWriteMessage, WriteInv, WriterAwake
    <3>2. Append(written, m) \o message_queue = Append(written \o message_queue, m)
      BY <2>1, <3>1, QueueMoves DEF TypeOK
    <3> QED
      BY <1>1, <2>4, <3>1, <3>2 DEF InOrder
  <2> QED
    BY <2>2, <2>3, <2>4
<1>5. CASE OnWriteMessage
  <2>1. CASE write_ec = "ok" /\ message_queue # <<>>
    <3>1. /\ accepted' = accepted /\ written' = Append(written, Head(message_queue))
          /\ message_queue' = Tail(message_queue) /\ Open
      BY <1>5, <2>1 DEF OnWriteMessage, WriteNext, DoWriteMessage, WriteInv, sendVars
    <3> QED
      BY <1>1, <2>1, <3>1, QueueMoves DEF InOrder, TypeOK
  <2>2. CASE write_ec = "ok" /\ message_queue = <<>>
    BY <1>3, <1>5, <2>2 DEF OnWriteMessage, WriteNext, Open, sendVars
  <2>3. CASE write_ec # "ok"
    <3>1. /\ write_ec \in Results \ {"ok"} /\ HandleError(write_ec)
          /\ UNCHANGED <<accepted, written>>
      BY <1>5, <2>3 DEF OnWriteMessage, sendVars
    <3>2. UNCHANGED closeVars \/ ~Open'
      BY <3>1, CloseEffect
    <3> QED
      BY <1>2, <1>3, <3>1, <3>2 DEF Open
  <2> QED
    BY <2>1, <2>2, <2>3
<1>6. CASE ~RunSend /\ ~OnWriteMessage
  <2>1. /\ UNCHANGED <<accepted, written>>
        /\ \/ UNCHANGED message_queue
           \/ ~Open'
    BY <1>6, OtherHandlers
  <2> QED
    BY <1>2, <1>3, <2>1, NeverReopens
<1> QED
  BY <1>4, <1>5, <1>6

\* Only on_read processes messages, and a handler that starts a read on a closed
\* socket starts one that fails.
LEMMA NextLate == TypeOK /\ LateInv /\ [Next]_vars => LateInv'
<1> SUFFICES ASSUME TypeOK, LateInv, [Next]_vars PROVE LateInv'
  OBVIOUS
<1>1. late \in Nat /\ (dropped => dropped')
  BY DEF TypeOK, Next, vars, closeVars, CompleteInbound, CompleteWrite, CompleteShutdown, Tick,
         SendMessage, RunSend, OnWriteMessage, OnTimeout, OnShutdown, OnSslHandshake,
         OnReadRequest, OnWsHandshake, OnRead, OnReadError, OnReadMessage,
         HandleError, Abort, Shutdown
<1>2. ASSUME NEW len \in Lengths, NEW binary \in BOOLEAN, OnReadMessage(len, binary)
      PROVE  LateInv'
  <2>1. late = 0 /\ inbound_ec' # "ok" /\ (late' = 0 \/ (dropped /\ late' = 1))
    BY <1>1, <1>2 DEF LateInv, OnReadMessage, StartInbound, EndInbound
  <2> QED
    BY <1>1, <2>1 DEF LateInv
<1>3. CASE CompleteInbound
  <2>1. late' = late /\ (dropped => inbound_ec' = "error")
    BY <1>3 DEF CompleteInbound, Outcomes
  <2> QED
    BY <1>1, <2>1 DEF LateInv
<1>4. CASE late' = late /\ (inbound_ec' = inbound_ec \/ inbound_ec' # "ok")
  BY <1>1, <1>4 DEF LateInv
<1> QED
  BY <1>2, <1>3, <1>4
     DEF Next, vars, readVars, CompleteWrite, CompleteShutdown, Tick, SendMessage, RunSend,
         OnWriteMessage, OnTimeout, OnShutdown, OnSslHandshake, OnReadRequest, OnWsHandshake,
         OnRead, OnReadError, StartInbound, EndInbound

\* A timer that is armed on an open websocket was armed by on_ws_handshake or
\* on_read; whatever else happens, time takes from one and gives to the other.
LEMMA NextSilence == TypeOK /\ SilenceInv /\ [Next]_vars => SilenceInv'
<1> SUFFICES ASSUME TypeOK, SilenceInv, [Next]_vars PROVE SilenceInv'
  OBVIOUS
<1>0. expiry \in Nat /\ silence \in Nat /\ ws_timeout \in Nat /\ FullTimeout > ws_timeout
      /\ FullTimeout \in Nat
  BY ConnectionAssumption DEF TypeOK, FullTimeout
<1>1. CASE Tick
  BY <1>0, <1>1 DEF SilenceInv, Tick
<1>2. CASE OnWsHandshake
  BY <1>0, <1>2 DEF SilenceInv, OnWsHandshake, StartInbound, EndInbound, SetTimeout
<1>3. ASSUME NEW len \in Lengths, NEW binary \in BOOLEAN, OnReadMessage(len, binary)
      PROVE  SilenceInv'
  <2>1. CASE inbound' = "none"
    BY <2>1 DEF SilenceInv
  <2>2. CASE ResetTimeoutIfRequired /\ silence' = 0
    BY <1>0, <2>2 DEF SilenceInv, ResetTimeoutIfRequired, SetTimeout
  <2> QED
    BY <1>3, <2>1, <2>2 DEF OnReadMessage, EndInbound
<1>4. CASE inbound' # "read"
  BY <1>4 DEF SilenceInv
<1>5. CASE /\ UNCHANGED <<inbound, silence, expiry>>
           /\ timer' = timer \/ timer' = "off"
  BY <1>5 DEF SilenceInv
<1> USE DEF readVars, closeVars
<1>6. CASE CompleteInbound \/ CompleteWrite \/ CompleteShutdown \/ SendMessage \/ RunSend
  BY <1>5, <1>6 DEF CompleteInbound, CompleteWrite, CompleteShutdown, SendMessage, RunSend
<1>7. CASE OnWriteMessage \/ OnTimeout \/ OnShutdown
  BY <1>5, <1>7 DEF OnWriteMessage, OnTimeout, OnShutdown, HandleError, Abort, Shutdown, CancelTimer
<1>8. CASE OnSslHandshake \/ OnReadRequest \/ OnReadError
  BY <1>4, <1>8 DEF OnSslHandshake, OnReadRequest, OnReadError, StartInbound, EndInbound
<1>9. CASE UNCHANGED vars
  BY <1>5, <1>9 DEF vars
<1> QED
  BY <1>1, <1>2, <1>3, <1>6, <1>7, <1>8, <1>9 DEF Next, OnRead

--------------------------------------------------------------------------------
IInv == TypeOK /\ CloseInv /\ Watched /\ WriteInv /\ InOrder /\ LateInv /\ SilenceInv

\* The whole invariant holds at first and is inductive.
LEMMA Invariance == Spec => []IInv
<1>1. Init => IInv
  <2> SUFFICES ASSUME Init PROVE IInv
    OBVIOUS
  <2>1. TypeOK
    <3>1. rate \in Counters
      BY RateAssumption DEF Init, Counters, ZeroCounters
    <3>2. message_queue \in Seq(Nat) /\ posted \in Seq(Nat) /\ accepted \in Seq(Nat) /\ written \in Seq(Nat)
      BY EmptySeq DEF Init
    <3> QED
      BY <3>1, <3>2, TimeoutType DEF Init, TypeOK
  <2>2. CloseInv /\ Watched /\ WriteInv /\ LateInv /\ SilenceInv
    BY DEF Init, CloseInv, Watched, WriteInv, WriterAwake, Open, LateInv, SilenceInv
  <2>3. accepted = <<>> /\ written = <<>> /\ message_queue = <<>> /\ <<>> \o <<>> = <<>>
    BY EmptySeq, ConcatEmptySeq DEF Init
  <2>4. InOrder
    BY <2>3, EmptySeq DEF InOrder
  <2> QED
    BY <2>1, <2>2, <2>4 DEF IInv
<1>2. IInv /\ [Next]_vars => IInv'
  BY NextType, NextClose, NextWatched, NextWrite, NextOrder, NextLate, NextSilence DEF IInv
<1> QED
  BY <1>1, <1>2, PTL DEF Spec

\* The types hold in every reachable state (WsConnection's members).
THEOREM TypeCorrect == Spec => []TypeOK
<1>1. IInv => TypeOK
  BY DEF IInv
<1> QED
  BY <1>1, Invariance, PTL

\* No message is lost, repeated or overtaken while the connection is open, and
\* what reaches async_write is always a prefix of what send_message took over.
THEOREM MessagesInOrder == Spec => []InOrder
<1>1. IInv => InOrder
  BY DEF IInv
<1> QED
  BY <1>1, Invariance, PTL

\* is_writing_ is set exactly during a write, so no queued message waits for a
\* handler that will not come (send_message, on_write_message).
THEOREM WriterStaysAwake == Spec => []WriterAwake
<1>1. IInv => WriterAwake
  BY DEF IInv, WriteInv
<1> QED
  BY <1>1, Invariance, PTL

\* An open connection always has a read outstanding and a timer that guards it.
THEOREM AlwaysWatched == Spec => []Watched
<1>1. IInv => Watched
  BY DEF IInv
<1> QED
  BY <1>1, Invariance, PTL

\* async_write is never called while another async_write is outstanding.
THEOREM WritesDoNotOverlap == Spec => OneWriteAtATime
<1>1. IInv /\ [Next]_vars =>
        [written' # written => write_ec = "idle" \/ (write_ec = "ok" /\ posted' = posted)]_vars
  <2> SUFFICES ASSUME IInv, [Next]_vars, written' # written
               PROVE  write_ec = "idle" \/ (write_ec = "ok" /\ posted' = posted)
    OBVIOUS
  <2>1. RunSend \/ OnWriteMessage
    BY OtherHandlers DEF IInv
  <2>2. CASE RunSend
    BY <2>2 DEF RunSend, writeVars, IInv, WriteInv
  <2>3. CASE OnWriteMessage
    BY <2>3 DEF OnWriteMessage, sendVars
  <2> QED
    BY <2>1, <2>2, <2>3
<1> QED
  BY <1>1, Invariance, PTL DEF Spec, OneWriteAtATime

\* However the handlers interleave, at most one message is processed after
\* abort() has closed the socket (on_read).
THEOREM OneLateMessage == Spec => []AtMostOneLateMessage
<1>1. IInv => AtMostOneLateMessage
  BY DEF IInv, LateInv, AtMostOneLateMessage
<1> QED
  BY <1>1, Invariance, PTL

\* For every timeout, timer_ expires on a websocket only after more than ws_timeout
\* of silence ("Reset timeout if required" in on_read).
THEOREM SilenceBeforeExpiry == Spec => ExpiresOnlyAfterSilence
<1>1. IInv /\ [Next]_vars =>
        [~expired /\ expired' /\ inbound = "read" => silence' > ws_timeout]_vars
  <2> SUFFICES ASSUME IInv, [Next]_vars, ~expired, expired', inbound = "read"
               PROVE  silence' > ws_timeout
    OBVIOUS
  <2>1. Tick
    BY DEF Next, vars, CompleteInbound, CompleteWrite, CompleteShutdown, SendMessage, RunSend,
           OnWriteMessage, OnTimeout, OnShutdown, OnSslHandshake, OnReadRequest, OnWsHandshake,
           OnRead, OnReadError, OnReadMessage
  <2>2. expiry \in Nat /\ silence \in Nat /\ ws_timeout \in Nat
    BY ConnectionAssumption DEF IInv, TypeOK
  <2>3. timer = "armed" /\ expiry' = 0
    BY <2>1, Zenon DEF Tick
  <2> QED
    BY <2>1, <2>2, <2>3 DEF IInv, SilenceInv, Tick
<1> QED
  BY <1>1, Invariance, PTL DEF Spec, ExpiresOnlyAfterSilence

\* A connection lives one ConnectionLife: no handler, however late, reopens a
\* closing connection or does anything to a released one.
THEOREM LivesOneLife == Spec => LifeSpec
<1> DEFINE st == IF Released THEN "gone"
                 ELSE IF ~Open THEN "closing"
                 ELSE IF upgraded THEN "open" ELSE "setup"
<1>1. Init => st = "setup"
  BY DEF Init, Released, Open
<1>2. IInv /\ [Next]_vars => [st' \in Life!Successors[st]]_st
  <2> SUFFICES ASSUME IInv, [Next]_vars PROVE [st' \in Life!Successors[st]]_st
    OBVIOUS
  <2>1. ~Open => ~Open'
    BY NeverReopens DEF IInv
  <2>2. Released => UNCHANGED vars
    BY DEF Released, Next, CompleteInbound, CompleteWrite, CompleteShutdown, Tick, SendMessage,
           RunSend, OnWriteMessage, OnTimeout, OnShutdown, OnSslHandshake, OnReadRequest,
           OnWsHandshake, OnRead, OnReadError, OnReadMessage
  <2>3. Released => st' = st
    BY <2>2 DEF Released, Open, vars, closeVars, writeVars, readVars, sendVars
  <2>4. upgraded => upgraded'
    BY DEF Next, vars, closeVars, writeVars, readVars, sendVars, CompleteInbound, CompleteWrite,
           CompleteShutdown, Tick, SendMessage, RunSend, OnWriteMessage, OnTimeout, OnShutdown,
           OnSslHandshake, OnReadRequest, OnWsHandshake, OnRead, OnReadError, OnReadMessage
  <2> QED
    BY <2>1, <2>3, <2>4 DEF Life!Successors
<1> QED
  BY <1>1, <1>2, Invariance, PTL DEF Spec, LifeSpec, Life!Spec, Life!Init, Life!Next
================================================================================
