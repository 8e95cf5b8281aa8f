----------------------------- MODULE MessageQueue -----------------------------
(***************************************************************************)
(* MessageQueue (server/common): a list that is filled at the front and    *)
(* emptied at the back, with a running total of the sizes.  A message is a *)
(* name and a size; the empty Message has size 0 here, but is never pushed *)
(* (send_message refuses it).                                              *)
(***************************************************************************)
EXTENDS Naturals, Sequences

CONSTANTS
  Names, Sizes,
  MaxCount       \* bound: messages in the queue

ASSUME QueueAssumption ==
  /\ Names # {} /\ Sizes # {} /\ Sizes \subseteq Nat
  /\ MaxCount \in Nat

VARIABLES
  queue,       \* queue_, front first
  total_size,
  message      \* the last message try_pop has moved out

queueVars == <<queue, total_size, message>>

Message == [name : Names, size : Sizes]

QueueTypeOK ==
  /\ queue \in Seq(Message)
  /\ total_size \in Nat
  /\ message \in Message

QueueInit ==
  /\ queue = <<>>
  /\ total_size = 0
  /\ message \in Message

\* Mutant: the new message goes to the back.
PushBack(m) ==
  /\ Len(queue) < MaxCount
  /\ queue' = Append(queue, m)
  /\ total_size' = total_size + m.size
  /\ UNCHANGED message

Push(m) ==
  /\ Len(queue) < MaxCount
  /\ queue' = <<m>> \o queue
  /\ total_size' = total_size + m.size
  /\ UNCHANGED message

\* try_pop that returns true; on an empty queue it changes nothing.
TryPop ==
  /\ queue # <<>>
  /\ message' = queue[Len(queue)]
  /\ queue' = SubSeq(queue, 1, Len(queue) - 1)
  /\ total_size' = total_size - message'.size

\* Mutant: total_size_ is forgotten, and the next push adds to it.
ClearList ==
  /\ queue' = <<>>
  /\ UNCHANGED <<message, total_size>>

Clear ==
  /\ queue' = <<>>
  /\ total_size' = 0
  /\ UNCHANGED message

QueueNext == (\E m \in Message : Push(m)) \/ TryPop \/ Clear

QueueSpec == QueueInit /\ [][QueueNext]_queueVars

--------------------------------------------------------------------------------
SumOfSizes(q) ==
  LET sum[n \in 0 .. Len(q)] == IF n = 0 THEN 0 ELSE sum[n - 1] + q[n].size
  IN  sum[Len(q)]

\* get_total_size() is the sum of the sizes of the queued messages, whatever
\* mixture of push, try_pop and clear came before.
TotalSize == total_size = SumOfSizes(queue)

\* The queue from its back to its front.
OldestFirst(q) == [i \in 1 .. Len(q) |-> q[Len(q) + 1 - i]]

\* A list that is filled at one end and emptied at the other is a Fifo.
F == INSTANCE Fifo WITH items <- OldestFirst(queue), out <- message

IsFifo == F!Spec
================================================================================
