--------------------------------- MODULE Fifo ---------------------------------
(***************************************************************************)
(* What the connections assume of their message queue: messages come out   *)
(* in the order in which they went in, unless they are all thrown away.    *)
(***************************************************************************)
EXTENDS Sequences

CONSTANT Message

VARIABLES
  items,  \* oldest first
  out     \* the last message taken

Init == items = <<>> /\ out \in Message

Put(m) == items' = Append(items, m) /\ UNCHANGED out

Take == items # <<>> /\ out' = Head(items) /\ items' = Tail(items)

Drop == items' = <<>> /\ UNCHANGED out

Next == (\E m \in Message : Put(m)) \/ Take \/ Drop

Spec == Init /\ [][Next]_<<items, out>>
================================================================================
