---------------------------- MODULE ConnectionLife ----------------------------
(***************************************************************************)
(* What the rest of the front server may assume of a client connection:    *)
(* it is set up, perhaps becomes an open websocket, closes, and is gone    *)
(* for good.  It never goes back.  WsConnection implements one such life,  *)
(* WsAcceptor runs one for every connection it accepts.                   *)
(***************************************************************************)
Stages == {"setup", "open", "closing", "gone"}

\* The stages that may directly follow each stage.
Successors ==
  [setup   |-> {"open", "closing", "gone"},
   open    |-> {"closing", "gone"},
   closing |-> {"gone"},
   gone    |-> {}]

VARIABLE stage

Init == stage = "setup"

Next == stage' \in Successors[stage]

Spec == Init /\ [][Next]_stage
================================================================================
