------------------------------ MODULE WsAcceptor ------------------------------
(***************************************************************************)
(* The acceptors of the front server (server/front/src/ws/WsAcceptor.cpp)  *)
(* and the connections they create, which share                            *)
(* front::active_connection_count.  Acceptors have no strand and no lock:  *)
(* each has one operation or timer outstanding, but the handlers of        *)
(* different acceptors run on different threads, so every read of the      *)
(* counter is a step of its own.                                           *)
(*                                                                         *)
(* A connection is its ConnectionLife, which WsConnection implements.      *)
(***************************************************************************)
EXTENDS Naturals, FiniteSets

CONSTANTS
  Acceptors,              \* one for each "listen" group of the config
  Connections,            \* places for WsConnection objects
  connection_limit_hard, connection_limit_soft,
  reuse_addr,             \* the acceptors configured with reuse_addr
  OsFaults                \* the calls of open() that the system may refuse

ASSUME AcceptorAssumption ==
  /\ IsFiniteSet(Acceptors) /\ Acceptors # {}
  /\ IsFiniteSet(Connections)
  /\ connection_limit_hard \in Nat /\ connection_limit_soft \in Nat
  /\ reuse_addr \subseteq Acceptors
  /\ OsFaults \subseteq {"open", "bind", "listen"}

VARIABLES
  at,                       \* what each acceptor does next
  is_open,                  \* acceptor_ is open, bound and listening
  stage,                    \* the life of each connection; "gone" is free
  admitted,                 \* connections on_read_request let upgrade
  active_connection_count,
  terminated                \* an exception has left a handler

acceptorVars == <<at, is_open, stage, admitted, active_connection_count, terminated>>

Places ==
  {"open",         \* run() or a timer is about to call open()
   "retry",        \* 10 seconds until open()
   "accept_next",  \* about to call accept_next()
   "accepting",    \* async_accept is outstanding
   "accepted",     \* at the end of on_accept
   "throttled",    \* 20 milliseconds until accept_next()
   "closed"}       \* 5 seconds until on_timer_reopen()

L == INSTANCE ConnectionLife WITH stage <- stage

AcceptorTypeOK ==
  /\ at \in [Acceptors -> Places]
  /\ is_open \in [Acceptors -> BOOLEAN]
  /\ stage \in [Connections -> L!Stages]
  /\ admitted \subseteq Connections
  /\ active_connection_count \in Nat
  /\ terminated \in BOOLEAN

AcceptorInit ==
  /\ at = [a \in Acceptors |-> "open"]
  /\ is_open = [a \in Acceptors |-> FALSE]
  /\ stage = [c \in Connections |-> "gone"]
  /\ admitted = {}
  /\ active_connection_count = 0
  /\ terminated = FALSE

\* Acceptor a is at one of the places, and the process still runs.
IsAt(a, places) == ~terminated /\ at[a] \in places

Goto(a, place) == at' = [at EXCEPT ![a] = place]

\* Mutant: one too many.
HardLimitExceeded == active_connection_count > connection_limit_hard

HardLimitReached == active_connection_count >= connection_limit_hard

--------------------------------------------------------------------------------
(* The acceptors. *)

\* The call of open() that fails, or "none".  Options cannot be set on an
\* acceptor that is not open, which it never is when open() is called.
OpenFaults(a) ==
  IF a \in reuse_addr THEN {"set_option"} ELSE OsFaults \cup {"none"}

\* After bind or listen has failed, acceptor_.close(ec) succeeds and leaves ec
\* cleared: only the first two calls lead to the retry.
TryOpen(a) ==
  \E fault \in OpenFaults(a) :
    /\ is_open' = [is_open EXCEPT ![a] = (fault = "none")]
    /\ Goto(a, IF fault \in {"set_option", "open"} THEN "retry" ELSE "accept_next")
    /\ UNCHANGED <<stage, admitted, active_connection_count, terminated>>

\* run(), or the retry timer.
RunOpen(a) ==
  IsAt(a, {"open", "retry"}) /\ TryOpen(a)

\* accept_next(), called directly or by the 20 millisecond timer.
AcceptNext(a) ==
  /\ IsAt(a, {"accept_next", "throttled"})
  /\ IF HardLimitReached
     THEN Goto(a, "closed") /\ is_open' = [is_open EXCEPT ![a] = FALSE]
     ELSE Goto(a, "accepting") /\ UNCHANGED is_open
  /\ UNCHANGED <<stage, admitted, active_connection_count, terminated>>

\* on_accept with an error, which a closed acceptor always gives.
OnAcceptError(a) ==
  /\ IsAt(a, {"accepting"})
  /\ Goto(a, "accepted")
  /\ UNCHANGED <<is_open, stage, admitted, active_connection_count, terminated>>

\* on_accept with a client: the constructor of WsConnection counts it.
OnAcceptClient(a, c) ==
  /\ IsAt(a, {"accepting"}) /\ is_open[a]
  /\ stage[c] = "gone"
  /\ stage' = [stage EXCEPT ![c] = "setup"]
  /\ active_connection_count' = active_connection_count + 1
  /\ Goto(a, "accepted")
  /\ UNCHANGED <<is_open, admitted, terminated>>

\* on_accept with a client that has left again: remote_endpoint() or
\* set_option() throws, and nothing between the handler and the thread catches.
OnAcceptThrow(a) ==
  /\ IsAt(a, {"accepting"}) /\ is_open[a]
  /\ terminated' = TRUE
  /\ UNCHANGED <<at, is_open, stage, admitted, active_connection_count>>

\* The end of on_accept.
Throttle(a) ==
  /\ IsAt(a, {"accepted"})
  /\ Goto(a, IF active_connection_count > connection_limit_hard \div 2
             THEN "throttled" ELSE "accept_next")
  /\ UNCHANGED <<is_open, stage, admitted, active_connection_count, terminated>>

\* Mutant: accept_next() instead of open().
OnTimerReopenAccepts(a) ==
  /\ IsAt(a, {"closed"})
  /\ ~HardLimitReached
  /\ Goto(a, "accept_next")
  /\ UNCHANGED <<is_open, stage, admitted, active_connection_count, terminated>>

OnTimerReopen(a) ==
  /\ IsAt(a, {"closed"})
  /\ IF HardLimitReached THEN UNCHANGED acceptorVars ELSE TryOpen(a)

--------------------------------------------------------------------------------
(* The connections. *)

\* Mutant: the hard limit instead of the soft one.
OnReadRequestHard(c) ==
  /\ ~terminated
  /\ stage[c] = "setup" /\ c \notin admitted
  /\ IF active_connection_count > connection_limit_hard
     THEN stage' = [stage EXCEPT ![c] = "closing"] /\ UNCHANGED admitted
     ELSE admitted' = admitted \cup {c} /\ UNCHANGED stage
  /\ UNCHANGED <<at, is_open, active_connection_count, terminated>>

\* on_read_request compares the counter with the soft limit.  A plain request
\* is refused as well, which is a Proceed to "closing".
AdmitOnReadRequest(c) ==
  /\ ~terminated
  /\ stage[c] = "setup" /\ c \notin admitted
  /\ IF active_connection_count > connection_limit_soft
     THEN stage' = [stage EXCEPT ![c] = "closing"] /\ UNCHANGED admitted
     ELSE admitted' = admitted \cup {c} /\ UNCHANGED stage
  /\ UNCHANGED <<at, is_open, active_connection_count, terminated>>

\* Mutant: a connection that was never opened is not taken off the count.
ProceedLeaking(c) ==
  /\ ~terminated
  /\ \E s \in L!Successors[stage[c]] :
       /\ s = "open" => c \in admitted
       /\ stage' = [stage EXCEPT ![c] = s]
       /\ IF s = "gone" /\ stage[c] # "setup"
          THEN /\ active_connection_count' = active_connection_count - 1
               /\ admitted' = admitted \ {c}
          ELSE UNCHANGED <<active_connection_count, admitted>>
  /\ UNCHANGED <<at, is_open, terminated>>

\* The rest of a life.  Only an admitted connection becomes a websocket; the
\* destructor takes a connection off the count.
Proceed(c) ==
  /\ ~terminated
  /\ \E s \in L!Successors[stage[c]] :
       /\ s = "open" => c \in admitted
       /\ stage' = [stage EXCEPT ![c] = s]
       /\ IF s = "gone"
          THEN /\ active_connection_count' = active_connection_count - 1
               /\ admitted' = admitted \ {c}
          ELSE UNCHANGED <<active_connection_count, admitted>>
  /\ UNCHANGED <<at, is_open, terminated>>

--------------------------------------------------------------------------------
AcceptorStep(a) ==
  \/ RunOpen(a) \/ AcceptNext(a) \/ OnAcceptError(a) \/ OnAcceptThrow(a)
  \/ Throttle(a) \/ OnTimerReopen(a)
  \/ \E c \in Connections : OnAcceptClient(a, c)

AcceptorNext ==
  \/ \E a \in Acceptors : AcceptorStep(a)
  \/ \E c \in Connections : AdmitOnReadRequest(c) \/ Proceed(c)

AcceptorSpec == AcceptorInit /\ [][AcceptorNext]_acceptorVars

\* The threads run every handler and every timer; the system does not refuse
\* open() for ever, and every client leaves some day.  No client is assumed to
\* arrive and no accept to fail.
AcceptorFairness ==
  /\ \A a \in Acceptors :
       /\ WF_acceptorVars(RunOpen(a)) /\ SF_acceptorVars(RunOpen(a) /\ is_open'[a])
       /\ WF_acceptorVars(AcceptNext(a))
       /\ WF_acceptorVars(Throttle(a))
       /\ WF_acceptorVars(OnTimerReopen(a))
       /\ WF_acceptorVars(~is_open[a] /\ OnAcceptError(a))
  /\ \A c \in Connections : WF_acceptorVars(Proceed(c))

AcceptorFairSpec == AcceptorSpec /\ AcceptorFairness

--------------------------------------------------------------------------------
Live == {c \in Connections : stage[c] # "gone"}

\* active_connection_count counts the WsConnection objects that exist
\* (constructor and destructor).
CountsLive == active_connection_count = Cardinality(Live)

\* accept_next checks the hard limit before it waits for a client, and the
\* acceptors check it independently of each other: the limit is exceeded, but
\* by less than the number of acceptors.
HardLimit ==
  active_connection_count < connection_limit_hard + Cardinality(Acceptors)

\* There are never more open websockets than the soft limit allows, although
\* connections check it concurrently and open later: all that were admitted
\* before were still counted when the last one was checked (on_read_request).
SoftLimit ==
  Cardinality({c \in Connections : stage[c] = "open"}) <= connection_limit_soft

\* When the limits have closed every acceptor, the server listens again
\* ("Hard limit reached, closing acceptor for 5s").
ListensAgain ==
  (\A a \in Acceptors : ~is_open[a]) ~> (terminated \/ \E a \in Acceptors : is_open[a])
================================================================================
