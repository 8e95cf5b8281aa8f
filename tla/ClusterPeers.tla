----------------------------- MODULE ClusterPeers -----------------------------
(***************************************************************************)
(* How servers of a cluster find each other: the watchers of one process   *)
(* (ClusterWatcher.cpp), each of which keeps up a connection to the        *)
(* acceptor of another process (ClusterAcceptor.cpp).  A ClusterConnection *)
(* is here no more than an object that exists or not; ClusterLink has its  *)
(* life.  Neither class has a strand: each object has one operation or one *)
(* timer outstanding, so its handlers do not overlap.                      *)
(***************************************************************************)
CONSTANTS
  Watchers,    \* one for each "connect" group of the config
  Ids,         \* names for the TCP connections of a watcher
  reuse_addr,  \* the setting of the acceptor
  OsFaults     \* the calls of open() that the system may refuse

ASSUME PeersAssumption ==
  /\ reuse_addr \in BOOLEAN
  /\ OsFaults \subseteq {"open", "bind", "listen"}

VARIABLES
  acceptor,    \* what the acceptor does: "open", "retry" or "accepting"
  is_open,     \* acceptor_ is open, bound and listening
  backlog,     \* TCP connections that wait to be accepted
  server,      \* connections whose object exists at the acceptor's side
  watcher,     \* what each watcher does
  socket,      \* the TCP connection of its socket_ (a set of at most one)
  client,      \* connections whose object exists at its side
  connection,  \* what its connection_ refers to, or has referred to
  terminated   \* processes that an exception has ended

acceptorVars == <<acceptor, is_open>>
watcherVars == <<watcher, socket, connection>>
peersVars == <<acceptorVars, backlog, server, watcherVars, client, terminated>>

PeersType ==
  /\ acceptor \in {"open", "retry", "accepting"}
  /\ is_open \in BOOLEAN
  /\ backlog \subseteq Watchers \X Ids
  /\ server \subseteq Watchers \X Ids
  /\ watcher \in [Watchers -> {"connecting", "connected", "refused", "waiting"}]
  /\ socket \in [Watchers -> SUBSET Ids]
  /\ client \in [Watchers -> SUBSET Ids]
  /\ connection \in [Watchers -> SUBSET Ids]
  /\ terminated \subseteq {"watchers", "acceptor"}

\* cluster::init has called run() of every object.
PeersInit ==
  /\ acceptor = "open" /\ is_open = FALSE
  /\ backlog = {} /\ server = {}
  /\ watcher = [w \in Watchers |-> "connecting"]
  /\ socket = [w \in Watchers |-> {}]
  /\ client = [w \in Watchers |-> {}]
  /\ connection = [w \in Watchers |-> {}]
  /\ terminated = {}

Watching == "watchers" \notin terminated
Accepting == "acceptor" \notin terminated

--------------------------------------------------------------------------------
(* The acceptor. *)

\* open(), called by run() and by the retry timer.  As in WsAcceptor, an option
\* cannot be set before the acceptor is open, and close(ec) clears the error of
\* bind and of listen.
Open ==
  /\ Accepting /\ acceptor \in {"open", "retry"}
  /\ \E refusal \in IF reuse_addr THEN {"set_option"} ELSE OsFaults \cup {"none"} :
       /\ is_open' = (refusal = "none")
       /\ acceptor' = IF refusal \in {"set_option", "open"} THEN "retry" ELSE "accepting"
  /\ UNCHANGED <<backlog, server, watcherVars, client, terminated>>

\* on_accept with a peer; the next accept follows at once.
OnAccept(x) ==
  /\ Accepting /\ acceptor = "accepting" /\ is_open
  /\ x \in backlog
  /\ backlog' = backlog \ {x}
  /\ server' = server \cup {x}
  /\ UNCHANGED <<acceptorVars, watcherVars, client, terminated>>

\* on_accept with a peer that has left again: remote_endpoint() throws, and
\* nothing catches it.
OnAcceptThrow(x) ==
  /\ Accepting /\ acceptor = "accepting" /\ is_open
  /\ x \in backlog /\ x[2] \notin client[x[1]] \cup socket[x[1]]
  /\ terminated' = terminated \cup {"acceptor"}
  /\ is_open' = FALSE /\ backlog' = {} /\ server' = {}
  /\ UNCHANGED <<acceptor, watcherVars, client>>

--------------------------------------------------------------------------------
(* A watcher. *)

\* async_connect succeeds: the peer's system has accepted.
Connect(w, id) ==
  /\ Watching /\ watcher[w] = "connecting"
  /\ is_open
  /\ id \notin client[w] /\ <<w, id>> \notin backlog \cup server
  /\ watcher' = [watcher EXCEPT ![w] = "connected"]
  /\ socket' = [socket EXCEPT ![w] = {id}]
  /\ backlog' = backlog \cup {<<w, id>>}
  /\ UNCHANGED <<acceptorVars, server, client, connection, terminated>>

\* async_connect fails, at the latest by the system's timeout.
ConnectFails(w) ==
  /\ Watching /\ watcher[w] = "connecting"
  /\ watcher' = [watcher EXCEPT ![w] = "refused"]
  /\ UNCHANGED <<acceptorVars, backlog, server, socket, client, connection, terminated>>

OnConnectError(w) ==
  /\ Watching /\ watcher[w] = "refused"
  /\ watcher' = [watcher EXCEPT ![w] = "waiting"]
  /\ UNCHANGED <<acceptorVars, backlog, server, socket, client, connection, terminated>>

\* Mutant: connection_ is not assigned.
OnConnectForgets(w) ==
  /\ Watching /\ watcher[w] = "connected"
  /\ client' = [client EXCEPT ![w] = @ \cup socket[w]]
  /\ socket' = [socket EXCEPT ![w] = {}]
  /\ watcher' = [watcher EXCEPT ![w] = "waiting"]
  /\ UNCHANGED <<acceptorVars, backlog, server, connection, terminated>>

\* on_connect without error: the socket moves into a connection that runs.
OnConnect(w) ==
  /\ Watching /\ watcher[w] = "connected"
  /\ client' = [client EXCEPT ![w] = @ \cup socket[w]]
  /\ connection' = [connection EXCEPT ![w] = socket[w]]
  /\ socket' = [socket EXCEPT ![w] = {}]
  /\ watcher' = [watcher EXCEPT ![w] = "waiting"]
  /\ UNCHANGED <<acceptorVars, backlog, server, terminated>>

\* The peer has closed again before on_connect runs: remote_endpoint() throws.
OnConnectThrow(w) ==
  /\ Watching /\ watcher[w] = "connected"
  /\ \A id \in socket[w] : <<w, id>> \notin backlog \cup server
  /\ terminated' = terminated \cup {"watchers"}
  /\ socket' = [v \in Watchers |-> {}] /\ client' = [v \in Watchers |-> {}]
  /\ UNCHANGED <<acceptorVars, backlog, server, watcher, connection>>

\* Mutant: the sense of expired() is turned round.
OnTimerInverted(w) ==
  /\ Watching /\ watcher[w] = "waiting"
  /\ connection[w] \cap client[w] # {}
  /\ watcher' = [watcher EXCEPT ![w] = "connecting"]
  /\ UNCHANGED <<acceptorVars, backlog, server, socket, client, connection, terminated>>

\* on_timer, every 30 seconds: connection_.expired() or wait again.
OnTimer(w) ==
  /\ Watching /\ watcher[w] = "waiting"
  /\ IF connection[w] \cap client[w] = {}
     THEN watcher' = [watcher EXCEPT ![w] = "connecting"] ELSE UNCHANGED watcher
  /\ UNCHANGED <<acceptorVars, backlog, server, socket, client, connection, terminated>>

--------------------------------------------------------------------------------
(* Connections end. *)

ClientEnds(w, id) ==
  /\ id \in client[w]
  /\ client' = [client EXCEPT ![w] = @ \ {id}]
  /\ UNCHANGED <<acceptorVars, backlog, server, watcherVars, terminated>>

ServerEnds(x) ==
  /\ x \in server
  /\ server' = server \ {x}
  /\ UNCHANGED <<acceptorVars, backlog, watcherVars, client, terminated>>

\* The other end of a connection is gone.
Alone(w, id) == id \in client[w] /\ <<w, id>> \notin backlog \cup server
Abandoned(x) == x[2] \notin client[x[1]] \cup socket[x[1]]

--------------------------------------------------------------------------------
WatcherStep(w) ==
  \/ ConnectFails(w) \/ OnConnectError(w) \/ OnConnect(w) \/ OnConnectThrow(w) \/ OnTimer(w)
  \/ \E id \in Ids : Connect(w, id) \/ ClientEnds(w, id)

PeersNext ==
  \/ Open
  \/ \E x \in Watchers \X Ids : OnAccept(x) \/ OnAcceptThrow(x) \/ ServerEnds(x)
  \/ \E w \in Watchers : WatcherStep(w)

PeersSpec == PeersInit /\ [][PeersNext]_peersVars

\* Handlers and timers run.  The system does not refuse open() for ever.  An
\* attempt to connect completes, and attempts to reach a listening peer do not
\* fail for ever.  An end whose other end is gone ends too (BothReleased of
\* ClusterLink).
PeersFairness ==
  /\ WF_peersVars(Open) /\ SF_peersVars(Open /\ is_open')
  /\ \A x \in Watchers \X Ids :
       WF_peersVars(OnAccept(x) \/ OnAcceptThrow(x)) /\ WF_peersVars(Abandoned(x) /\ ServerEnds(x))
  /\ \A w \in Watchers :
       /\ WF_peersVars(ConnectFails(w) \/ \E id \in Ids : Connect(w, id))
       /\ SF_peersVars(\E id \in Ids : Connect(w, id))
       /\ WF_peersVars(OnConnectError(w) \/ OnConnect(w) \/ OnConnectThrow(w))
       /\ WF_peersVars(OnTimer(w))
       /\ \A id \in Ids : WF_peersVars(Alone(w, id) /\ ClientEnds(w, id))

FairPeersSpec == PeersSpec /\ PeersFairness

--------------------------------------------------------------------------------
\* A watcher never has two connections at a time, however late a connection dies
\* (connection_ in on_connect and on_timer).
OneConnection == \A w \in Watchers : \A a, b \in client[w] : a = b

\* A watcher without a connection gets one again, as long as no exception has
\* ended a process (on_connect, on_timer).
Reconnects == \A w \in Watchers : client[w] = {} ~> (client[w] # {} \/ terminated # {})
================================================================================
