------------------------------ MODULE FrontConfig ------------------------------
(***************************************************************************)
(* FrontMain together with the configuration (server/common/src/config):   *)
(* the tree that config::load() reads, the set of listeners under its      *)
(* mutex, and the values built from them.  The thread counts of the        *)
(* AsioInstances are values that live as long as the pool.  A handler on a *)
(* worker thread builds a value for a moment, as WsAcceptor::open and      *)
(* ClusterAcceptor::open do, and the set of listeners holds it from the    *)
(* base constructor to the base destructor.                                *)
(*                                                                         *)
(* A listener is 1 .. N for the threads of an instance, or an object of    *)
(* Objects.  An object reads the setting of the instance it is built on;   *)
(* which setting a value reads does not matter here.                       *)
(***************************************************************************)
EXTENDS FrontMain, FiniteSets

CONSTANT Objects     \* values that handlers build

ASSUME ConfigAssumption == IsFiniteSet(Objects) /\ Objects \cap (1 .. N) = {}

VARIABLES
  tree,          \* config_tree: the setting of every instance
  listeners,     \* ListenersData
  locked,        \* main holds its mutex, in invoke_config_listeners
  pending,       \* the listeners it has still to call
  stage,         \* "none", "registered" (base part only), "built", "dying"
  owner,         \* the instance whose thread builds the object
  value          \* value_

loadVars == <<locked, pending>>
objectVars == <<stage, owner, value>>
configVars == <<tree, listeners, loadVars, objectVars>>
allVars == <<vars, configVars>>

\* Mutant: the copy that AsioInstance keeps is not a listener.
ConfigInitUncopied ==
  /\ Init
  /\ tree = threads
  /\ listeners = {} /\ locked = FALSE /\ pending = {}
  /\ stage = [o \in Objects |-> "none"]
  /\ owner = [o \in Objects |-> 1] /\ value = [o \in Objects |-> tree[1]]

\* The first load() is over and create_asio has copied the values.
ConfigInit ==
  /\ Init
  /\ tree = threads
  /\ listeners = 1 .. N /\ locked = FALSE /\ pending = {}
  /\ stage = [o \in Objects |-> "none"]
  /\ owner = [o \in Objects |-> 1] /\ value = [o \in Objects |-> tree[1]]

--------------------------------------------------------------------------------
(* Values, on the threads of the pool. *)

\* The objects that handlers of instance k are busy with, one per thread.
Busy(k) == {o \in Objects : stage[o] # "none" /\ owner[o] = k}

\* Mutant: the constructor does not release the mutex.
RegisterKeepsLock(o, k) ==
  /\ stage[o] = "none" /\ ~stopped[k] /\ Cardinality(Busy(k)) < running[k]
  /\ ~locked
  /\ locked' = TRUE
  /\ listeners' = listeners \cup {o}
  /\ stage' = [stage EXCEPT ![o] = "registered"]
  /\ owner' = [owner EXCEPT ![o] = k]
  /\ UNCHANGED <<vars, tree, pending, value>>

\* ConfigListener(), in a handler of instance k.
Register(o, k) ==
  /\ stage[o] = "none" /\ ~stopped[k] /\ Cardinality(Busy(k)) < running[k]
  /\ ~locked
  /\ listeners' = listeners \cup {o}
  /\ stage' = [stage EXCEPT ![o] = "registered"]
  /\ owner' = [owner EXCEPT ![o] = k]
  /\ UNCHANGED <<vars, tree, loadVars, value>>

\* The rest of the constructor.
ReadValue(o) ==
  /\ stage[o] = "registered"
  /\ stage' = [stage EXCEPT ![o] = "built"]
  /\ value' = [value EXCEPT ![o] = tree[owner[o]]]
  /\ UNCHANGED <<vars, tree, listeners, loadVars, owner>>

\* The destructor of the derived class.
Destroy(o) ==
  /\ stage[o] = "built"
  /\ stage' = [stage EXCEPT ![o] = "dying"]
  /\ UNCHANGED <<vars, tree, listeners, loadVars, owner, value>>

\* ~ConfigListener()
Unregister(o) ==
  /\ stage[o] = "dying"
  /\ ~locked
  /\ listeners' = listeners \ {o}
  /\ stage' = [stage EXCEPT ![o] = "none"]
  /\ UNCHANGED <<vars, tree, loadVars, owner, value>>

\* A thread returns from run() between two handlers.
IdleWorkerEnds(k) ==
  /\ Cardinality(Busy(k)) < running[k]
  /\ WorkerEnds(k)
  /\ UNCHANGED configVars

--------------------------------------------------------------------------------
(* config::load(), on the main thread. *)

\* read_info replaces the tree, or throws and leaves it.
ReadInfo ==
  /\ Load
  /\ \/ pc' = "update" /\ tree' \in [1 .. N -> ThreadCounts]
     \/ pc' = "returned" /\ UNCHANGED tree
  /\ UNCHANGED <<listeners, loadVars, objectVars>>

\* invoke_config_listeners takes the mutex.
LockListeners ==
  /\ pc = "update" /\ ~locked
  /\ locked' = TRUE /\ pending' = listeners
  /\ UNCHANGED <<vars, tree, listeners, objectVars>>

\* on_update of a listener; the set is ordered by address, so in any order.
UpdateListener(l) ==
  /\ locked /\ l \in pending
  /\ IF l \in Objects
     THEN value' = [value EXCEPT ![l] = tree[owner[l]]] /\ UNCHANGED vars
     ELSE OnUpdate(l, tree[l]) /\ UNCHANGED value
  /\ pending' = pending \ {l}
  /\ UNCHANGED <<tree, listeners, locked, stage, owner>>

Invoked ==
  /\ locked /\ pending = {}
  /\ Loaded
  /\ locked' = FALSE
  /\ UNCHANGED <<tree, listeners, pending, objectVars>>

--------------------------------------------------------------------------------
Running == Restart \/ StartWorker \/ Started \/ Join \/ Check \/ Clear

MainThread ==
  \/ Running /\ UNCHANGED configVars
  \/ ReadInfo \/ LockListeners \/ Invoked
  \/ \E l \in pending : UpdateListener(l)

Handler(o) == ReadValue(o) \/ Destroy(o) \/ Unregister(o)

HandleSignal(s) == (Raise(s) \/ StopInstance(s)) /\ UNCHANGED configVars

ConfigNext ==
  \/ MainThread
  \/ \E o \in Objects : Handler(o) \/ \E k \in 1 .. N : Register(o, k)
  \/ \E k \in 1 .. N : IdleWorkerEnds(k)
  \/ \E s \in Signals : HandleSignal(s)

ConfigSpec == ConfigInit /\ [][ConfigNext]_allVars

\* Threads run, as in FrontMain, and a handler that has begun goes on.
ConfigFairness ==
  /\ WF_allVars(MainThread)
  /\ \A o \in Objects : WF_allVars(Handler(o))
  /\ \A k \in 1 .. N : WF_allVars(IdleWorkerEnds(k))
  /\ \A s \in Signals : WF_allVars(StopInstance(s) /\ UNCHANGED configVars)

FairConfigSpec == ConfigSpec /\ ConfigFairness

--------------------------------------------------------------------------------
\* "Not thread safe": while load() replaces the tree and calls the listeners, no
\* thread is building or destroying a value, whose on_update would then run on
\* half an object, and none reads the tree.
LoadIsAlone ==
  pc \in {"load", "update"} => \A o \in Objects : stage[o] = "none"

\* After load() every value in use is what the tree says, however it was built,
\* and the listeners are exactly the values that exist.
Fresh ==
  pc # "update" =>
    /\ \A k \in 1 .. N : threads[k] = tree[k]
    /\ \A o \in Objects : stage[o] = "built" => value[o] = tree[owner[o]]
    /\ listeners = (1 .. N) \cup {o \in Objects : stage[o] # "none"}

\* "Asio stopped without signal" is reported only when no thread was configured,
\* or when a signal came while the server was not up.
WithoutSignal ==
  outcome = "without signal" => early \/ \A k \in 1 .. N : threads[k] = 0

\* What main does with the configuration is what FrontMain says it does.
MainSpec == FairSpec
================================================================================
