------------------------------- MODULE FrontMain -------------------------------
(***************************************************************************)
(* The main thread of the front server (server/front/src/Main.cpp), the    *)
(* threads of its AsioPool (server/common/src/AsioPool.cpp) and the signal *)
(* handlers.  A handler runs on any thread the system picks, the logger's  *)
(* included, so its steps interleave with those of main: it sets its flag, *)
(* then stops one io_context after the other, while main may restart them. *)
(*                                                                         *)
(* An io_context whose stopped flag is set lets its threads return from    *)
(* run(); restart() clears the flag.  The work object of every instance    *)
(* keeps run() from returning otherwise.                                   *)
(***************************************************************************)
EXTENDS Naturals

CONSTANTS
  N,             \* io_contexts in asios_: "front" and "cluster"
  ThreadCounts,  \* values of front.threads and cluster.threads
  MaxSignals     \* bound: signals delivered

ASSUME MainAssumption ==
  /\ N \in Nat \ {0}
  /\ ThreadCounts \subseteq Nat /\ ThreadCounts # {}
  /\ MaxSignals \in Nat

VARIABLES
  pc,            \* where main is
  instance,      \* the instance run() is at
  outcome,       \* how main has returned, or "running"
  threads,       \* the settings, as config::load() has read them
  stopped,       \* the stopped flag of every io_context
  workers,       \* workers.size()
  running,       \* how many of them are inside asio.run()
  should_stop, should_reload,
  handler,       \* the instance each signal handler stops next; 0: not active
  \* History, not in the code:
  raised,        \* signals delivered
  early          \* one came while the server was not up

poolVars == <<stopped, workers, running>>
signalVars == <<should_stop, should_reload, handler, raised, early>>
vars == <<pc, instance, outcome, threads, poolVars, signalVars>>

Signals == {"SIGINT", "SIGTERM", "SIGHUP"}

TypeOK ==
  /\ pc \in {"restart", "start", "join", "check", "load", "update", "clear", "returned"}
  /\ instance \in 1 .. N
  /\ outcome \in {"running", "shutting down", "reload failed", "without signal"}
  /\ threads \in [1 .. N -> ThreadCounts]
  /\ stopped \in [1 .. N -> BOOLEAN]
  /\ workers \in [1 .. N -> Nat]
  /\ running \in [1 .. N -> Nat]
  /\ should_stop \in BOOLEAN /\ should_reload \in BOOLEAN
  /\ handler \in [Signals -> 0 .. N]
  /\ raised \in 0 .. MaxSignals /\ early \in BOOLEAN

\* main has installed the handlers and enters its loop.
Init ==
  /\ pc = "restart" /\ instance = 1
  /\ outcome = "running"
  /\ threads \in [1 .. N -> ThreadCounts]
  /\ stopped = [k \in 1 .. N |-> FALSE]
  /\ workers = [k \in 1 .. N |-> 0]
  /\ running = [k \in 1 .. N |-> 0]
  /\ should_stop = FALSE /\ should_reload = FALSE
  /\ handler = [s \in Signals |-> 0]
  /\ raised = 0 /\ early = FALSE

--------------------------------------------------------------------------------
(* AsioPool::run, on the main thread. *)

\* instance->asio.restart()
Restart ==
  /\ pc = "restart"
  /\ stopped' = [stopped EXCEPT ![instance] = FALSE]
  /\ pc' = "start"
  /\ UNCHANGED <<instance, outcome, threads, workers, running, signalVars>>

\* One round of the loop that creates threads, or its end.
StartWorker ==
  /\ pc = "start" /\ workers[instance] < threads[instance]
  /\ workers' = [workers EXCEPT ![instance] = @ + 1]
  /\ running' = [running EXCEPT ![instance] = @ + 1]
  /\ UNCHANGED <<pc, instance, outcome, threads, stopped, signalVars>>

Started ==
  /\ pc = "start" /\ workers[instance] >= threads[instance]
  /\ IF instance < N THEN pc' = "restart" /\ instance' = instance + 1
     ELSE pc' = "join" /\ instance' = 1
  /\ UNCHANGED <<outcome, threads, poolVars, signalVars>>

\* asio.run() returns in a thread.
WorkerEnds(k) ==
  /\ stopped[k] /\ running[k] > 0
  /\ running' = [running EXCEPT ![k] = @ - 1]
  /\ UNCHANGED <<pc, instance, outcome, threads, stopped, workers, signalVars>>

\* Mutant: only the threads of the first instance are waited for.
JoinFirst ==
  /\ pc = "join"
  /\ running[1] = 0
  /\ workers' = [workers EXCEPT ![1] = 0]
  /\ pc' = "check" /\ instance' = 1
  /\ UNCHANGED <<outcome, threads, stopped, running, signalVars>>

\* All threads of an instance are joined and forgotten.
Join ==
  /\ pc = "join"
  /\ running[instance] = 0
  /\ workers' = [workers EXCEPT ![instance] = 0]
  /\ IF instance < N THEN instance' = instance + 1 /\ UNCHANGED pc
     ELSE instance' = 1 /\ pc' = "check"
  /\ UNCHANGED <<outcome, threads, stopped, running, signalVars>>

--------------------------------------------------------------------------------
(* The loop of main(). *)

Return(how) == outcome' = how /\ pc' = "returned"

Check ==
  /\ pc = "check"
  /\ IF should_stop THEN Return("shutting down")
     ELSE IF should_reload THEN pc' = "load" /\ UNCHANGED outcome
     ELSE Return("without signal")
  /\ UNCHANGED <<instance, threads, poolVars, signalVars>>

\* config::load() reads the file, or fails.
Load ==
  /\ pc = "load"
  /\ \/ pc' = "update" /\ UNCHANGED outcome
     \/ Return("reload failed")
  /\ UNCHANGED <<instance, threads, poolVars, signalVars>>

\* It then calls the listeners, the settings of the instances among them, one
\* after the other; FrontConfig says which, and what they read.
OnUpdate(k, count) ==
  /\ pc = "update"
  /\ threads' = [threads EXCEPT ![k] = count]
  /\ UNCHANGED <<pc, instance, outcome, poolVars, signalVars>>

Loaded ==
  /\ pc = "update"
  /\ pc' = "clear"
  /\ UNCHANGED <<instance, outcome, threads, poolVars, signalVars>>

\* signals::should_reload = false
Clear ==
  /\ pc = "clear"
  /\ should_reload' = FALSE
  /\ pc' = "restart"
  /\ UNCHANGED <<instance, outcome, threads, poolVars, should_stop, handler, raised, early>>

--------------------------------------------------------------------------------
(* Signal handlers. *)

\* main waits in run(), and no signal is being handled.
Waiting ==
  /\ pc = "join"
  /\ \A k \in 1 .. N : ~stopped[k]
  /\ \A s \in Signals : handler[s] = 0

\* The server is up: main waits for a thread of every io_context.
Up == Waiting /\ \A k \in 1 .. N : running[k] > 0

\* Mutant: sig_reload forgets its flag.
RaiseForgets(s) ==
  /\ outcome = "running" /\ raised < MaxSignals
  /\ handler[s] = 0
  /\ handler' = [handler EXCEPT ![s] = 1]
  /\ should_stop' = (should_stop \/ s # "SIGHUP")
  /\ raised' = raised + 1
  /\ early' = (early \/ ~Up)
  /\ UNCHANGED <<pc, instance, outcome, threads, poolVars, should_reload>>

\* sig_stop or sig_reload begins.  A signal is blocked while its own handler
\* runs, and there is none once main has returned.
Raise(s) ==
  /\ outcome = "running" /\ raised < MaxSignals
  /\ handler[s] = 0
  /\ handler' = [handler EXCEPT ![s] = 1]
  /\ should_stop' = (should_stop \/ s # "SIGHUP")
  /\ should_reload' = (should_reload \/ s = "SIGHUP")
  /\ raised' = raised + 1
  /\ early' = (early \/ ~Up)
  /\ UNCHANGED <<pc, instance, outcome, threads, poolVars>>

\* Mutant: the last instance is never reached.
StopInstanceShort(s) ==
  /\ outcome = "running" /\ handler[s] # 0
  /\ stopped' = [stopped EXCEPT ![handler[s]] = TRUE]
  /\ handler' = [handler EXCEPT ![s] = IF @ + 1 < N THEN @ + 1 ELSE 0]
  /\ UNCHANGED <<pc, instance, outcome, threads, workers, running, should_stop, should_reload,
                 raised, early>>

\* One round of AsioPool::stop()'s loop, in a handler.
StopInstance(s) ==
  /\ outcome = "running" /\ handler[s] # 0
  /\ stopped' = [stopped EXCEPT ![handler[s]] = TRUE]
  /\ handler' = [handler EXCEPT ![s] = IF @ < N THEN @ + 1 ELSE 0]
  /\ UNCHANGED <<pc, instance, outcome, threads, workers, running, should_stop, should_reload,
                 raised, early>>

--------------------------------------------------------------------------------
Main == Restart \/ StartWorker \/ Started \/ Join \/ Check \/ Load \/ Loaded \/ Clear

Step ==
  \/ Main
  \/ \E k \in 1 .. N, count \in ThreadCounts : OnUpdate(k, count)
  \/ \E k \in 1 .. N : WorkerEnds(k)
  \/ \E s \in Signals : StopInstance(s)

Next == Step \/ \E s \in Signals : Raise(s)

Spec == Init /\ [][Next]_vars

\* Threads run: main, every worker and every handler go on when they can.
Fairness ==
  /\ WF_vars(Main)
  /\ \A k \in 1 .. N : WF_vars(WorkerEnds(k))
  /\ \A s \in Signals : WF_vars(StopInstance(s))

FairSpec == Spec /\ Fairness

--------------------------------------------------------------------------------
\* io_context::restart() is never called while a thread is inside run() of that
\* io_context, whenever the signals come (AsioPool::run).
RestartsWhenIdle ==
  [][\A k \in 1 .. N : pc = "restart" /\ instance = k => running[k] = 0]_vars

\* config::load() changes values that the handlers read without a lock, and the
\* destructor of a joinable std::thread ends the process: when main reloads, and
\* when it returns, however it does, no thread is left (AsioPool::run, main).
AllJoined ==
  pc \in {"load", "update", "returned"} => \A k \in 1 .. N : workers[k] = 0 /\ running[k] = 0

\* Signals that come while the server is up are answered.  A stop signal ends
\* it ("Received stop signal").
StopEnds == should_stop ~> (outcome = "shutting down" \/ early)

\* After a reload signal the configuration is read again and the threads are
\* started again, or main returns (main's loop).
ReloadEnds ==
  should_reload ~> (outcome # "running" \/ (~should_reload /\ Waiting) \/ early)

\* Both kinds of signal are answered, whatever the handlers and main interleave.
SignalsAnswered == StopEnds /\ ReloadEnds

\* "Stop processing for all asio threads": once a stop has been asked for, no
\* thread goes on for ever.
StopStopsAll == should_stop ~> \A k \in 1 .. N : running[k] = 0
================================================================================
