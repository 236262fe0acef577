----------------------------- MODULE TaskManager -----------------------------
(***************************************************************************)
(* The background event loop of a worker process and its list of monitored *)
(* futures.  The thread that serves requests hands coroutines to the loop  *)
(* and, when the worker exits, waits until the list is empty.  The thread  *)
(* of the loop runs the coroutines and the callbacks of their futures.     *)
(* Both threads take a lock that is not reentrant.                         *)
(***************************************************************************)
EXTENDS FiniteSets

CONSTANTS
    Background,  \* webhook events, handled after the response
    Foreground,  \* kickoff requests, whose result is the response
    NoTask

Tasks == Background \cup Foreground

ASSUME TasksAssumption ==
    /\ Background \cap Foreground = {}
    /\ NoTask \notin Tasks

VARIABLES
    request,    \* where the thread that serves requests is
    serving,    \* the task of the request that it serves
    loop,       \* the task whose callback the loop's thread is to run
    lock,       \* __monitor_lock: the threads that hold it
    state,      \* the state of each task and its future
    callbacks,  \* the futures that have the callback
    monitored   \* __monitored

managerVars == <<request, serving, loop, lock, state, callbacks, monitored>>

Places == {"ready", "enter", "scheduled", "added", "callback", "result",
           "exit", "sleep", "stopped"}

ManagerInit ==
    /\ request = "ready"
    /\ serving = NoTask
    /\ loop = NoTask
    /\ lock = {}
    /\ state = [t \in Tasks |-> "new"]
    /\ callbacks = {}
    /\ monitored = {}

-----------------------------------------------------------------------------
(* in_background                                                           *)

\* A webhook event or a kickoff request arrives.
Receive(t) ==
    /\ request = "ready"
    /\ state[t] = "new"
    /\ serving' = t
    /\ request' = "enter"
    /\ UNCHANGED <<loop, lock, state, callbacks, monitored>>

\* run_coroutine_threadsafe, with the lock held.
Schedule ==
    /\ request = "enter" /\ serving \in Background
    /\ lock = {}
    /\ lock' = {"request"}
    /\ state' = [state EXCEPT ![serving] = "scheduled"]
    /\ request' = "scheduled"
    /\ UNCHANGED <<serving, loop, callbacks, monitored>>

\* add_done_callback calls the callback itself if the future is done already:
\* the callback waits for the lock, which this thread holds ("callback").
AddDoneCallback ==
    /\ request = "scheduled"
    /\ \/ /\ state[serving] # "done"
          /\ callbacks' = callbacks \cup {serving}
          /\ request' = "added"
       \/ /\ state[serving] = "done"
          /\ request' = "callback"
          /\ UNCHANGED callbacks
    /\ UNCHANGED <<serving, loop, lock, state, monitored>>

\* Mutant: the future is not remembered.
NotMonitored == monitored

Appended == monitored \cup {serving}

\* The list gets the future, the lock is released, the response is sent.
AppendFuture ==
    /\ request = "added"
    /\ monitored' = Appended
    /\ lock' = lock \ {"request"}
    /\ request' = "ready"
    /\ serving' = NoTask
    /\ UNCHANGED <<loop, state, callbacks>>

-----------------------------------------------------------------------------
(* in_foreground                                                           *)

ScheduleForeground ==
    /\ request = "enter" /\ serving \in Foreground
    /\ state' = [state EXCEPT ![serving] = "scheduled"]
    /\ request' = "result"
    /\ UNCHANGED <<serving, loop, lock, callbacks, monitored>>

Result ==
    /\ request = "result"
    /\ state[serving] = "done"
    /\ request' = "ready"
    /\ serving' = NoTask
    /\ UNCHANGED <<loop, lock, state, callbacks, monitored>>

-----------------------------------------------------------------------------
(* The thread of the loop.                                                 *)

\* A task runs to its next await ...
Run(t) ==
    /\ loop = NoTask
    /\ state[t] = "scheduled"
    /\ state' = [state EXCEPT ![t] = "running"]
    /\ UNCHANGED <<request, serving, loop, lock, callbacks, monitored>>

\* ... or to its end, and then its callback is run.
Finish(t) ==
    /\ loop = NoTask
    /\ state[t] \in {"scheduled", "running"}
    /\ state' = [state EXCEPT ![t] = "done"]
    /\ loop' = IF t \in callbacks THEN t ELSE NoTask
    /\ UNCHANGED <<request, serving, lock, callbacks, monitored>>

\* A task awaits a thread that never comes back: neither the requests for a
\* token nor git have a timeout.  The loop goes on with its other tasks.
Hang(t) ==
    /\ loop = NoTask
    /\ state[t] \in {"scheduled", "running"}
    /\ state' = [state EXCEPT ![t] = "hung"]
    /\ UNCHANGED <<request, serving, loop, lock, callbacks, monitored>>

\* Mutant: only the result is logged.
LogOnly == monitored

Removed == monitored \ {loop}

\* __callback, which is one step of a thread that has the lock.
Callback ==
    /\ loop # NoTask
    /\ lock = {}
    /\ monitored' = Removed
    /\ loop' = NoTask
    /\ UNCHANGED <<request, serving, lock, state, callbacks>>

-----------------------------------------------------------------------------
(* wait_for_exit                                                           *)

\* The worker stops taking requests (max_requests, or a signal).
WorkerExit ==
    /\ request = "ready"
    /\ request' = "exit"
    /\ UNCHANGED <<serving, loop, lock, state, callbacks, monitored>>

CheckMonitored ==
    /\ request = "exit"
    /\ lock = {}
    /\ request' = IF monitored = {} THEN "stopped" ELSE "sleep"
    /\ UNCHANGED <<serving, loop, lock, state, callbacks, monitored>>

Sleep ==
    /\ request = "sleep"
    /\ request' = "exit"
    /\ UNCHANGED <<serving, loop, lock, state, callbacks, monitored>>

-----------------------------------------------------------------------------
RequestStep ==
    \/ Schedule \/ AddDoneCallback \/ AppendFuture
    \/ ScheduleForeground \/ Result
    \/ CheckMonitored \/ Sleep

LoopStep == Callback \/ \E t \in Tasks : Finish(t)

ManagerNext ==
    \/ \E t \in Tasks : Receive(t) \/ Run(t) \/ Hang(t)
    \/ RequestStep
    \/ LoopStep
    \/ WorkerExit

ManagerSpec == ManagerInit /\ [][ManagerNext]_managerVars

\* Threads are scheduled; a task ends, if it does not hang; the lock is got by
\* a thread that waits for it while the other sleeps.
FairManagerSpec ==
    /\ ManagerSpec
    /\ WF_managerVars(RequestStep)
    /\ SF_managerVars(Callback)
    /\ \A t \in Tasks : SF_managerVars(Finish(t))

-----------------------------------------------------------------------------
(* Properties.                                                             *)

ManagerTypeOK ==
    /\ request \in Places
    /\ serving \in Tasks \cup {NoTask}
    /\ loop \in Tasks \cup {NoTask}
    /\ lock \subseteq {"request"}
    /\ state \in [Tasks -> {"new", "scheduled", "running", "hung", "done"}]
    /\ callbacks \subseteq Background
    /\ monitored \subseteq Background

\* A worker that has stopped has finished every event it answered: the list
\* never misses a future that is scheduled, running or waiting for its callback.
NothingAbandoned ==
    request = "stopped" =>
        \A t \in Tasks : state[t] \in {"new", "done"} /\ loop # t

\* The thread that serves requests is waiting for the lock that it holds: a
\* coroutine was done before in_background had added the callback to its future.
WaitsForItself == request = "callback"

\* Every request is answered and the exit of the worker comes to an end in the
\* executions in which no task hangs and the thread does not wait for itself.
\* The worker has no other way to stand still: the two threads never wait for
\* each other, and wait_for_exit does not wait for a future that is done.
WorkerProgresses ==
    [](~WaitsForItself /\ \A t \in Tasks : state[t] # "hung") =>
        (request # "ready" ~> request \in {"ready", "stopped"})
=============================================================================
