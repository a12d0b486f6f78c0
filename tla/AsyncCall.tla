------------------------------ MODULE AsyncCall ------------------------------
(***************************************************************************)
(* call_async and call_static_async (java.rs): one Java call awaited from  *)
(* Rust.  The worker of the cell attaches, converts the arguments and      *)
(* makes the call.  Where the first poll runs decides where the worker     *)
(* runs: on the blocking pool of the tokio runtime the poll is inside of,  *)
(* or on a thread of its own.                                              *)
(***************************************************************************)
EXTENDS BridgeCell

CONSTANTS
  TokioTasks,    \* the tasks that run inside the tokio runtime
  Answers,       \* what the call gives: values, exceptions, result mismatches
  Refusals,      \* the errors met before the call: attach, arguments, lookup
  UserConverts   \* the conversions are user code, which may panic

ASSUME AsyncCallAssumption ==
  /\ TokioTasks \subseteq Wakers
  /\ Answers \cup Refusals \subseteq Outcomes
  /\ Answers \cap Refusals = {}
  /\ UserConverts \in BOOLEAN

VARIABLES
  place,    \* where the worker's closure is
  runtime,  \* the tokio runtime runs
  calls,    \* history: how many times the Java method was entered
  answer    \* history: what it answered, as the sync call would report it

callVars == <<place, runtime, calls, answer>>
asyncCallVars == <<cellVars, callVars>>

CallInit ==
  /\ CellInit
  /\ place = "future"
  /\ runtime = TRUE
  /\ calls = 0
  /\ answer = NoOutcome

-----------------------------------------------------------------------------
(***************************************************************************)
(* spawn_bridge_worker, inside the first poll.                             *)
(***************************************************************************)

\* A current tokio runtime takes the closure; that never reports a failure.
SpawnBlocking ==
  /\ owner \in TokioTasks
  /\ PollSpawn
  /\ place' = "queued"
  /\ UNCHANGED <<runtime, calls, answer>>

\* Everywhere else a std thread is spawned, and that may fail.
SpawnThread ==
  /\ owner \notin TokioTasks
  /\ PollSpawn
  /\ place' = "running"
  /\ UNCHANGED <<runtime, calls, answer>>

SpawnThreadFails ==
  /\ owner \notin TokioTasks
  /\ PollSpawnFails
  /\ place' = "left"
  /\ UNCHANGED <<runtime, calls, answer>>

SpawnBridgeWorker == SpawnBlocking \/ SpawnThread \/ SpawnThreadFails

-----------------------------------------------------------------------------
(***************************************************************************)
(* The tokio runtime.                                                      *)
(***************************************************************************)

\* A thread of the blocking pool takes the closure.
StartQueued ==
  /\ runtime
  /\ place = "queued"
  /\ place' = "running"
  /\ UNCHANGED <<runtime, calls, answer>>
  /\ UNCHANGED cellVars

\* The runtime shuts down between two polls: it drops its tasks, and with them
\* the futures they own, and drops the closures it has not started.
ShutDown ==
  /\ runtime
  /\ mutex = "free"
  /\ runtime' = FALSE
  /\ dropped' = (dropped \/ owner \in TokioTasks)
  /\ IF place = "queued"
       THEN place' = "left" /\ worker' = "died"
       ELSE UNCHANGED <<place, worker>>
  /\ UNCHANGED <<got, taken, owner, scheduled, ret, returned, calls, answer>>
  /\ UNCHANGED cell

\* A future is never given to a task of a runtime that is gone.
MoveTo(w) ==
  /\ w \in TokioTasks => runtime
  /\ Move(w)
  /\ UNCHANGED callVars

-----------------------------------------------------------------------------
(***************************************************************************)
(* async_call_worker, on the worker thread.                                *)
(***************************************************************************)

\* Attaching, converting the arguments or finding the method fails.
Refuse ==
  /\ place = "running"
  /\ \E e \in Refusals : WorkerFetch(e)
  /\ place' = "left"
  /\ UNCHANGED <<runtime, calls, answer>>

\* The method is entered.  A lookup that missed and was retried with the exact
\* signature has not entered it.
EnterMethod ==
  /\ place = "running"
  /\ place' = "calling"
  /\ calls' = calls + 1
  /\ UNCHANGED <<runtime, answer>>
  /\ UNCHANGED cellVars

\* The method returns or throws, and the result is converted.
CallReturns ==
  /\ place = "calling"
  /\ \E a \in Answers : WorkerFetch(a) /\ answer' = a
  /\ place' = "left"
  /\ UNCHANGED <<runtime, calls>>

\* to_java before the call or from_java after it panics: the thread unwinds
\* and the cell is never written.
CallConversionPanics ==
  /\ UserConverts
  /\ place \in {"running", "calling"}
  /\ WorkerDies
  /\ place' = "left"
  /\ UNCHANGED <<runtime, calls, answer>>

\* (A bug would be to skip the call of a future that was dropped meanwhile.)
BugCancelledByDrop ==
  ~dropped /\ (Refuse \/ EnterMethod \/ CallReturns \/ CallConversionPanics)

\* (A bug would be to resolve the signature by reflection and call again after
\* any error, not just after a method that was not found.)
BugRetryAnyError ==
  \/ Refuse \/ EnterMethod \/ CallReturns \/ CallConversionPanics
  \/ /\ place = "calling"
     /\ place' = "running"
     /\ UNCHANGED <<runtime, calls, answer>>
     /\ UNCHANGED cellVars

AsyncCallWorker == Refuse \/ EnterMethod \/ CallReturns \/ CallConversionPanics

CallNext ==
  \/ SpawnBridgeWorker
  \/ StartQueued
  \/ ShutDown
  \/ AsyncCallWorker
  \/ \E w \in Wakers : MoveTo(w) \/ (RunOther(w) /\ UNCHANGED callVars)
  \/ /\ PollEnter \/ PollPending \/ PollReady \/ PollPanics \/ Drop
          \/ WorkerStore \/ WorkerWake
     /\ UNCHANGED callVars

(***************************************************************************)
(* The pool starts what is queued while the runtime runs, and the worker   *)
(* goes on; in particular, the Java method returns.                        *)
(***************************************************************************)
CallFairness ==
  /\ CellFairness
  /\ WF_asyncCallVars(SpawnBridgeWorker)
  /\ WF_asyncCallVars(StartQueued)
  /\ WF_asyncCallVars(AsyncCallWorker)

CallSpec == CallInit /\ [][CallNext]_asyncCallVars /\ CallFairness

-----------------------------------------------------------------------------
(***************************************************************************)
(* Properties.                                                             *)
(***************************************************************************)

\* The awaiting task gets what the sync call would have given: the answer of
\* the one invocation, or an error that proves that Java was not called.  No
\* number of polls, moves of the future and hand-overs between pool and thread
\* runs a method with side effects twice, or hides that it ran.
OneInvocation ==
  /\ calls <= 1
  /\ \A i \in 1..Len(returned) :
       IF calls = 0 THEN returned[i] \in Refusals \cup {SpawnError}
                    ELSE returned[i] = answer

\* "Dropping the future does not cancel the Java call: the worker keeps
\* running": once the worker runs it ends, whatever the tasks do and also when
\* the runtime that hosts it shuts down.
StartedRuns == (place = "running") ~> (worker \in {"exited", "died"})

\* A task that awaits the call gets its outcome, on whichever executor it is
\* now, unless the worker was lost to a panic or to the shutdown of a runtime.
CallIsDelivered ==
  (ret = "pending") ~> (returned # <<>> \/ dropped \/ worker = "died")
=============================================================================
