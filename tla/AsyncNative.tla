---------------------------- MODULE AsyncNative ----------------------------
(***************************************************************************)
(* async_native! (future.rs): a Rust async function called from Java.  The *)
(* trampoline hands Java a CompletableFuture at once, and a worker runs    *)
(* the function and completes it: a std thread of its own or, if the       *)
(* caller is inside a tokio runtime, an outer task of that runtime which   *)
(* awaits a nested one.                                                    *)
(***************************************************************************)
EXTENDS Naturals, FiniteSets

CONSTANTS
  Calls,            \* the calls Java makes
  TokioCalls,       \* those made on a thread of the tokio runtime
  Joining,          \* those whose caller blocks in get() for the result
  RuntimeThreads,   \* the threads of the runtime
  Values,           \* what the function may return
  Rejected,         \* the values to_java rejects or turns into several
  Panicking,        \* the values on which a user's to_java panics
  Errors,           \* the errors the function may return
  JavaExceptions,   \* those of them that name a Java exception class
  Unknown,          \* those whose class is not found or takes no message
  JniMayFail,       \* JNI calls may fail: attach, new references, complete
  Unset

ASSUME AsyncNativeAssumption ==
  /\ IsFiniteSet(Calls)
  /\ TokioCalls \subseteq Calls /\ Joining \subseteq Calls
  /\ RuntimeThreads \in Nat \ {0}
  /\ Rejected \subseteq Values /\ Panicking \subseteq Values
  /\ Values \cap Errors = {}
  /\ Unknown \subseteq JavaExceptions /\ JavaExceptions \subseteq Errors
  /\ JniMayFail \in BOOLEAN
  /\ Unset \notin Values \cup Errors

VARIABLES
  java,     \* where Java is in every call
  cf,       \* the CompletableFuture of the call
  worker,   \* where its worker is
  result,   \* how the function ended, in the hand of the worker
  runtime   \* the tokio runtime runs

asyncVars == <<java, cf, worker, result, runtime>>

\* What the bridge itself reports: a refused thread, a panic of the function,
\* a nested task that was cancelled, a value that could not be handed over.
NotSpawned == "failed to spawn"
Panicked == "panicked"
TaskCancelled == "task was cancelled"
NotConverted == "not converted"
BridgeErrors == {NotSpawned, Panicked, TaskCancelled, NotConverted}

ASSUME BridgeErrorsAssumption == BridgeErrors \cap (Values \cup Errors \cup {Unset}) = {}

Pending == [kind |-> "pending"]
Cancelled == [kind |-> "cancelled"]
Value(v) == [kind |-> "value", of |-> v]
Failed(class, e) == [kind |-> "failed", class |-> class, of |-> e]
RuntimeException == "java.lang.RuntimeException"

Completions ==
  {Cancelled} \cup {Value(v) : v \in Values}
    \cup {Failed(e, e) : e \in JavaExceptions}
    \cup {Failed(RuntimeException, e) : e \in Errors \cup BridgeErrors}

ASSUME CompletionsAssumption == Unset \notin Completions \cup {Pending}

\* Ranges; and a future exists from the moment a worker may hold it.
AsyncTypeOK ==
  /\ java \in [Calls -> {"idle", "calling", "returned", "joining", "over", "threw"}]
  /\ cf \in [Calls -> Completions \cup {Pending, Unset}]
  /\ worker \in [Calls -> {"none", "queued", "running", "joined", "complete",
                           "fail", "exited", "lost"}]
  /\ result \in [Calls -> Values \cup Errors \cup BridgeErrors \cup {Unset}]
  /\ runtime \in BOOLEAN
  /\ \A c \in Calls :
       /\ worker[c] # "none" => cf[c] # Unset
       /\ worker[c] = "complete" => result[c] \in Values
       /\ worker[c] = "fail" => result[c] \notin Values \cup {Unset}

AsyncInit ==
  /\ java = [c \in Calls |-> "idle"]
  /\ cf = [c \in Calls |-> Unset]
  /\ worker = [c \in Calls |-> "none"]
  /\ result = [c \in Calls |-> Unset]
  /\ runtime = TRUE

-----------------------------------------------------------------------------
(***************************************************************************)
(* The calling Java thread.                                                *)
(***************************************************************************)

\* A caller inside the runtime keeps one of its threads while it is in the
\* native method, and while it blocks in get().
FreeThread ==
  Cardinality({c \in TokioCalls : java[c] \in {"calling", "joining"}}) < RuntimeThreads

MayCall(c) ==
  /\ java[c] = "idle"
  /\ c \in TokioCalls => runtime /\ FreeThread

\* Wrong arity, an argument from_java rejects, no facade, no future: the error
\* is thrown and null returned.
Refuse(c) ==
  /\ MayCall(c)
  /\ java' = [java EXCEPT ![c] = "threw"]
  /\ UNCHANGED <<cf, worker, result, runtime>>

\* The future is created and the worker spawned: the outer task in a current
\* runtime, else a thread.
Spawn(c) ==
  /\ MayCall(c)
  /\ java' = [java EXCEPT ![c] = "calling"]
  /\ cf' = [cf EXCEPT ![c] = Pending]
  /\ worker' = [worker EXCEPT ![c] = IF c \in TokioCalls THEN "queued" ELSE "running"]
  /\ UNCHANGED <<result, runtime>>

\* The OS refuses the thread: the caller fails the future itself.
SpawnFails(c) ==
  /\ c \notin TokioCalls
  /\ MayCall(c)
  /\ java' = [java EXCEPT ![c] = "calling"]
  /\ cf' = [cf EXCEPT ![c] = Pending]
  /\ worker' = [worker EXCEPT ![c] = "fail"]
  /\ result' = [result EXCEPT ![c] = NotSpawned]
  /\ UNCHANGED runtime

\* The native method returns the future, or throws because the local reference
\* could not be made: nobody has the future then, and the worker runs on.
Return(c) ==
  /\ java[c] = "calling"
  /\ result[c] = NotSpawned => worker[c] # "fail"
  /\ \/ java' = [java EXCEPT ![c] = "returned"]
     \/ JniMayFail /\ java' = [java EXCEPT ![c] = "threw"]
  /\ UNCHANGED <<cf, worker, result, runtime>>

\* The caller blocks in get(), until the future is complete.
Join(c) ==
  /\ \/ c \in Joining /\ java[c] = "returned" /\ java' = [java EXCEPT ![c] = "joining"]
     \/ java[c] = "joining" /\ cf[c] # Pending /\ java' = [java EXCEPT ![c] = "over"]
  /\ UNCHANGED <<cf, worker, result, runtime>>

\* Completing a CompletableFuture does nothing if it is complete already.
Settle(c, completion) ==
  cf' = IF cf[c] = Pending THEN [cf EXCEPT ![c] = completion] ELSE cf

\* Some Java thread cancels the future; Rust does not learn of it.
Cancel(c) ==
  /\ java[c] \in {"returned", "joining"}
  /\ cf[c] = Pending
  /\ Settle(c, Cancelled)
  /\ UNCHANGED <<java, worker, result, runtime>>

-----------------------------------------------------------------------------
(***************************************************************************)
(* The worker.                                                             *)
(***************************************************************************)

MoveTo(c, stage) == worker' = [worker EXCEPT ![c] = stage]

OnTask(c) == c \in TokioCalls
MayRun(c) == OnTask(c) => FreeThread

\* The outer task is polled and spawns the nested one, which a runtime that is
\* shutting down cancels at once.
StartNested(c) ==
  /\ worker[c] = "queued"
  /\ MayRun(c)
  /\ IF runtime
       THEN MoveTo(c, "running") /\ UNCHANGED result
       ELSE MoveTo(c, "joined") /\ result' = [result EXCEPT ![c] = TaskCancelled]
  /\ UNCHANGED <<java, cf, runtime>>

\* complete_value for a value, complete_exceptionally for an error.
Outcome(r) == IF r \in Values THEN "complete" ELSE "fail"

\* (A bug would be to leave a panic of the function to the thread.)
BugPanicUncaught(c) ==
  /\ worker[c] = "running"
  /\ MayRun(c)
  /\ \E r \in Values \cup Errors \cup {Panicked} :
       /\ result' = [result EXCEPT ![c] = r]
       /\ MoveTo(c, IF OnTask(c) THEN "joined"
                ELSE IF r = Panicked THEN "exited" ELSE Outcome(r))
  /\ UNCHANGED <<java, cf, runtime>>

\* The function returns or panics; catch_unwind, or the join of the nested
\* task, makes an error of a panic.
FunctionEnds(c) ==
  /\ worker[c] = "running"
  /\ MayRun(c)
  /\ \E r \in Values \cup Errors \cup {Panicked} :
       /\ result' = [result EXCEPT ![c] = r]
       /\ MoveTo(c, IF OnTask(c) THEN "joined" ELSE Outcome(r))
  /\ UNCHANGED <<java, cf, runtime>>

\* The outer task is polled again and has the result of the nested one.
Joined(c) ==
  /\ worker[c] = "joined"
  /\ MayRun(c)
  /\ MoveTo(c, Outcome(result[c]))
  /\ UNCHANGED <<java, cf, result, runtime>>

\* complete_value: the conversion or the call of complete() fails, which
\* becomes the error to fail the future with.
CannotComplete(c) ==
  /\ worker[c] = "complete"
  /\ result[c] \in Rejected \/ JniMayFail
  /\ result' = [result EXCEPT ![c] = NotConverted]
  /\ MoveTo(c, "fail")
  /\ UNCHANGED <<java, cf, runtime>>

\* complete_value: nothing catches a panic of to_java.
ConversionPanics(c) ==
  /\ worker[c] = "complete"
  /\ result[c] \in Panicking
  /\ MoveTo(c, "lost")
  /\ UNCHANGED <<java, cf, result, runtime>>

CompleteValue(c) ==
  /\ worker[c] = "complete"
  /\ result[c] \notin Rejected \cup Panicking
  /\ Settle(c, Value(result[c]))
  /\ MoveTo(c, "exited")
  /\ UNCHANGED <<java, result, runtime>>

\* (A bug would be to give up the class the error names.)
BugBuildThrowable(e) == Failed(RuntimeException, e)

\* The class the error names, and RuntimeException for every other error and
\* where the class is not there or has no constructor for a message.
BuildThrowable(e) ==
  IF e \in JavaExceptions \ Unknown THEN Failed(e, e) ELSE Failed(RuntimeException, e)

\* complete_exceptionally ignores its own failure.
CompleteExceptionally(c) ==
  /\ worker[c] = "fail"
  /\ \/ Settle(c, BuildThrowable(result[c])) /\ MoveTo(c, "exited")
     \/ JniMayFail /\ MoveTo(c, "lost") /\ UNCHANGED cf
  /\ UNCHANGED <<java, result, runtime>>

\* (A bug would be a worker that stops when Java cancelled its future.)
BugWork(c) ==
  /\ cf[c] # Cancelled
  /\ \/ StartNested(c) \/ FunctionEnds(c) \/ Joined(c)
     \/ CannotComplete(c) \/ ConversionPanics(c)
     \/ CompleteValue(c) \/ CompleteExceptionally(c)

Work(c) ==
  \/ StartNested(c)
  \/ FunctionEnds(c)
  \/ Joined(c)
  \/ CannotComplete(c)
  \/ ConversionPanics(c)
  \/ CompleteValue(c)
  \/ CompleteExceptionally(c)

-----------------------------------------------------------------------------
(***************************************************************************)
(* The runtime.  Shutting down, it drops every task at its next await; a   *)
(* poll that has begun goes on to that point.                              *)
(***************************************************************************)

ShutDown ==
  /\ runtime
  /\ runtime' = FALSE
  /\ UNCHANGED <<java, cf, worker, result>>

\* The nested task is dropped first, and its join reports it.
DropNested(c) ==
  /\ ~runtime
  /\ OnTask(c)
  /\ worker[c] = "running"
  /\ result' = [result EXCEPT ![c] = TaskCancelled]
  /\ MoveTo(c, "joined")
  /\ UNCHANGED <<java, cf, runtime>>

\* The outer task is dropped.
DropOuter(c) ==
  /\ ~runtime
  /\ OnTask(c)
  /\ worker[c] \in {"queued", "running", "joined"}
  /\ MoveTo(c, "lost")
  /\ UNCHANGED <<java, cf, result, runtime>>

AsyncNext ==
  \/ \E c \in Calls :
       \/ Refuse(c) \/ Spawn(c) \/ SpawnFails(c)
       \/ Return(c) \/ Join(c) \/ Cancel(c)
       \/ Work(c)
       \/ DropNested(c) \/ DropOuter(c)
  \/ ShutDown

(***************************************************************************)
(* Java goes on with a call it made; the function ends, and its worker is  *)
(* scheduled: on a thread by the OS, on a task whenever the runtime has a  *)
(* thread for it.  A runtime that shuts down drops its tasks.              *)
(***************************************************************************)
AsyncFairness ==
  \A c \in Calls :
    /\ WF_asyncVars(Return(c))
    /\ WF_asyncVars(Join(c))
    /\ SF_asyncVars(Work(c))
    /\ WF_asyncVars(DropOuter(c))

AsyncSpec == AsyncInit /\ [][AsyncNext]_asyncVars /\ AsyncFairness

-----------------------------------------------------------------------------
(***************************************************************************)
(* Properties.                                                             *)
(***************************************************************************)

\* "Errors" and "Result conversion" in the docs of future.rs: what Java sees
\* is how the function of this call ended -- its value, or an exception of the
\* class its error named, or a RuntimeException -- and only Java cancels.  A
\* value that could not be handed over is an exception, never a null.
DeliversTheResult ==
  \A c \in Calls :
    cf[c] \notin {Unset, Pending, Cancelled} =>
      /\ cf[c].of = result[c]
      /\ \/ cf[c].kind = "value" /\ result[c] \in Values \ Rejected
         \/ /\ cf[c].kind = "failed" /\ result[c] \notin Values
            /\ cf[c].class = IF result[c] \in JavaExceptions \ Unknown
                               THEN result[c] ELSE RuntimeException

\* Every call Java got a future for has it completed, on either executor,
\* unless its worker was lost; the runtime's only thread being busy with the
\* caller delays the tasks and does not block them for good.
EveryCallSettles ==
  \A c \in Calls : java[c] = "returned" ~> (cf[c] # Pending \/ worker[c] = "lost")

\* "Java-side cancel() does not propagate ...: the worker keeps running and its
\* eventual result is discarded": it ends, cancelled future or not.
WorkerEnds ==
  \A c \in Calls : worker[c] = "running" ~> worker[c] \in {"exited", "lost"}
=============================================================================
