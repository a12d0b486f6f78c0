----------------------------- MODULE JavaFuture -----------------------------
(***************************************************************************)
(* java_future (future.rs): a Java CompletableFuture awaited from Rust.    *)
(* The worker of the cell blocks on CompletableFuture.get(), converts the  *)
(* result to the annotated Rust type or reports the failure, one level of  *)
(* cause unwrapped.                                                        *)
(***************************************************************************)
EXTENDS BridgeCell

CONSTANTS
  Values,        \* the objects the Java side may complete the future with
  Null,          \* Java null
  Convertible,   \* the values FromJava of the annotated type accepts
  Panicking,     \* the values on which a user's FromJava panics
  Throwables,    \* the exceptions the Java side may fail the future with
  Cancellations, \* those of them that are CancellationExceptions
  CauseOf,       \* Throwable.getCause() of each
  NoThrowable,   \* a null cause
  Annotations    \* the kinds of T the caller annotates

ASSUME JavaFutureAssumption ==
  /\ Null \notin Values
  /\ Convertible \subseteq Values
  /\ Panicking \subseteq Values
  /\ Cancellations \subseteq Throwables
  /\ NoThrowable \notin Throwables
  /\ CauseOf \in [Throwables -> Throwables \cup {NoThrowable}]
  /\ Annotations \subseteq {"i32", "Option<i32>", "String", "Option<String>"}

VARIABLES
  cf,          \* the Java future: pending, or how it was completed
  annotation   \* T, fixed where the future is constructed

javaVars == <<cf, annotation>>
javaFutureVars == <<cellVars, javaVars>>

Pending == [kind |-> "pending", of |-> Null]
Completions ==
  [kind : {"value"}, of : Values \cup {Null}] \cup
  [kind : {"failed"}, of : Throwables]

Ok(v) == [tag |-> "ok", of |-> v]
Exception(t) == [tag |-> "exception", of |-> t]
NullRejected == [tag |-> "invalid", of |-> "null"]
TypeRejected == [tag |-> "invalid", of |-> "type"]
NotAttached == [tag |-> "jni", of |-> "attach"]

\* The class of the wrapper get() throws around a failure.
ExecutionException == "java.util.concurrent.ExecutionException"

JavaOutcomes ==
  {Ok(v) : v \in Values \cup {Null}}
    \cup {Exception(t) : t \in Throwables \cup {ExecutionException}}
    \cup {NullRejected, TypeRejected, NotAttached}

ASSUME JavaOutcomesAssumption == JavaOutcomes \subseteq Outcomes

TypeOK ==
  /\ CellTypeOK
  /\ cf \in Completions \cup {Pending}
  /\ annotation \in Annotations

JavaInit ==
  /\ CellInit
  /\ cf = Pending
  /\ annotation \in Annotations

-----------------------------------------------------------------------------
(***************************************************************************)
(* What the worker makes of a completion.                                  *)
(***************************************************************************)

\* CompletableFuture.get() throws a CancellationException itself and wraps
\* every other failure.
Thrown(t) ==
  IF t \in Cancellations
    THEN [self |-> t, cause |-> CauseOf[t]]
    ELSE [self |-> ExecutionException, cause |-> t]

\* (A bug would be to unwrap recursively, down to the root cause.)
BugRootCause(thrown) ==
  IF thrown.cause = NoThrowable
    THEN Exception(thrown.self)
    ELSE IF CauseOf[thrown.cause] = NoThrowable
           THEN Exception(thrown.cause)
           ELSE Exception(CauseOf[thrown.cause])

\* A non-null cause is reported instead of the exception that was thrown.
ExceptionError(thrown) ==
  IF thrown.cause = NoThrowable
    THEN Exception(thrown.self)
    ELSE Exception(thrown.cause)

\* T::java_return_type() is a primitive's letter for i32 -- and for Option<i32>,
\* which has the return type of what it wraps.
UnboxesFirst(a) == a \in {"i32", "Option<i32>"}

\* unbox_for_annotation, then T::from_java: a null fails to unbox, a null
\* without Option is no String, and a value of another class is rejected.
ConvertValue(a, v) ==
  CASE v = Null /\ UnboxesFirst(a) -> NullRejected
    [] v = Null /\ a = "Option<String>" -> Ok(Null)
    [] v = Null /\ a = "String" -> NullRejected
    [] v \in Convertible -> Ok(v)
    [] OTHER -> TypeRejected

-----------------------------------------------------------------------------
(***************************************************************************)
(* The steps of the event source.                                          *)
(***************************************************************************)

\* Java completes, fails or cancels the future; the first completion wins.
CfComplete(c) ==
  /\ cf = Pending
  /\ cf' = c
  /\ UNCHANGED annotation
  /\ UNCHANGED cellVars

\* The worker cannot attach to the JVM.
AttachFails ==
  /\ WorkerFetch(NotAttached)
  /\ UNCHANGED javaVars

\* get() returns a value, which is converted.
FetchValue ==
  /\ cf.kind = "value"
  /\ cf.of \notin Panicking
  /\ WorkerFetch(ConvertValue(annotation, cf.of))
  /\ UNCHANGED javaVars

\* get() throws.
FetchFailure ==
  /\ cf.kind = "failed"
  /\ WorkerFetch(ExceptionError(Thrown(cf.of)))
  /\ UNCHANGED javaVars

\* from_java of a user type panics and nothing on this thread catches it.
ConversionPanics ==
  /\ cf.kind = "value"
  /\ cf.of \in Panicking
  /\ WorkerDies
  /\ UNCHANGED javaVars

\* fetch_completion once get() has returned.
FetchCompletion == FetchValue \/ FetchFailure \/ ConversionPanics

JavaNext ==
  \/ \E c \in Completions : CfComplete(c)
  \/ AttachFails
  \/ FetchCompletion
  \/ CellCommon /\ UNCHANGED javaVars

\* get() returns once the Java future is complete.
JavaFairness == CellFairness /\ WF_javaFutureVars(FetchCompletion)

JavaSpec == JavaInit /\ [][JavaNext]_javaFutureVars /\ JavaFairness

-----------------------------------------------------------------------------
(***************************************************************************)
(* Properties.                                                             *)
(***************************************************************************)

\* The outcomes the module docs of future.rs give a completion, for T = a: a
\* value or the reason it does not fit, an error for a null that no Option
\* accepts, and for a failure the exception Java failed the future with --
\* neither the ExecutionException that get() wraps around it nor the cause
\* that exception has itself.  (For Option<i32> the docs say that it accepts
\* null, and the code rejects it: either is allowed here.)
Documented(a, c) ==
  CASE c = Pending -> {}
    [] c.kind = "value" /\ c.of # Null -> {Ok(c.of), TypeRejected}
    [] c.kind = "value" /\ c.of = Null /\ a = "Option<String>" -> {Ok(Null)}
    [] c.kind = "value" /\ c.of = Null /\ a = "Option<i32>" -> {Ok(Null), NullRejected}
    [] c.kind = "value" /\ c.of = Null /\ a \in {"i32", "String"} -> {NullRejected}
    [] c.kind = "failed" /\ c.of \notin Cancellations -> {Exception(c.of)}
    [] c.kind = "failed" /\ c.of \in Cancellations ->
         {IF CauseOf[c.of] = NoThrowable
            THEN Exception(c.of) ELSE Exception(CauseOf[c.of])}

\* What a poll returns was determined by how Java completed the future, many
\* steps earlier and on another thread, or by a failure of the bridge itself.
DeliversTheCompletion ==
  \A i \in 1..Len(returned) :
    returned[i] \in {SpawnError, NotAttached} \cup Documented(annotation, cf)

\* A task that awaits a completed future gets its outcome, whatever the order
\* of the completion, the polls and the moves of the future between tasks.
CompletedIsDelivered ==
  (cf # Pending /\ ret = "pending")
    ~> (returned # <<>> \/ dropped \/ worker = "died")
=============================================================================
