----------------------------- MODULE BridgeCell -----------------------------
(***************************************************************************)
(* The cell shared by the two sides of an awaitable bridge: an            *)
(* Arc<Mutex<State<T>>> between the polls of a Rust future and the one     *)
(* worker thread that produces its outcome.  future.rs (java_future),      *)
(* rx.rs (from_callback) and java.rs (call_async) each hold a copy of this *)
(* protocol; JavaFuture, CallbackFuture and AsyncCall extend this module   *)
(* with the event source their worker blocks on.                           *)
(*                                                                         *)
(* A poll holds the mutex from its first line to its return, and the       *)
(* worker thread it spawns runs concurrently with the rest of that poll,   *)
(* so a poll is several steps here.  The worker's own critical section is  *)
(* straight-line code and is one step.                                     *)
(***************************************************************************)
EXTENDS Naturals, Sequences

CONSTANTS
  Wakers,        \* the tasks that may own the future, each with its waker
  NoWaker,       \* Option::None of a waker
  Outcomes,      \* what the worker may produce
  SpawnError,    \* the outcome of a poll whose worker could not be spawned
  NoOutcome,     \* Option::None of an outcome
  SpawnMayFail,  \* the OS may refuse a thread
  Repoll         \* what a task polls again after: Ready with the worker's
                 \* "outcome", Ready with a "refusal" (both break the contract)

ASSUME WakersAssumption == NoWaker \notin Wakers
ASSUME OutcomesAssumption ==
  /\ NoOutcome \notin Outcomes
  /\ SpawnError \notin Outcomes
  /\ NoOutcome # SpawnError
ASSUME SwitchesAssumption ==
  SpawnMayFail \in BOOLEAN /\ Repoll \subseteq {"outcome", "refusal"}

VARIABLES
  state,      \* the tag of the State enum inside the mutex
  waker,      \* the waker of State::Waiting
  outcome,    \* the Option inside State::Done
  mutex,      \* who holds the mutex between two steps
  worker,     \* where the worker thread is
  got,        \* the outcome in the worker's hand, not yet stored
  taken,      \* the waker in the worker's hand, not yet woken
  owner,      \* the task that owns the future: the Context of its next poll
  scheduled,  \* the tasks the executor is going to run
  ret,        \* what the last finished poll returned
  returned,   \* every outcome a poll returned as Ready
  dropped     \* the future was dropped

source == <<worker, got, taken>>
cell == <<state, waker, outcome, mutex>>
task == <<owner, scheduled, ret, returned, dropped>>
cellVars == <<state, waker, outcome, mutex, worker, got, taken,
              owner, scheduled, ret, returned, dropped>>

AllOutcomes == Outcomes \cup {SpawnError}

\* The ranges of the variables.  State is an enum: a waker exists only in its
\* Waiting variant and an outcome only in Done, so no transition of a poll or
\* of the worker may leave the payload of the variant it replaces behind.
CellTypeOK ==
  /\ state \in {"Unstarted", "Waiting", "Done"}
  /\ waker \in Wakers \cup {NoWaker}
  /\ outcome \in AllOutcomes \cup {NoOutcome}
  /\ mutex \in {"free", "poller"}
  /\ worker \in {"none", "fetch", "store", "wake", "exited", "died"}
  /\ got \in Outcomes \cup {NoOutcome}
  /\ taken \in Wakers \cup {NoWaker}
  /\ owner \in Wakers
  /\ scheduled \in SUBSET Wakers
  /\ ret \in {"new", "pending", "ready", "panicked"}
  /\ returned \in Seq(AllOutcomes)
  /\ dropped \in BOOLEAN
  /\ state # "Waiting" => waker = NoWaker
  /\ state # "Done" => outcome = NoOutcome

CellInit ==
  /\ state = "Unstarted"
  /\ waker = NoWaker
  /\ outcome = NoOutcome
  /\ mutex = "free"
  /\ worker = "none"
  /\ got = NoOutcome
  /\ taken = NoWaker
  /\ owner \in Wakers
  /\ scheduled = {owner}
  /\ ret = "new"
  /\ returned = <<>>
  /\ dropped = FALSE

-----------------------------------------------------------------------------
(***************************************************************************)
(* The polling side.                                                       *)
(***************************************************************************)

\* Does the executor still poll the future?  It must not after Ready.
Polls ==
  \/ ret \in {"new", "pending"}
  \/ /\ ret = "ready"
     /\ (IF worker = "none" THEN "refusal" ELSE "outcome") \in Repoll

\* The owner calls poll and gets the mutex.  Polls may be spurious: join and
\* select combinators poll all their children whenever one of them wakes.
PollEnter ==
  /\ ~dropped
  /\ Polls
  /\ mutex = "free"
  /\ mutex' = "poller"
  /\ scheduled' = scheduled \ {owner}
  /\ UNCHANGED <<state, waker, outcome, owner, ret, returned, dropped>>
  /\ UNCHANGED source

\* First poll: the startup data is taken, the worker is spawned, and the loop
\* goes round with the mutex still held.
PollSpawn ==
  /\ mutex = "poller"
  /\ state = "Unstarted"
  /\ state' = "Waiting"
  /\ waker' = NoWaker
  /\ worker' = "fetch"
  /\ UNCHANGED <<outcome, mutex, got, taken>>
  /\ UNCHANGED task

Return(r, o) ==
  /\ mutex' = "free"
  /\ ret' = r
  /\ returned' = o
  /\ UNCHANGED <<owner, scheduled, dropped>>

\* First poll, thread creation refused: the error is stored and returned.
PollSpawnFails ==
  /\ SpawnMayFail
  /\ mutex = "poller"
  /\ state = "Unstarted"
  /\ state' = "Done"
  /\ outcome' = SpawnError
  /\ Return("ready", Append(returned, SpawnError))
  /\ UNCHANGED waker
  /\ UNCHANGED source

\* (A bug would be to register only the first waker.)
BugOnlyFirstWaker(current, cx) == current = NoWaker

\* The registered waker is kept only if it will wake the task cx polling now.
ShouldUpdate(current, cx) == current = NoWaker \/ current # cx

PollPending ==
  /\ mutex = "poller"
  /\ state = "Waiting"
  /\ waker' = IF ShouldUpdate(waker, owner) THEN owner ELSE waker
  /\ Return("pending", returned)
  /\ UNCHANGED <<state, outcome>>
  /\ UNCHANGED source

\* (A bug would be to clone the outcome instead of taking it.)
BugReadyClones ==
  /\ mutex = "poller"
  /\ state = "Done"
  /\ outcome # NoOutcome
  /\ Return("ready", Append(returned, outcome))
  /\ UNCHANGED <<state, waker, outcome>>
  /\ UNCHANGED source

\* The outcome is taken out of State::Done and returned.
PollReady ==
  /\ mutex = "poller"
  /\ state = "Done"
  /\ outcome # NoOutcome
  /\ outcome' = NoOutcome
  /\ Return("ready", Append(returned, outcome))
  /\ UNCHANGED <<state, waker>>
  /\ UNCHANGED source

\* "polled after completion"; the poisoned mutex is used all the same.
PollPanics ==
  /\ mutex = "poller"
  /\ state = "Done"
  /\ outcome = NoOutcome
  /\ Return("panicked", returned)
  /\ UNCHANGED <<state, waker, outcome>>
  /\ UNCHANGED source

PollStep == PollSpawn \/ PollSpawnFails \/ PollPending \/ PollReady \/ PollPanics

-----------------------------------------------------------------------------
(***************************************************************************)
(* The worker thread.                                                      *)
(***************************************************************************)

\* The worker obtained its outcome o from the event source.
WorkerFetch(o) ==
  /\ worker = "fetch"
  /\ worker' = "store"
  /\ got' = o
  /\ UNCHANGED <<taken>>
  /\ UNCHANGED cell
  /\ UNCHANGED task

\* The thread ends without an outcome: nothing catches a panic of user code
\* that runs on it, and a blocking pool may discard a queued worker.
WorkerDies ==
  /\ worker = "fetch"
  /\ worker' = "died"
  /\ UNCHANGED <<got, taken>>
  /\ UNCHANGED cell
  /\ UNCHANGED task

\* (A bug would be to store without handing the outcome over.)
BugStoreKeepsOutcome ==
  /\ worker = "store"
  /\ mutex = "free"
  /\ taken' = waker
  /\ waker' = NoWaker
  /\ state' = "Done"
  /\ outcome' = got
  /\ worker' = "wake"
  /\ UNCHANGED <<mutex, got>>
  /\ UNCHANGED task

\* Critical section: take the waker of State::Waiting, store Done(Some(..)).
WorkerStore ==
  /\ worker = "store"
  /\ mutex = "free"
  /\ taken' = IF state = "Waiting" THEN waker ELSE NoWaker
  /\ waker' = NoWaker
  /\ state' = "Done"
  /\ outcome' = got
  /\ got' = NoOutcome
  /\ worker' = "wake"
  /\ UNCHANGED mutex
  /\ UNCHANGED task

\* (A bug would be to exit without the wake-up.)
BugNoWake ==
  /\ worker = "wake"
  /\ taken' = NoWaker
  /\ worker' = "exited"
  /\ UNCHANGED got
  /\ UNCHANGED cell
  /\ UNCHANGED task

\* After the unlock: wake the taken waker, if there was one, and exit.
WorkerWake ==
  /\ worker = "wake"
  /\ scheduled' = scheduled \cup ({taken} \cap Wakers)
  /\ taken' = NoWaker
  /\ worker' = "exited"
  /\ UNCHANGED got
  /\ UNCHANGED cell
  /\ UNCHANGED <<owner, ret, returned, dropped>>

-----------------------------------------------------------------------------
(***************************************************************************)
(* The tasks around the future.                                            *)
(***************************************************************************)

\* The future moves to another task (it is Send), which will poll it.
Move(w) ==
  /\ ~dropped
  /\ mutex = "free"
  /\ ret \in {"new", "pending"}
  /\ w # owner
  /\ owner' = w
  /\ scheduled' = scheduled \cup {w}
  /\ UNCHANGED <<ret, returned, dropped>>
  /\ UNCHANGED cell
  /\ UNCHANGED source

\* A scheduled task that does not own the future runs: the wake-up is spent.
RunOther(w) ==
  /\ w \in scheduled
  /\ w # owner
  /\ scheduled' = scheduled \ {w}
  /\ UNCHANGED <<owner, ret, returned, dropped>>
  /\ UNCHANGED cell
  /\ UNCHANGED source

\* Dropping the future leaves the worker alone: it owns its half of the Arc.
Drop ==
  /\ ~dropped
  /\ mutex = "free"
  /\ dropped' = TRUE
  /\ UNCHANGED <<owner, scheduled, ret, returned>>
  /\ UNCHANGED cell
  /\ UNCHANGED source

\* Every step but the ones that depend on the event source of the bridge.
CellCommon ==
  \/ PollEnter
  \/ PollStep
  \/ WorkerStore
  \/ WorkerWake
  \/ \E w \in Wakers : Move(w) \/ RunOther(w)
  \/ Drop

CellNext ==
  \/ CellCommon
  \/ \E o \in Outcomes : WorkerFetch(o)
  \/ WorkerDies

(***************************************************************************)
(* An executor runs the tasks it scheduled, a poll runs to its end, and    *)
(* the worker thread is scheduled by the OS.  Spurious polls may contend   *)
(* for the mutex for ever, so that the worker gets it needs strong         *)
(* fairness: a thread that finds the mutex free again and again locks it.  *)
(***************************************************************************)
PollScheduled == owner \in scheduled /\ PollEnter

CellFairness ==
  /\ WF_cellVars(PollScheduled)
  /\ WF_cellVars(PollStep)
  /\ SF_cellVars(WorkerStore)
  /\ WF_cellVars(WorkerWake)

CellSpec == CellInit /\ [][CellNext]_cellVars /\ CellFairness

-----------------------------------------------------------------------------
(***************************************************************************)
(* Properties.                                                             *)
(***************************************************************************)

\* A task that got Pending and that no pending run of its task covers.
Parked ==
  /\ ret = "pending"
  /\ ~dropped
  /\ mutex = "free"
  /\ owner \notin scheduled

\* future.rs: "a poll that observes Waiting can never miss the completion".  A
\* parked task is always reachable: its own waker is registered with a worker
\* that has yet to store, or is in the hand of the worker about to wake it --
\* also after the future moved between tasks and a stale waker was registered.
NoLostWakeup ==
  Parked =>
    \/ /\ state = "Waiting"
       /\ waker = owner
       /\ worker \in {"fetch", "store", "died"}
    \/ /\ state = "Done"
       /\ worker = "wake"
       /\ taken = owner

\* The outcome is in exactly one place: it is nowhere before the worker has
\* it, then in the worker's hand, then in the cell, then in the hand of the
\* task -- none is lost between the two sides and none is there twice.
OneOutcome ==
  \/ /\ worker \in {"none", "fetch", "died"} /\ state # "Done"
     /\ got = NoOutcome /\ outcome = NoOutcome /\ returned = <<>>
  \/ /\ worker = "store" /\ state = "Waiting"
     /\ got # NoOutcome /\ outcome = NoOutcome /\ returned = <<>>
  \/ /\ state = "Done" /\ got = NoOutcome
     /\ IF returned = <<>> THEN outcome # NoOutcome ELSE outcome = NoOutcome
  \/ /\ SpawnMayFail /\ state = "Done" /\ worker = "none"
     /\ got = NoOutcome /\ outcome = SpawnError /\ returned = <<SpawnError>>

\* "Fused": once Ready, the future never returns Ready again.
Fused == Len(returned) <= 1

\* The bridge is a one-shot future.  Its value is what is in the cell until a
\* poll returned it.
Promise ==
  INSTANCE OneShot WITH
    Outcomes  <- AllOutcomes,
    value     <- IF returned # <<>> THEN returned[1] ELSE outcome,
    delivered <- returned,
    abandoned <- dropped

ImplementsOneShot == Promise!Spec
=============================================================================
