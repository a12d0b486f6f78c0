---------------------------- MODULE Bridges_proofs ----------------------------
(***************************************************************************)
(* Proofs about BridgeCell and the three bridges over it, for every set of *)
(* tasks, values, events and answers: the cell loses no wake-up and no     *)
(* outcome and implements a one-shot future; java_future, from_callback    *)
(* and call_async are such cells, and what a poll returns is what Java     *)
(* did.  The bridges share nothing but the cell's module; a theorem is     *)
(* about one of them, and its specification is named in it.                *)
(***************************************************************************)
EXTENDS JavaFuture, CallbackFuture, AsyncCall, SequenceTheorems, TLAPS

-----------------------------------------------------------------------------
(***************************************************************************)
(* Proofs about the cell the bridges share: no wake-up is lost, the        *)
(* outcome is in one place, the future is fused, and the cell implements a *)
(* one-shot future.                                                        *)
(***************************************************************************)


\* The safety part of CellSpec, which the bridges' specifications imply.
CellSafety == CellInit /\ [][CellNext]_cellVars

\* Where the worker and the last poll may be in each variant of the state.
Phases ==
  /\ state = "Unstarted" => worker = "none" /\ ret = "new"
  /\ state = "Waiting" => worker \in {"fetch", "store", "died"}
  /\ state = "Done" => worker \in {"none", "wake", "exited"}
  /\ mutex = "poller" => ~dropped /\ Polls

\* The inductive invariant.
CellInv == CellTypeOK /\ Phases /\ NoLostWakeup /\ OneOutcome

USE DEF AllOutcomes, cell, task, source, cellVars

-----------------------------------------------------------------------------

\* The cell starts in the invariant.
LEMMA InvInit == CellInit => CellInv
<1> SUFFICES ASSUME CellInit PROVE CellInv
  OBVIOUS
<1> USE DEF CellInit
<1>1. CellTypeOK
  <2>1. scheduled \in SUBSET Wakers
    OBVIOUS
  <2>2. returned \in Seq(AllOutcomes)
    OBVIOUS
  <2> QED
    BY <2>1, <2>2 DEF CellTypeOK
<1>2. Phases
  BY DEF Phases, Polls
<1>3. NoLostWakeup
  BY DEF NoLostWakeup, Parked
<1>4. OneOutcome
  BY DEF OneOutcome
<1> QED
  BY <1>1, <1>2, <1>3, <1>4 DEF CellInv

\* Every step keeps the ranges of the variables.
LEMMA TypeStep == CellTypeOK /\ [CellNext]_cellVars => CellTypeOK'
<1> SUFFICES ASSUME CellTypeOK, [CellNext]_cellVars PROVE CellTypeOK'
  OBVIOUS
<1> USE WakersAssumption, OutcomesAssumption DEF CellTypeOK
<1>1. CASE PollEnter
  BY <1>1 DEF PollEnter
<1>2. CASE PollSpawn
  BY <1>2 DEF PollSpawn
<1>3. CASE PollSpawnFails
  BY <1>3 DEF PollSpawnFails, Return
<1>4. CASE PollPending
  BY <1>4 DEF PollPending, Return
<1>5. CASE PollReady
  BY <1>5 DEF PollReady, Return
<1>6. CASE PollPanics
  BY <1>6 DEF PollPanics, Return
<1>7. CASE \E o \in Outcomes : WorkerFetch(o)
  BY <1>7 DEF WorkerFetch
<1>8. CASE WorkerDies
  BY <1>8 DEF WorkerDies
<1>9. CASE WorkerStore
  BY <1>9 DEF WorkerStore
<1>10. CASE WorkerWake
  BY <1>10 DEF WorkerWake
<1>11. CASE \E w \in Wakers : Move(w)
  BY <1>11 DEF Move
<1>12. CASE \E w \in Wakers : RunOther(w)
  BY <1>12 DEF RunOther
<1>13. CASE Drop
  BY <1>13 DEF Drop
<1>14. CASE UNCHANGED cellVars
  BY <1>14
<1> QED
  BY <1>1, <1>2, <1>3, <1>4, <1>5, <1>6, <1>7, <1>8, <1>9, <1>10, <1>11,
     <1>12, <1>13, <1>14
  DEF CellNext, CellCommon, PollStep

\* Every step keeps the worker, the state and the last poll in phase.
LEMMA PhasesStep == CellTypeOK /\ Phases /\ [CellNext]_cellVars => Phases'
<1> SUFFICES ASSUME CellTypeOK, Phases, [CellNext]_cellVars PROVE Phases'
  OBVIOUS
<1> USE DEF CellTypeOK, Phases, Polls
<1>1. CASE PollEnter
  BY <1>1 DEF PollEnter
<1>2. CASE PollSpawn
  BY <1>2 DEF PollSpawn
<1>3. CASE PollSpawnFails
  BY <1>3 DEF PollSpawnFails, Return
<1>4. CASE PollPending
  BY <1>4 DEF PollPending, Return
<1>5. CASE PollReady
  BY <1>5 DEF PollReady, Return
<1>6. CASE PollPanics
  BY <1>6 DEF PollPanics, Return
<1>7. CASE \E o \in Outcomes : WorkerFetch(o)
  BY <1>7 DEF WorkerFetch
<1>8. CASE WorkerDies
  BY <1>8 DEF WorkerDies
<1>9. CASE WorkerStore
  BY <1>9 DEF WorkerStore
<1>10. CASE WorkerWake
  BY <1>10 DEF WorkerWake
<1>11. CASE \E w \in Wakers : Move(w)
  BY <1>11 DEF Move
<1>12. CASE \E w \in Wakers : RunOther(w)
  BY <1>12 DEF RunOther
<1>13. CASE Drop
  BY <1>13 DEF Drop
<1>14. CASE UNCHANGED cellVars
  BY <1>14
<1> QED
  BY <1>1, <1>2, <1>3, <1>4, <1>5, <1>6, <1>7, <1>8, <1>9, <1>10, <1>11,
     <1>12, <1>13, <1>14
  DEF CellNext, CellCommon, PollStep

\* No step loses a wake-up: a task parks only after it registered its waker.
LEMMA WakeupStep ==
  CellTypeOK /\ Phases /\ NoLostWakeup /\ [CellNext]_cellVars => NoLostWakeup'
<1> SUFFICES ASSUME CellTypeOK, Phases, NoLostWakeup, [CellNext]_cellVars
             PROVE  NoLostWakeup'
  OBVIOUS
<1> USE WakersAssumption DEF CellTypeOK, Phases, NoLostWakeup, Parked
<1>1. CASE PollEnter
  BY <1>1 DEF PollEnter
<1>2. CASE PollSpawn
  BY <1>2 DEF PollSpawn
<1>3. CASE PollSpawnFails
  BY <1>3 DEF PollSpawnFails, Return
<1>4. CASE PollPending
  BY <1>4 DEF PollPending, Return, ShouldUpdate
<1>5. CASE PollReady
  BY <1>5 DEF PollReady, Return
<1>6. CASE PollPanics
  BY <1>6 DEF PollPanics, Return
<1>7. CASE \E o \in Outcomes : WorkerFetch(o)
  BY <1>7 DEF WorkerFetch
<1>8. CASE WorkerDies
  BY <1>8 DEF WorkerDies
<1>9. CASE WorkerStore
  BY <1>9 DEF WorkerStore
<1>10. CASE WorkerWake
  BY <1>10 DEF WorkerWake
<1>11. CASE \E w \in Wakers : Move(w)
  BY <1>11 DEF Move
<1>12. CASE \E w \in Wakers : RunOther(w)
  BY <1>12 DEF RunOther
<1>13. CASE Drop
  BY <1>13 DEF Drop
<1>14. CASE UNCHANGED cellVars
  BY <1>14
<1> QED
  BY <1>1, <1>2, <1>3, <1>4, <1>5, <1>6, <1>7, <1>8, <1>9,
     <1>10, <1>11, <1>12, <1>13, <1>14
  DEF CellNext, CellCommon, PollStep

\* No step loses the outcome or makes a second one.
LEMMA OutcomeStep ==
  CellTypeOK /\ Phases /\ OneOutcome /\ [CellNext]_cellVars => OneOutcome'
<1> SUFFICES ASSUME CellTypeOK, Phases, OneOutcome, [CellNext]_cellVars
             PROVE  OneOutcome'
  OBVIOUS
<1> USE OutcomesAssumption DEF CellTypeOK, Phases, OneOutcome
<1>1. CASE PollEnter
  BY <1>1 DEF PollEnter
<1>2. CASE PollSpawn
  BY <1>2 DEF PollSpawn
<1>3. CASE PollSpawnFails
  BY <1>3 DEF PollSpawnFails, Return
<1>4. CASE PollPending
  BY <1>4 DEF PollPending, Return, ShouldUpdate
<1>5. CASE PollReady
  <2>1. outcome # NoOutcome /\ state' = "Done" /\ got' = got /\ outcome' = NoOutcome
    BY <1>5 DEF PollReady
  <2>2. returned' = Append(returned, outcome)
    BY <1>5 DEF PollReady, Return
  <2>3. returned' # <<>>
    BY <2>2
  <2>4. got = NoOutcome
    BY <1>5 DEF PollReady
  <2> QED
    BY <2>1, <2>3, <2>4
<1>6. CASE PollPanics
  BY <1>6 DEF PollPanics, Return
<1>7. CASE \E o \in Outcomes : WorkerFetch(o)
  BY <1>7 DEF WorkerFetch
<1>8. CASE WorkerDies
  BY <1>8 DEF WorkerDies
<1>9. CASE WorkerStore
  BY <1>9 DEF WorkerStore
<1>10. CASE WorkerWake
  BY <1>10 DEF WorkerWake
<1>11. CASE \E w \in Wakers : Move(w)
  BY <1>11 DEF Move
<1>12. CASE \E w \in Wakers : RunOther(w)
  BY <1>12 DEF RunOther
<1>13. CASE Drop
  BY <1>13 DEF Drop
<1>14. CASE UNCHANGED cellVars
  BY <1>14
<1> QED
  BY <1>1, <1>2, <1>3, <1>4, <1>5, <1>6, <1>7, <1>8, <1>9,
     <1>10, <1>11, <1>12, <1>13, <1>14
  DEF CellNext, CellCommon, PollStep

-----------------------------------------------------------------------------

\* The invariant holds in every reachable state.
THEOREM Invariance == CellSafety => []CellInv
<1>1. CellInv /\ [CellNext]_cellVars => CellInv'
  BY TypeStep, PhasesStep, WakeupStep, OutcomeStep DEF CellInv
<1> QED
  BY InvInit, <1>1, PTL DEF CellSafety

LEMMA SpecIsSafe == CellSpec => CellSafety
BY PTL DEF CellSpec, CellSafety

\* The variables keep their ranges: the variant of the state has its payload
\* and no other.
THEOREM TypeCorrect == CellSpec => []CellTypeOK
<1>1. CellInv => CellTypeOK
  BY DEF CellInv
<1> QED
  BY Invariance, SpecIsSafe, <1>1, PTL

\* A parked task is always reachable by the worker, for any number of tasks
\* the future moves between.
THEOREM WakeupIsNotLost == CellSpec => []NoLostWakeup
<1>1. CellInv => NoLostWakeup
  BY DEF CellInv
<1> QED
  BY Invariance, SpecIsSafe, <1>1, PTL

\* The outcome is in exactly one place.
THEOREM OutcomeIsUnique == CellSpec => []OneOutcome
<1>1. CellInv => OneOutcome
  BY DEF CellInv
<1> QED
  BY Invariance, SpecIsSafe, <1>1, PTL

-----------------------------------------------------------------------------
(***************************************************************************)
(* The future is fused, and implements a one-shot future, unless threads   *)
(* may be refused and the executor polls again after a refusal.            *)
(***************************************************************************)

Contract == ~(SpawnMayFail /\ "refusal" \in Repoll)

\* At most one outcome was returned, and none before the last poll was Ready.
Once ==
  /\ returned = <<>> \/ \E o \in AllOutcomes : returned = <<o>>
  /\ returned # <<>> => ret \in {"ready", "panicked"}

\* No step returns a second outcome.
LEMMA OnceStep ==
  Contract /\ CellInv /\ Once /\ [CellNext]_cellVars => Once'
<1> SUFFICES ASSUME Contract, CellInv, Once, [CellNext]_cellVars
             PROVE  Once'
  OBVIOUS
<1> USE DEF CellInv, CellTypeOK, Phases, Polls, OneOutcome, Contract, Once
<1>1. CASE PollEnter
  BY <1>1 DEF PollEnter
<1>2. CASE PollSpawn
  BY <1>2 DEF PollSpawn
<1>3. CASE PollSpawnFails
  <2>1. returned = <<>>
    BY <1>3 DEF PollSpawnFails
  <2>2. returned' = <<SpawnError>> /\ ret' = "ready"
    BY <1>3, <2>1 DEF PollSpawnFails, Return
  <2> QED
    BY <2>2
<1>4. CASE PollPending
  BY <1>4 DEF PollPending, Return, ShouldUpdate
<1>5. CASE PollReady
  <2>1. returned = <<>> /\ outcome \in AllOutcomes
    BY <1>5 DEF PollReady
  <2>2. returned' = <<outcome>> /\ ret' = "ready"
    BY <1>5, <2>1 DEF PollReady, Return
  <2> QED
    BY <2>1, <2>2
<1>6. CASE PollPanics
  BY <1>6 DEF PollPanics, Return
<1>7. CASE \E o \in Outcomes : WorkerFetch(o)
  BY <1>7 DEF WorkerFetch
<1>8. CASE WorkerDies
  BY <1>8 DEF WorkerDies
<1>9. CASE WorkerStore
  BY <1>9 DEF WorkerStore
<1>10. CASE WorkerWake
  BY <1>10 DEF WorkerWake
<1>11. CASE \E w \in Wakers : Move(w)
  BY <1>11 DEF Move
<1>12. CASE \E w \in Wakers : RunOther(w)
  BY <1>12 DEF RunOther
<1>13. CASE Drop
  BY <1>13 DEF Drop
<1>14. CASE UNCHANGED cellVars
  BY <1>14
<1> QED
  BY <1>1, <1>2, <1>3, <1>4, <1>5, <1>6, <1>7, <1>8, <1>9,
     <1>10, <1>11, <1>12, <1>13, <1>14
  DEF CellNext, CellCommon, PollStep

LEMMA OnceHolds == Contract /\ CellSafety => [](CellInv /\ Once)
<1>1. CellInit => Once
  BY DEF CellInit, Once
<1> SUFFICES ASSUME Contract PROVE CellSafety => [](CellInv /\ Once)
  OBVIOUS
<1>2. CellInv /\ Once /\ [CellNext]_cellVars => Once'
  BY OnceStep
<1> QED
  BY Invariance, <1>1, <1>2, PTL DEF CellSafety

\* Once Ready, the future never returns Ready again.
THEOREM FutureIsFused == Contract => (CellSpec => []Fused)
<1> SUFFICES ASSUME Contract PROVE CellSpec => []Fused
  OBVIOUS
<1>1. Once => Fused
  <2> SUFFICES ASSUME Once PROVE Fused
    OBVIOUS
  <2>1. CASE returned = <<>>
    BY <2>1 DEF Fused
  <2>2. CASE \E o \in AllOutcomes : returned = <<o>>
    BY <2>2 DEF Fused
  <2> QED
    BY <2>1, <2>2 DEF Once
<1> QED
  BY OnceHolds, SpecIsSafe, <1>1, PTL

\* The start of the cell is the start of a one-shot future.
LEMMA PromiseInit == CellInit => Promise!Init
BY DEF CellInit, Promise!Init

\* Every step of the cell is a step of the one-shot future, or none.
LEMMA PromiseStep ==
  CellInv /\ Once /\ Once' /\ Contract /\ [CellNext]_cellVars
    => [Promise!Next]_(Promise!vars)
<1> SUFFICES ASSUME CellInv, Once, Once', Contract, [CellNext]_cellVars
             PROVE  [Promise!Next]_(Promise!vars)
  OBVIOUS
<1> USE OutcomesAssumption
<1> USE DEF CellInv, CellTypeOK, Phases, Polls, OneOutcome, Contract, Promise!vars
<1>1. CASE PollEnter
  BY <1>1 DEF PollEnter
<1>2. CASE PollSpawn
  BY <1>2 DEF PollSpawn
<1>3. CASE PollSpawnFails
  <2>1. returned = <<>> /\ outcome = NoOutcome /\ ~dropped
    BY <1>3 DEF PollSpawnFails
  <2>2. returned' = <<SpawnError>> /\ dropped' = dropped
    BY <1>3, <2>1 DEF PollSpawnFails, Return
  <2>3. Promise!FailFast(SpawnError)
    BY <2>1, <2>2 DEF Promise!FailFast
  <2> QED
    BY <2>3 DEF Promise!Next
<1>4. CASE PollPending
  BY <1>4 DEF PollPending, Return
<1>5. CASE PollReady
  <2>1. outcome # NoOutcome /\ ~dropped
    BY <1>5 DEF PollReady
  <2>2. returned = <<>>
    BY <1>5 DEF PollReady, Once
  <2>3. returned' = <<outcome>> /\ dropped' = dropped
    BY <1>5, <2>2 DEF PollReady, Return
  <2>4. Promise!Deliver
    BY <2>1, <2>2, <2>3 DEF Promise!Deliver
  <2> QED
    BY <2>4 DEF Promise!Next
<1>6. CASE PollPanics
  BY <1>6 DEF PollPanics, Return
<1>7. CASE \E o \in Outcomes : WorkerFetch(o)
  BY <1>7 DEF WorkerFetch
<1>8. CASE WorkerDies
  BY <1>8 DEF WorkerDies
<1>9. CASE WorkerStore
  <2>1. returned = <<>> /\ outcome = NoOutcome /\ got \in AllOutcomes
    BY <1>9 DEF WorkerStore
  <2>2. returned' = <<>> /\ outcome' = got /\ dropped' = dropped
    BY <1>9, <2>1 DEF WorkerStore
  <2>3. Promise!Resolve(got)
    BY <2>1, <2>2 DEF Promise!Resolve
  <2> QED
    BY <2>1, <2>3 DEF Promise!Next
<1>10. CASE WorkerWake
  BY <1>10 DEF WorkerWake
<1>11. CASE \E w \in Wakers : Move(w)
  BY <1>11 DEF Move
<1>12. CASE \E w \in Wakers : RunOther(w)
  BY <1>12 DEF RunOther
<1>13. CASE Drop
  BY <1>13 DEF Drop, Promise!Next, Promise!Abandon
<1>14. CASE UNCHANGED cellVars
  BY <1>14
<1> QED
  BY <1>1, <1>2, <1>3, <1>4, <1>5, <1>6, <1>7, <1>8, <1>9,
     <1>10, <1>11, <1>12, <1>13, <1>14
  DEF CellNext, CellCommon, PollStep

\* Whatever behaves as the cell is a one-shot future.
LEMMA SafetyIsOneShot == Contract => (CellSafety => ImplementsOneShot)
<1> SUFFICES ASSUME Contract PROVE CellSafety => ImplementsOneShot
  OBVIOUS
<1>1. CellInv /\ Once /\ Once' /\ [CellNext]_cellVars => [Promise!Next]_(Promise!vars)
  BY PromiseStep
<1> QED
  BY OnceHolds, PromiseInit, <1>1, PTL DEF CellSafety, ImplementsOneShot, Promise!Spec

\* The cell implements the one-shot future.
THEOREM CellImplementsOneShot == Contract => (CellSpec => ImplementsOneShot)
BY SafetyIsOneShot, SpecIsSafe, PTL

-----------------------------------------------------------------------------
(***************************************************************************)
(* Proofs about java_future: it is a bridge in the sense of BridgeCell, so *)
(* that what is proved there holds for it, and what a poll returns was     *)
(* determined by how Java completed the future.                            *)
(***************************************************************************)

USE DEF AllOutcomes, cell, task, source, cellVars, javaVars, javaFutureVars

-----------------------------------------------------------------------------
(***************************************************************************)
(* The outcomes of the worker are outcomes of the cell.                    *)
(***************************************************************************)

\* What the conversion gives is an outcome of the bridge.
LEMMA ConvertValueType ==
  ASSUME NEW a \in Annotations, NEW v \in Values \cup {Null}
  PROVE  ConvertValue(a, v) \in Outcomes
<1>1. Ok(v) \in JavaOutcomes /\ NullRejected \in JavaOutcomes /\ TypeRejected \in JavaOutcomes
  BY DEF JavaOutcomes
<1>2. Ok(Null) \in JavaOutcomes
  BY DEF JavaOutcomes
<1>3. ConvertValue(a, v) \in {Ok(v), Ok(Null), NullRejected, TypeRejected}
  BY DEF ConvertValue
<1> QED
  BY <1>1, <1>2, <1>3, JavaOutcomesAssumption

\* What the unwrapping gives is an outcome of the bridge.
LEMMA ExceptionErrorType ==
  ASSUME NEW t \in Throwables
  PROVE  ExceptionError(Thrown(t)) \in Outcomes
<1>1. CauseOf[t] \in Throwables \cup {NoThrowable}
  BY JavaFutureAssumption
<1>2. \E u \in Throwables \cup {ExecutionException} :
        ExceptionError(Thrown(t)) = Exception(u)
  BY <1>1 DEF ExceptionError, Thrown
<1> QED
  BY <1>2, JavaOutcomesAssumption DEF JavaOutcomes

-----------------------------------------------------------------------------

\* The completion of the Java future and the annotation.
JavaTypeOK == cf \in Completions \cup {Pending} /\ annotation \in Annotations

LEMMA JavaTypeInit == JavaInit => JavaTypeOK
BY DEF JavaInit, JavaTypeOK

LEMMA JavaTypeStep == JavaTypeOK /\ [JavaNext]_javaFutureVars => JavaTypeOK'
BY DEF JavaTypeOK, JavaNext, CfComplete, AttachFails, FetchCompletion, FetchValue,
       FetchFailure, ConversionPanics

\* Every step of java_future is a step of the cell, or leaves it alone.
LEMMA JavaStepIsCellStep ==
  JavaTypeOK /\ [JavaNext]_javaFutureVars => [CellNext]_cellVars
<1> SUFFICES ASSUME JavaTypeOK, [JavaNext]_javaFutureVars PROVE [CellNext]_cellVars
  OBVIOUS
<1>1. CASE \E c \in Completions : CfComplete(c)
  BY <1>1 DEF CfComplete
<1>2. CASE AttachFails
  <2>1. NotAttached \in Outcomes
    BY JavaOutcomesAssumption DEF JavaOutcomes
  <2> QED
    BY <1>2, <2>1 DEF AttachFails, CellNext
<1>3. CASE FetchValue
  <2>1. cf.of \in Values \cup {Null}
    BY <1>3 DEF FetchValue, JavaTypeOK, Completions, Pending
  <2>2. ConvertValue(annotation, cf.of) \in Outcomes
    BY <2>1, ConvertValueType DEF JavaTypeOK
  <2> QED
    BY <1>3, <2>2 DEF FetchValue, CellNext
<1>4. CASE FetchFailure
  <2>1. cf.of \in Throwables
    BY <1>4 DEF FetchFailure, JavaTypeOK, Completions, Pending
  <2>2. ExceptionError(Thrown(cf.of)) \in Outcomes
    BY <2>1, ExceptionErrorType
  <2> QED
    BY <1>4, <2>2 DEF FetchFailure, CellNext
<1>5. CASE ConversionPanics
  BY <1>5 DEF ConversionPanics, CellNext
<1>6. CASE CellCommon
  BY <1>6 DEF CellNext
<1>7. CASE UNCHANGED javaFutureVars
  BY <1>7
<1> QED
  BY <1>1, <1>2, <1>3, <1>4, <1>5, <1>6, <1>7 DEF JavaNext, FetchCompletion

\* java_future has the safety properties of the cell.
THEOREM JavaFutureIsCell == JavaSpec => CellSafety /\ []JavaTypeOK
<1>1. JavaInit => CellInit
  BY DEF JavaInit
<1> QED
  BY <1>1, JavaTypeInit, JavaTypeStep, JavaStepIsCellStep, PTL DEF JavaSpec, CellSafety

\* The variables of java_future keep their ranges.
THEOREM JavaTypeCorrect == JavaSpec => []TypeOK
<1>1. CellInv /\ JavaTypeOK => TypeOK
  BY DEF CellInv, JavaTypeOK, TypeOK
<1> QED
  BY JavaFutureIsCell, Invariance, <1>1, PTL

\* A CompletableFuture awaited from Rust is a one-shot future: its outcome is
\* fixed once, delivered at most once and never after a drop, whatever Java does
\* to it, unless a poll goes past the Ready of a refused thread.
THEOREM JavaFutureIsOneShot == Contract => (JavaSpec => ImplementsOneShot)
BY JavaFutureIsCell, SafetyIsOneShot, PTL

\* A task that awaits a CompletableFuture is never parked out of reach.
THEOREM JavaWakeupIsNotLost == JavaSpec => []NoLostWakeup
<1>1. CellInv => NoLostWakeup
  BY DEF CellInv
<1> QED
  BY JavaFutureIsCell, Invariance, <1>1, PTL

-----------------------------------------------------------------------------
(***************************************************************************)
(* What is delivered is explained by the completion.                       *)
(***************************************************************************)

Explanations == {SpawnError, NotAttached} \cup Documented(annotation, cf)

\* Wherever an outcome is on its way to the task, it is explained.
AllExplained ==
  /\ got \in Explanations \cup {NoOutcome}
  /\ outcome \in Explanations \cup {NoOutcome}
  /\ returned \in Seq(Explanations)

\* The conversion gives what the docs say of a value.
LEMMA ConvertValueIsDocumented ==
  ASSUME NEW a \in Annotations, NEW c \in Completions, c.kind = "value"
  PROVE  ConvertValue(a, c.of) \in Documented(a, c)
<1>1. c # Pending /\ c.kind # "failed"
  BY DEF Pending
<1>2. CASE c.of # Null
  <2>1. Documented(a, c) = {Ok(c.of), TypeRejected}
    BY <1>1, <1>2 DEF Documented
  <2>2. ConvertValue(a, c.of) \in {Ok(c.of), TypeRejected}
    BY <1>2 DEF ConvertValue
  <2> QED
    BY <2>1, <2>2
<1>3. CASE c.of = Null
  <2>1. Null \notin Convertible
    BY JavaFutureAssumption
  <2>2. a \in {"i32", "Option<i32>", "String", "Option<String>"}
    BY JavaFutureAssumption
  <2>3. CASE a = "Option<String>"
    BY <1>1, <1>3, <2>3 DEF Documented, ConvertValue, UnboxesFirst
  <2>4. CASE a = "Option<i32>"
    BY <1>1, <1>3, <2>4 DEF Documented, ConvertValue, UnboxesFirst
  <2>5. CASE a = "i32"
    <3>1. Documented(a, c) = {NullRejected}
      BY <1>1, <1>3, <2>5 DEF Documented
    <3>2. ConvertValue(a, c.of) = NullRejected
      BY <1>3, <2>1, <2>5 DEF ConvertValue, UnboxesFirst
    <3> QED
      BY <3>1, <3>2
  <2>6. CASE a = "String"
    <3>1. Documented(a, c) = {NullRejected}
      BY <1>1, <1>3, <2>6 DEF Documented
    <3>2. ConvertValue(a, c.of) = NullRejected
      BY <1>3, <2>1, <2>6 DEF ConvertValue, UnboxesFirst
    <3> QED
      BY <3>1, <3>2
  <2> QED
    BY <2>2, <2>3, <2>4, <2>5, <2>6
<1> QED
  BY <1>2, <1>3

\* The unwrapping gives what the docs say of a failure.
LEMMA ExceptionErrorIsDocumented ==
  ASSUME NEW c \in Completions, c.kind = "failed"
  PROVE  ExceptionError(Thrown(c.of)) \in Documented(annotation, c)
<1>1. c # Pending /\ c.kind # "value"
  BY DEF Pending
<1>2. c.of \in Throwables
  BY DEF Completions
<1>3. c.of # NoThrowable
  BY <1>2, JavaFutureAssumption
<1>4. CASE c.of \in Cancellations
  <2>1. Documented(annotation, c) =
          {IF CauseOf[c.of] = NoThrowable
             THEN Exception(c.of) ELSE Exception(CauseOf[c.of])}
    BY <1>1, <1>4 DEF Documented
  <2> QED
    BY <1>4, <2>1 DEF ExceptionError, Thrown
<1>5. CASE c.of \notin Cancellations
  <2>1. Documented(annotation, c) = {Exception(c.of)}
    BY <1>1, <1>5 DEF Documented
  <2> QED
    BY <1>3, <1>5, <2>1 DEF ExceptionError, Thrown
<1> QED
  BY <1>4, <1>5

LEMMA ExplainedInit == JavaInit => AllExplained
BY DEF JavaInit, CellInit, AllExplained

\* A step that only moves outcomes keeps them explained.
LEMMA MovesExplained ==
  ASSUME CellTypeOK, AllExplained, CellCommon, UNCHANGED javaVars
  PROVE  AllExplained'
<1>1. Explanations' = Explanations
  BY DEF Explanations
<1> USE DEF CellTypeOK, AllExplained
<1>2. CASE PollEnter
  BY <1>1, <1>2 DEF PollEnter
<1>3. CASE PollSpawn
  BY <1>1, <1>3 DEF PollSpawn
<1>4. CASE PollSpawnFails
  <2>1. returned' = Append(returned, SpawnError) /\ got' = got /\ outcome' = SpawnError
    BY <1>4 DEF PollSpawnFails, Return
  <2>2. SpawnError \in Explanations
    BY DEF Explanations
  <2> QED
    BY <1>1, <2>1, <2>2
<1>5. CASE PollPending
  BY <1>1, <1>5 DEF PollPending, Return
<1>6. CASE PollReady
  <2>1. returned' = Append(returned, outcome) /\ got' = got /\ outcome' = NoOutcome
    BY <1>6 DEF PollReady, Return
  <2>2. outcome \in Explanations
    BY <1>6 DEF PollReady
  <2> QED
    BY <1>1, <2>1, <2>2
<1>7. CASE PollPanics
  BY <1>1, <1>7 DEF PollPanics, Return
<1>8. CASE WorkerStore
  BY <1>1, <1>8 DEF WorkerStore
<1>9. CASE WorkerWake
  BY <1>1, <1>9 DEF WorkerWake
<1>10. CASE \E w \in Wakers : Move(w)
  BY <1>1, <1>10 DEF Move
<1>11. CASE \E w \in Wakers : RunOther(w)
  BY <1>1, <1>11 DEF RunOther
<1>12. CASE Drop
  BY <1>1, <1>12 DEF Drop
<1> QED
  BY <1>2, <1>3, <1>4, <1>5, <1>6, <1>7, <1>8, <1>9, <1>10, <1>11, <1>12
  DEF CellCommon, PollStep

LEMMA ExplainedStep ==
  CellTypeOK /\ JavaTypeOK /\ AllExplained /\ [JavaNext]_javaFutureVars
    => AllExplained'
<1> SUFFICES ASSUME CellTypeOK, JavaTypeOK, AllExplained, [JavaNext]_javaFutureVars
             PROVE  AllExplained'
  OBVIOUS
<1>1. CASE \E c \in Completions : CfComplete(c)
  <2>1. Documented(annotation, cf) = {}
    BY <1>1 DEF CfComplete, Documented, Pending
  <2>2. Explanations \subseteq Explanations'
    BY <2>1 DEF Explanations
  <2>3. returned \in Seq(Explanations')
    <3>1. returned \in Seq(Explanations)
      BY DEF AllExplained
    <3> QED
      BY <2>2, <3>1, SeqMonotonic, Zenon
  <2> QED
    BY <1>1, <2>2, <2>3 DEF CfComplete, AllExplained
<1>2. CASE AttachFails
  <2>1. Explanations' = Explanations /\ NotAttached \in Explanations
    BY <1>2 DEF AttachFails, Explanations
  <2> QED
    BY <1>2, <2>1 DEF AttachFails, WorkerFetch, AllExplained
<1>3. CASE FetchValue
  <2>1. cf \in Completions
    BY <1>3 DEF FetchValue, JavaTypeOK, Pending
  <2>2. ConvertValue(annotation, cf.of) \in Explanations
    BY <1>3, <2>1, ConvertValueIsDocumented DEF FetchValue, JavaTypeOK, Explanations
  <2>3. Explanations' = Explanations
    BY <1>3 DEF FetchValue, Explanations
  <2> QED
    BY <1>3, <2>2, <2>3 DEF FetchValue, WorkerFetch, AllExplained
<1>4. CASE FetchFailure
  <2>1. cf \in Completions
    BY <1>4 DEF FetchFailure, JavaTypeOK, Pending
  <2>2. ExceptionError(Thrown(cf.of)) \in Explanations
    BY <1>4, <2>1, ExceptionErrorIsDocumented DEF FetchFailure, Explanations
  <2>3. Explanations' = Explanations
    BY <1>4 DEF FetchFailure, Explanations
  <2> QED
    BY <1>4, <2>2, <2>3 DEF FetchFailure, WorkerFetch, AllExplained
<1>5. CASE ConversionPanics
  <2>1. Explanations' = Explanations
    BY <1>5 DEF ConversionPanics, Explanations
  <2> QED
    BY <1>5, <2>1 DEF ConversionPanics, WorkerDies, AllExplained
<1>6. CASE CellCommon /\ UNCHANGED javaVars
  BY <1>6, MovesExplained
<1>7. CASE UNCHANGED javaFutureVars
  BY <1>7 DEF AllExplained, Explanations
<1> QED
  BY <1>1, <1>2, <1>3, <1>4, <1>5, <1>6, <1>7 DEF JavaNext, FetchCompletion

\* What the awaiting task receives is what the docs say of the way Java
\* completed the future, for any values, exceptions and annotations.
THEOREM DeliveryIsFaithful == JavaSpec => []DeliversTheCompletion
<1>1. CellInv => CellTypeOK
  BY DEF CellInv
<1>2. AllExplained => DeliversTheCompletion
  BY DEF AllExplained, Explanations, DeliversTheCompletion
<1> QED
  BY JavaFutureIsCell, Invariance, ExplainedInit, ExplainedStep, <1>1, <1>2, PTL
  DEF JavaSpec

-----------------------------------------------------------------------------
(***************************************************************************)
(* Proofs about rx::from_callback, for every set of tasks and events: it   *)
(* is a bridge in the sense of BridgeCell, the first event is what a poll  *)
(* returns, and a send is refused only when nobody waits any more.         *)
(***************************************************************************)

USE DEF AllOutcomes, cell, task, source, cellVars, chanVars, callbackVars

-----------------------------------------------------------------------------

\* The channel and the history of what it accepted.
ChanTypeOK ==
  /\ chan \in Seq(Events)
  /\ sent \in Seq(Events)
  /\ handler \in BOOLEAN
  /\ refused \in BOOLEAN

LEMMA ChanTypeStep == ChanTypeOK /\ [CallbackNext]_callbackVars => ChanTypeOK'
<1> SUFFICES ASSUME ChanTypeOK, [CallbackNext]_callbackVars PROVE ChanTypeOK'
  OBVIOUS
<1> USE DEF ChanTypeOK
<1>1. ASSUME NEW e \in Events, Send(e) PROVE ChanTypeOK'
  <2>1. \/ chan' = chan /\ sent' = sent
        \/ chan' = Append(chan, e) /\ sent' = Append(sent, e)
    BY <1>1, Zenon DEF Send
  <2>2. chan' \in Seq(Events) /\ sent' \in Seq(Events)
    <3>1. chan \in Seq(Events) /\ sent \in Seq(Events)
      OBVIOUS
    <3>2. Append(chan, e) \in Seq(Events) /\ Append(sent, e) \in Seq(Events)
      BY <3>1, AppendProperties
    <3> QED
      BY <2>1, <3>1, <3>2
  <2>3. handler' = handler /\ (refused' = refused \/ refused' = TRUE)
    BY <1>1 DEF Send
  <2> QED
    BY <2>2, <2>3
<1>2. CASE ReleaseHandler
  BY <1>2 DEF ReleaseHandler
<1>3. CASE ReceiveEvent
  BY <1>3 DEF ReceiveEvent
<1>4. CASE ReceiveClosed
  BY <1>4 DEF ReceiveClosed
<1>5. CASE UNCHANGED chanVars
  BY <1>5
<1> QED
  BY <1>1, <1>2, <1>3, <1>4, <1>5 DEF CallbackNext, Receive

\* A step of from_callback is a step of the cell, or leaves it alone.  Nothing
\* in this worker dies.
CallbackStep == CellCommon \/ \E o \in Outcomes : WorkerFetch(o)

LEMMA CallbackStepIsCellStep ==
  ChanTypeOK /\ [CallbackNext]_callbackVars => [CallbackStep]_cellVars
<1> SUFFICES ASSUME ChanTypeOK, [CallbackNext]_callbackVars
             PROVE  [CallbackStep]_cellVars
  OBVIOUS
<1> USE DEF CallbackStep
<1>1. ASSUME NEW e \in Events, Send(e) PROVE UNCHANGED cellVars
  BY <1>1 DEF Send
<1>2. CASE ReleaseHandler
  BY <1>2 DEF ReleaseHandler
<1>3. CASE ReceiveEvent
  <2>1. Head(chan) \in Outcomes
    BY <1>3, CallbackAssumption DEF ReceiveEvent, ChanTypeOK
  <2> QED
    BY <1>3, <2>1 DEF ReceiveEvent
<1>4. CASE ReceiveClosed
  BY <1>4, CallbackAssumption DEF ReceiveClosed
<1>5. CASE CellCommon
  BY <1>5
<1>6. CASE UNCHANGED callbackVars
  BY <1>6
<1> QED
  BY <1>1, <1>2, <1>3, <1>4, <1>5, <1>6 DEF CallbackNext, Receive

\* from_callback has the safety properties of the cell.
THEOREM CallbackIsCell == CallbackSpec => CellSafety /\ []ChanTypeOK
<1>1. CallbackInit => CellInit /\ ChanTypeOK
  <2> SUFFICES ASSUME CallbackInit PROVE CellInit /\ ChanTypeOK
    OBVIOUS
  <2>1. chan \in Seq(Events) /\ sent \in Seq(Events)
    BY DEF CallbackInit
  <2>2. handler \in BOOLEAN /\ refused \in BOOLEAN
    BY DEF CallbackInit
  <2> QED
    BY <2>1, <2>2 DEF CallbackInit, ChanTypeOK
<1>2. [CallbackStep]_cellVars => [CellNext]_cellVars
  BY DEF CallbackStep, CellNext
<1> QED
  BY <1>1, <1>2, ChanTypeStep, CallbackStepIsCellStep, PTL DEF CallbackSpec, CellSafety

-----------------------------------------------------------------------------
(***************************************************************************)
(* The first event.                                                        *)
(***************************************************************************)
First == IF sent = <<>> THEN Closed ELSE sent[1]

\* Until the worker received, nothing left the channel; once it did, what is
\* first is settled: there is an event, or nobody is left to send one.
Settled == sent # <<>> \/ ~handler

FirstIsKept ==
  /\ worker \in {"none", "fetch"} =>
       /\ chan = sent
       /\ got = NoOutcome
       /\ outcome \in {NoOutcome, SpawnError}
       /\ returned \in Seq({SpawnError})
  /\ worker \notin {"none", "fetch"} => Settled
  /\ got \in {NoOutcome, First}
  /\ outcome \in {NoOutcome, SpawnError, First}
  /\ returned \in Seq({SpawnError, First})

LEMMA FirstInit == CallbackInit => FirstIsKept
BY DEF CallbackInit, CellInit, FirstIsKept

\* The steps of the cell pass on what they have.
LEMMA MovesKeepFirst ==
  ASSUME CellTypeOK, Phases, FirstIsKept, CellCommon, UNCHANGED chanVars
  PROVE  FirstIsKept'
<1>1. First' = First /\ Settled' = Settled
  BY DEF First, Settled
<1> USE DEF CellTypeOK, FirstIsKept
<1>2. CASE PollEnter
  BY <1>1, <1>2 DEF PollEnter
<1>3. CASE PollSpawn
  BY <1>1, <1>3 DEF PollSpawn, Phases
<1>4. CASE PollSpawnFails
  BY <1>1, <1>4 DEF PollSpawnFails, Return
<1>5. CASE PollPending
  BY <1>1, <1>5 DEF PollPending, Return
<1>6. CASE PollReady
  BY <1>1, <1>6 DEF PollReady, Return
<1>7. CASE PollPanics
  BY <1>1, <1>7 DEF PollPanics, Return
<1>8. CASE WorkerStore
  BY <1>1, <1>8 DEF WorkerStore
<1>9. CASE WorkerWake
  BY <1>1, <1>9 DEF WorkerWake
<1>10. CASE \E w \in Wakers : Move(w)
  BY <1>1, <1>10 DEF Move
<1>11. CASE \E w \in Wakers : RunOther(w)
  BY <1>1, <1>11 DEF RunOther
<1>12. CASE Drop
  BY <1>1, <1>12 DEF Drop
<1> QED
  BY <1>2, <1>3, <1>4, <1>5, <1>6, <1>7, <1>8, <1>9, <1>10, <1>11, <1>12
  DEF CellCommon, PollStep

LEMMA FirstStep ==
  CellTypeOK /\ Phases /\ ChanTypeOK /\ FirstIsKept /\ [CallbackNext]_callbackVars
    => FirstIsKept'
<1> SUFFICES ASSUME CellTypeOK, Phases, ChanTypeOK, FirstIsKept,
                    [CallbackNext]_callbackVars
             PROVE  FirstIsKept'
  OBVIOUS
<1>1. ASSUME NEW e \in Events, Send(e) PROVE FirstIsKept'
  <2>1. UNCHANGED cellVars
    BY <1>1 DEF Send
  <2>2. CASE sent' = sent
    BY <1>1, <2>1, <2>2 DEF Send, FirstIsKept, First, Settled, ReceiverAlive
  <2>3. CASE sent' # sent
    <3>1. sent' = Append(sent, e) /\ chan' = Append(chan, e)
      BY <1>1, <2>3 DEF Send
    <3>2. CASE sent = <<>>
      \* The handler is alive and sent nothing: the worker received nothing.
      <4>1. worker \in {"none", "fetch"}
        BY <1>1, <3>2 DEF Send, FirstIsKept, Settled
      <4>2. returned \in Seq({SpawnError, First'})
        <5>1. returned \in Seq({SpawnError})
          BY <4>1 DEF FirstIsKept
        <5> QED
          BY <5>1, SeqMonotonic
      <4> QED
        BY <2>1, <3>1, <4>1, <4>2 DEF FirstIsKept
    <3>3. CASE sent # <<>>
      <4>1. sent'[1] = sent[1] /\ sent' # <<>>
        BY <3>1, <3>3 DEF ChanTypeOK
      <4>2. First' = First
        BY <3>3, <4>1 DEF First
      <4> QED
        BY <2>1, <3>1, <4>1, <4>2 DEF FirstIsKept, Settled
    <3> QED
      BY <3>2, <3>3
  <2> QED
    BY <2>2, <2>3
<1>2. CASE ReleaseHandler
  BY <1>2 DEF ReleaseHandler, FirstIsKept, First, Settled
<1>3. CASE ReceiveEvent
  <2>1. worker = "fetch" /\ chan = sent /\ sent # <<>>
    BY <1>3 DEF ReceiveEvent, WorkerFetch, FirstIsKept
  <2>2. got' = First /\ First' = First
    BY <1>3, <2>1 DEF ReceiveEvent, WorkerFetch, First, ChanTypeOK
  <2> QED
    BY <1>3, <2>1, <2>2 DEF ReceiveEvent, WorkerFetch, FirstIsKept, Settled
<1>4. CASE ReceiveClosed
  <2>1. worker = "fetch" /\ sent = <<>>
    BY <1>4 DEF ReceiveClosed, WorkerFetch, FirstIsKept
  <2>2. got' = First /\ First' = First
    BY <1>4, <2>1 DEF ReceiveClosed, WorkerFetch, First
  <2> QED
    BY <1>4, <2>1, <2>2 DEF ReceiveClosed, WorkerFetch, FirstIsKept, Settled
<1>5. CASE CellCommon /\ UNCHANGED chanVars
  BY <1>5, MovesKeepFirst
<1>6. CASE UNCHANGED callbackVars
  BY <1>6 DEF FirstIsKept, First, Settled
<1> QED
  BY <1>1, <1>2, <1>3, <1>4, <1>5, <1>6 DEF CallbackNext, Receive

\* rx.rs "One-shot": whatever number of events fire at any time, before the
\* first poll or with the handler released meanwhile, a poll returns the first.
THEOREM FirstEventIsDelivered == CallbackSpec => []FirstEventWins
<1>1. CellInv => CellTypeOK /\ Phases
  BY DEF CellInv
<1>2. FirstIsKept => FirstEventWins
  BY DEF FirstIsKept, FirstEventWins, First
<1> QED
  BY CallbackIsCell, Invariance, FirstInit, FirstStep, <1>1, <1>2, PTL DEF CallbackSpec

-----------------------------------------------------------------------------
(***************************************************************************)
(* Refused sends.                                                          *)
(***************************************************************************)

\* The worker of a future that waits has the receiver.
RefusalOK ==
  /\ worker # "died"
  /\ SendErrorMeansSettled

LEMMA RefusalStep ==
  CellInv /\ RefusalOK /\ [CallbackNext]_callbackVars /\ ChanTypeOK => RefusalOK'
<1> SUFFICES ASSUME CellInv, RefusalOK, [CallbackNext]_callbackVars, ChanTypeOK
             PROVE  RefusalOK'
  OBVIOUS
<1> USE DEF RefusalOK, SendErrorMeansSettled
<1>1. ASSUME NEW e \in Events, Send(e) PROVE RefusalOK'
  BY <1>1 DEF Send, ReceiverAlive, CellInv, Phases, CellTypeOK
<1>2. CASE UNCHANGED callbackVars
  BY <1>2
<1>3. ASSUME ~\E e \in Events : Send(e), ~UNCHANGED callbackVars
      PROVE  UNCHANGED refused /\ (CallbackStep \/ UNCHANGED cellVars)
  BY <1>3, CallbackStepIsCellStep
     DEF CallbackNext, ReleaseHandler, Receive, ReceiveEvent, ReceiveClosed
<1>4. ASSUME CallbackStep
      PROVE  worker' # "died" /\ (state = "Done" => state' = "Done") /\ (dropped => dropped')
  BY <1>4 DEF CallbackStep, CellCommon, PollEnter, PollStep, PollSpawn, PollSpawnFails,
     PollPending, PollReady, PollPanics, WorkerStore, WorkerWake, Move, RunOther, Drop,
     Return, WorkerFetch
<1> QED
  BY <1>1, <1>2, <1>3, <1>4

\* from_callback: a handler may ignore a SendError, for any number of events
\* and tasks, since it means that the future is completed or dropped.
THEOREM RefusedSendsMeanSettled == CallbackSpec => []SendErrorMeansSettled
<1>1. CallbackInit => RefusalOK
  BY DEF CallbackInit, CellInit, RefusalOK, SendErrorMeansSettled
<1>2. RefusalOK => SendErrorMeansSettled
  BY DEF RefusalOK
<1> QED
  BY CallbackIsCell, Invariance, RefusalStep, <1>1, <1>2, PTL DEF CallbackSpec

\* rx.rs "One-shot": so is a listener awaited from Rust, however often it fires.
THEOREM CallbackIsOneShot == Contract => (CallbackSpec => ImplementsOneShot)
BY CallbackIsCell, SafetyIsOneShot, PTL

\* The wake-up of a task that awaits an event is not lost, and the cell's other
\* invariants hold.
THEOREM CallbackWakeupIsNotLost == CallbackSpec => [](NoLostWakeup /\ OneOutcome)
<1>1. CellInv => NoLostWakeup /\ OneOutcome
  BY DEF CellInv
<1> QED
  BY CallbackIsCell, Invariance, <1>1, PTL

-----------------------------------------------------------------------------
(***************************************************************************)
(* Proofs about call_async and call_static_async, for every set of tasks   *)
(* and answers: the cell keeps its invariants although a runtime may shut  *)
(* down under it, and what a poll returns is the one call's answer.        *)
(***************************************************************************)

USE DEF AllOutcomes, cell, task, source, cellVars, callVars, asyncCallVars

-----------------------------------------------------------------------------

\* The worker's closure is with the future until the first poll spawned, and in
\* a queue or at work as long as the worker of the cell fetches.
Placed ==
  /\ place \in {"future", "queued", "running", "calling", "left"}
  /\ state = "Unstarted" => place = "future"
  /\ place = "future" => state = "Unstarted"
  /\ place \in {"queued", "running", "calling"} => worker = "fetch" /\ state = "Waiting"

\* The invariant of the cell with the closure.
PlacedInv == CellInv /\ Placed

\* Every step but the shutdown of the runtime is a step of the cell, or leaves
\* it alone.
LEMMA CallStepIsCellStep ==
  [CallNext]_asyncCallVars => [CellNext]_cellVars \/ ShutDown
<1> SUFFICES ASSUME [CallNext]_asyncCallVars, ~ShutDown PROVE [CellNext]_cellVars
  OBVIOUS
<1>1. CASE SpawnBridgeWorker
  BY <1>1 DEF SpawnBridgeWorker, SpawnBlocking, SpawnThread, SpawnThreadFails,
     CellNext, CellCommon, PollStep
<1>2. CASE StartQueued
  BY <1>2 DEF StartQueued
<1>3. CASE Refuse
  <2>1. \E o \in Outcomes : WorkerFetch(o)
    BY <1>3, AsyncCallAssumption DEF Refuse
  <2> QED
    BY <2>1 DEF CellNext
<1>4. CASE EnterMethod
  BY <1>4 DEF EnterMethod
<1>5. CASE CallReturns
  <2>1. \E o \in Outcomes : WorkerFetch(o)
    BY <1>5, AsyncCallAssumption DEF CallReturns
  <2> QED
    BY <2>1 DEF CellNext
<1>6. CASE CallConversionPanics
  BY <1>6 DEF CallConversionPanics, CellNext
<1>7. CASE \E w \in Wakers : MoveTo(w) \/ RunOther(w)
  BY <1>7 DEF MoveTo, CellNext, CellCommon
<1>8. CASE PollEnter \/ PollPending \/ PollReady \/ PollPanics \/ Drop
             \/ WorkerStore \/ WorkerWake
  BY <1>8 DEF CellNext, CellCommon, PollStep
<1>9. CASE UNCHANGED asyncCallVars
  BY <1>9
<1> QED
  BY <1>1, <1>2, <1>3, <1>4, <1>5, <1>6, <1>7, <1>8, <1>9 DEF CallNext, AsyncCallWorker

\* Shutting the runtime down drops the future and discards a queued worker at
\* once: nobody who could be woken is left parked.
LEMMA ShutDownKeepsCell == PlacedInv /\ ShutDown => CellInv'
<1> SUFFICES ASSUME PlacedInv, ShutDown PROVE CellInv'
  OBVIOUS
<1> USE DEF PlacedInv, Placed, CellInv, ShutDown
<1>1. worker' = worker \/ (worker = "fetch" /\ worker' = "died")
  OBVIOUS
<1>2. UNCHANGED <<state, waker, outcome, mutex, got, taken, owner, scheduled, ret, returned>>
  OBVIOUS
<1>3. dropped' \in BOOLEAN /\ (dropped => dropped') /\ mutex = "free"
  <2>1. dropped' = (dropped \/ owner \in TokioTasks)
    OBVIOUS
  <2>2. dropped' = TRUE \/ dropped' = FALSE
    BY <2>1, Zenon
  <2> QED
    BY <2>1, <2>2
<1>4. CellTypeOK'
  BY <1>1, <1>2, <1>3 DEF CellTypeOK
<1>5. Phases'
  BY <1>1, <1>2, <1>3 DEF Phases
<1>6. NoLostWakeup'
  BY <1>1, <1>2, <1>3 DEF NoLostWakeup, Parked
<1>7. OneOutcome'
  BY <1>1, <1>2 DEF OneOutcome
<1> QED
  BY <1>4, <1>5, <1>6, <1>7

\* The closure is where its worker is.
LEMMA PlacedStep == PlacedInv /\ [CallNext]_asyncCallVars => Placed'
<1> SUFFICES ASSUME PlacedInv, [CallNext]_asyncCallVars PROVE Placed'
  OBVIOUS
<1> USE DEF PlacedInv, Placed, CellInv, CellTypeOK, Phases
<1>1. CASE SpawnBlocking
  BY <1>1 DEF SpawnBlocking, PollSpawn
<1>2. CASE SpawnThread
  BY <1>2 DEF SpawnThread, PollSpawn
<1>3. CASE SpawnThreadFails
  BY <1>3 DEF SpawnThreadFails, PollSpawnFails
<1>4. CASE StartQueued
  BY <1>4 DEF StartQueued
<1>5. CASE ShutDown
  BY <1>5 DEF ShutDown
<1>6. CASE Refuse
  BY <1>6 DEF Refuse, WorkerFetch
<1>7. CASE EnterMethod
  BY <1>7 DEF EnterMethod
<1>8. CASE CallReturns
  BY <1>8 DEF CallReturns, WorkerFetch
<1>9. CASE CallConversionPanics
  BY <1>9 DEF CallConversionPanics, WorkerDies
<1>10. ASSUME NEW w \in Wakers, MoveTo(w) PROVE Placed'
  BY <1>10 DEF MoveTo, Move
<1>11. ASSUME NEW w \in Wakers, RunOther(w), UNCHANGED callVars PROVE Placed'
  BY <1>11 DEF RunOther
<1>12. CASE UNCHANGED callVars /\ (PollEnter \/ PollPending \/ PollReady \/ PollPanics \/ Drop)
  BY <1>12 DEF PollEnter, PollPending, PollReady, PollPanics, Drop
<1>13. CASE UNCHANGED callVars /\ WorkerStore
  BY <1>13 DEF WorkerStore
<1>14. CASE UNCHANGED callVars /\ WorkerWake
  BY <1>14 DEF WorkerWake
<1>15. CASE UNCHANGED asyncCallVars
  BY <1>15
<1> QED
  BY <1>1, <1>2, <1>3, <1>4, <1>5, <1>6, <1>7, <1>8, <1>9, <1>10, <1>11, <1>12,
     <1>13, <1>14, <1>15
  DEF CallNext, SpawnBridgeWorker, AsyncCallWorker

\* call_async keeps the cell's invariants, shutdown or not: no wake-up is lost,
\* and the outcome is in one place.
THEOREM CallKeepsCell == CallSpec => []PlacedInv
<1>1. CallInit => PlacedInv
  BY InvInit DEF CallInit, CellInit, PlacedInv, Placed
<1>2. CellInv /\ [CellNext]_cellVars => CellInv'
  BY TypeStep, PhasesStep, WakeupStep, OutcomeStep DEF CellInv
<1>3. PlacedInv /\ [CallNext]_asyncCallVars => PlacedInv'
  BY <1>2, CallStepIsCellStep, ShutDownKeepsCell, PlacedStep DEF PlacedInv
<1> QED
  BY <1>1, <1>3, PTL DEF CallSpec

\* No task that awaits the call is parked out of reach, and no outcome is lost
\* or doubled, on whichever executor the worker and the tasks run.
THEOREM CallWakeupIsNotLost == CallSpec => [](NoLostWakeup /\ OneOutcome)
<1>1. PlacedInv => NoLostWakeup /\ OneOutcome
  BY DEF PlacedInv, CellInv
<1> QED
  BY <1>1, CallKeepsCell, PTL

-----------------------------------------------------------------------------
(***************************************************************************)
(* The one-shot future, under a runtime that may shut down.                *)
(***************************************************************************)

\* A shutdown returns nothing to the task; if it drops the future, that is all
\* an observer sees of it.
LEMMA ShutDownReturnsNothing == Once /\ ShutDown => Once'
BY DEF Once, ShutDown

LEMMA ShutDownAbandons ==
  PlacedInv /\ ShutDown => [Promise!Next]_(Promise!vars)
<1> SUFFICES ASSUME PlacedInv, ShutDown PROVE [Promise!Next]_(Promise!vars)
  OBVIOUS
<1>1. outcome' = outcome /\ returned' = returned
  BY DEF ShutDown
<1>2. dropped \in BOOLEAN /\ dropped' = (dropped \/ owner \in TokioTasks)
  BY DEF ShutDown, PlacedInv, CellInv, CellTypeOK
<1>3. dropped' = dropped \/ (~dropped /\ dropped' = TRUE)
  BY <1>2, Zenon
<1>4. CASE dropped' = dropped
  BY <1>1, <1>4 DEF Promise!vars
<1>5. CASE ~dropped /\ dropped' = TRUE
  BY <1>1, <1>5 DEF Promise!Next, Promise!Abandon
<1> QED
  BY <1>3, <1>4, <1>5

\* A Java call awaited from Rust is a one-shot future as well, although a runtime
\* that shuts down drops the future and discards the worker in one step.
THEOREM CallIsOneShot == Contract => (CallSpec => ImplementsOneShot)
<1> SUFFICES ASSUME Contract PROVE CallSpec => ImplementsOneShot
  OBVIOUS
<1>1. CallInit => Once /\ Promise!Init
  BY PromiseInit DEF CallInit, CellInit, Once
<1>2. PlacedInv /\ Once /\ [CallNext]_asyncCallVars => Once'
  BY CallStepIsCellStep, OnceStep, ShutDownReturnsNothing DEF PlacedInv
<1>3. PlacedInv /\ Once /\ Once' /\ [CallNext]_asyncCallVars
        => [Promise!Next]_(Promise!vars)
  BY CallStepIsCellStep, PromiseStep, ShutDownAbandons DEF PlacedInv
<1> QED
  BY CallKeepsCell, <1>1, <1>2, <1>3, PTL
  DEF CallSpec, ImplementsOneShot, Promise!Spec

-----------------------------------------------------------------------------
(***************************************************************************)
(* One invocation.                                                         *)
(***************************************************************************)

\* What may be reported: the answer, once there was a call.
Reports == IF calls = 0 THEN Refusals \cup {SpawnError} ELSE {answer}

\* The method is entered by the worker alone, once on its way; until the worker
\* has something to report nobody has, and then it is what happened.
OnItsWay ==
  /\ calls \in {0, 1}
  /\ place \in {"future", "queued", "running"} => calls = 0
  /\ place = "calling" => calls = 1
  /\ place # "left" =>
       got = NoOutcome /\ outcome = NoOutcome /\ returned = <<>>
  /\ got \in Reports \cup {NoOutcome}
  /\ outcome \in Reports \cup {NoOutcome}
  /\ returned \in Seq(Reports)

LEMMA OnItsWayInit == CallInit => OnItsWay
BY DEF CallInit, CellInit, OnItsWay

LEMMA OnItsWayStep == PlacedInv /\ OnItsWay /\ [CallNext]_asyncCallVars => OnItsWay'
<1> SUFFICES ASSUME PlacedInv, OnItsWay, [CallNext]_asyncCallVars PROVE OnItsWay'
  OBVIOUS
<1> USE DEF OnItsWay
<1>1. CASE SpawnBlocking
  BY <1>1 DEF SpawnBlocking, PollSpawn, PlacedInv, Placed, Reports
<1>2. CASE SpawnThread
  BY <1>2 DEF SpawnThread, PollSpawn, PlacedInv, Placed, Reports
<1>3. CASE SpawnThreadFails
  <2>1. place = "future" /\ calls = 0 /\ returned = <<>> /\ got = NoOutcome
    BY <1>3 DEF SpawnThreadFails, PollSpawnFails, PlacedInv, Placed
  <2>2. Reports' = Reports /\ SpawnError \in Reports
    BY <1>3, <2>1 DEF SpawnThreadFails, Reports
  <2>3. returned' = Append(returned, SpawnError) /\ outcome' = SpawnError /\ got' = got
        /\ place' = "left" /\ calls' = calls
    BY <1>3 DEF SpawnThreadFails, PollSpawnFails, Return
  <2>4. returned' \in Seq(Reports)
    BY <2>2, <2>3, AppendProperties
  <2> QED
    BY <2>1, <2>2, <2>3, <2>4
<1>4. CASE StartQueued
  BY <1>4 DEF StartQueued, Reports
<1>5. CASE ShutDown
  BY <1>5 DEF ShutDown, Reports
<1>6. CASE Refuse
  <2>1. calls = 0 /\ Reports' = Reports /\ got' \in Reports
    BY <1>6 DEF Refuse, WorkerFetch, Reports
  <2> QED
    BY <1>6, <2>1 DEF Refuse, WorkerFetch
<1>7. CASE EnterMethod
  BY <1>7 DEF EnterMethod, Reports
<1>8. CASE CallReturns
  <2>1. Reports' = {got'} /\ calls' = 1 /\ returned' = <<>> /\ outcome' = NoOutcome
    BY <1>8 DEF CallReturns, WorkerFetch, Reports
  <2> QED
    BY <1>8, <2>1 DEF CallReturns
<1>9. CASE CallConversionPanics
  BY <1>9 DEF CallConversionPanics, WorkerDies, Reports
<1>10. ASSUME NEW w \in Wakers, MoveTo(w) PROVE OnItsWay'
  BY <1>10 DEF MoveTo, Move, Reports
<1>11. ASSUME NEW w \in Wakers, RunOther(w), UNCHANGED callVars PROVE OnItsWay'
  BY <1>11 DEF RunOther, Reports
<1>12. CASE UNCHANGED callVars /\ (PollEnter \/ PollPending \/ PollPanics \/ Drop \/ WorkerWake)
  BY <1>12 DEF PollEnter, PollPending, PollPanics, Drop, WorkerWake, Return, Reports
<1>13. CASE UNCHANGED callVars /\ PollReady
  <2>1. place = "left" /\ outcome \in Reports /\ Reports' = Reports
    BY <1>13 DEF PollReady, Reports
  <2>2. returned' = Append(returned, outcome) /\ got' = got /\ outcome' = NoOutcome
    BY <1>13 DEF PollReady, Return
  <2>3. returned' \in Seq(Reports)
    BY <2>1, <2>2, AppendProperties
  <2> QED
    BY <1>13, <2>1, <2>2, <2>3
<1>14. CASE UNCHANGED callVars /\ WorkerStore
  BY <1>14 DEF WorkerStore, PlacedInv, Placed, CellInv, CellTypeOK, Reports
<1>15. CASE UNCHANGED asyncCallVars
  BY <1>15 DEF Reports
<1> QED
  BY <1>1, <1>2, <1>3, <1>4, <1>5, <1>6, <1>7, <1>8, <1>9, <1>10, <1>11, <1>12,
     <1>13, <1>14, <1>15
  DEF CallNext, SpawnBridgeWorker, AsyncCallWorker

\* call_async: the awaiting task gets the answer of the one invocation, or an
\* error that proves that there was none, for any number of tasks, moves, polls
\* and answers, and wherever the worker runs.
THEOREM InvokedOnce == CallSpec => []OneInvocation
<1>1. OnItsWay => OneInvocation
  BY DEF OnItsWay, OneInvocation, Reports
<1> QED
  BY <1>1, CallKeepsCell, OnItsWayInit, OnItsWayStep, PTL DEF CallSpec
=============================================================================
