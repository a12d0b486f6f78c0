--------------------------- MODULE JvmAttach_proofs ---------------------------
(***************************************************************************)
(* Proofs about the JVM facade, for any number of threads, guards and      *)
(* nested operations: racing builds end with the one JVM, and a thread     *)
(* stays attached while an operation or an undisturbed guard needs it.     *)
(* The accesses of a bind! wrapper are such operations, and however many   *)
(* threads race for the first look-up of its class, one class is used.     *)
(***************************************************************************)
EXTENDS BoundClass, TLAPS

\* What the lock and the order of the two checks in JavaVM::new guarantee: one
\* thread at a time is between them; jni-rs knows the JVM unless Java made it;
\* and a thread that found no JVM is right about it until it has created one.
OneCreator ==
  /\ \A t \in Threads : build[t] \in {"check", "create"} => lock = t
  /\ hosts = {} =>
       /\ jvms = 1 => singleton
       /\ \A t \in Threads : build[t] = "create" => ~singleton

\* There is a JVM wherever somebody relies on one.
JvmIsThere ==
  /\ (singleton \/ hosts # {}) => jvms = 1
  /\ \A t \in Threads : inJava[t] => depth[t] > 0
  /\ \A t \in Threads : depth[t] > 0 => singleton

\* The inductive invariant.
Inv == TypeOK /\ OneCreator /\ JvmIsThere /\ RacesAreHarmless /\ StaysAttached

\* The steps of a thread's build() and from_env(), and all the others.
BuildStep(t) ==
  \/ StartBuild(t) \/ TakeLock(t) \/ BadArgs(t) \/ BuildPanics(t)
  \/ CheckSingleton(t) \/ CreateJvm(t) \/ FromEnv(t)

EnvStep(t) ==
  \/ WithEnv(t) \/ CallsNative(t) \/ NativeReturns(t) \/ EnvReturns(t)
  \/ ThreadEnds(t)
  \/ \E g \in Guards : AttachThread(t, g) \/ MoveGuard(g, t) \/ DropGuard(t, g)

-----------------------------------------------------------------------------

\* The thread that made a guard is a thread.
LEMMA HomeIsThread ==
  ASSUME TypeOK
  PROVE  \A g \in Guards : guard[g] # NoGuard =>
           guard[g] \in [home : Threads, holder : Threads, disturbed : BOOLEAN]
  BY DEF TypeOK, Guard

\* The program starts in the invariant.
LEMMA InvInit == Init => Inv
<1> SUFFICES ASSUME Init PROVE Inv
  OBVIOUS
<1> USE JvmAttachAssumption DEF Init
<1>1. TypeOK
  <2>1. attached \in [Threads -> BOOLEAN]
    <3>1. ASSUME NEW t \in Threads PROVE (t \in hosts) \in BOOLEAN
      <4>1. CASE t \in hosts
        BY <4>1, Zenon
      <4>2. CASE t \notin hosts
        <5>1. (t \in hosts) = FALSE
          BY <4>2
        <5> QED
          BY <5>1, SMT
      <4> QED
        BY <4>1, <4>2
    <3> QED
      BY <3>1, Zenon
  <2>2. hosts \subseteq HostThreads /\ jvms \in 0..1
    BY SMT
  <2>3. build \in [Threads -> Building \cup Outcomes]
    BY DEF Building, Outcomes
  <2>4. /\ live \in [Threads -> BOOLEAN] /\ inJava \in [Threads -> BOOLEAN]
        /\ depth \in [Threads -> Nat]
    OBVIOUS
  <2>5. guard \in [Guards -> Guard]
    BY DEF Guard
  <2> QED
    BY <2>1, <2>2, <2>3, <2>4, <2>5 DEF TypeOK
<1>2. OneCreator
  BY DEF OneCreator
<1>3. JvmIsThere
  BY DEF JvmIsThere
<1>4. RacesAreHarmless
  BY DEF RacesAreHarmless
<1>5. StaysAttached
  BY DEF StaysAttached
<1> QED
  BY <1>1, <1>2, <1>3, <1>4, <1>5 DEF Inv

\* Every step keeps the ranges of the variables.
LEMMA TypeStep == TypeOK /\ JvmIsThere /\ [Next]_vars => TypeOK'
<1> SUFFICES ASSUME TypeOK, JvmIsThere, [Next]_vars PROVE TypeOK'
  OBVIOUS
<1>1. CASE UNCHANGED vars
  BY <1>1 DEF vars, TypeOK
<1>2. ASSUME NEW t \in Threads, BuildStep(t) PROVE TypeOK'
  <2> USE JvmAttachAssumption DEF TypeOK, Building, Outcomes
  <2>1. CASE StartBuild(t)
    BY <2>1 DEF StartBuild
  <2>2. CASE TakeLock(t)
    BY <2>2 DEF TakeLock
  <2>3. CASE BadArgs(t)
    BY <2>3 DEF BadArgs, Ends
  <2>4. CASE BuildPanics(t)
    BY <2>4 DEF BuildPanics, Ends
  <2>5. CASE CheckSingleton(t)
    BY <2>5 DEF CheckSingleton, Ends
  <2>6. CASE CreateJvm(t)
    <3>1. attached' \in [Threads -> BOOLEAN]
      <4>1. attached' = attached
              \/ \E a \in {attached[t], TRUE} : attached' = [attached EXCEPT ![t] = a]
        BY <2>6 DEF CreateJvm
      <4>2. attached[t] \in BOOLEAN
        OBVIOUS
      <4>3. ASSUME NEW a \in {attached[t], TRUE}, attached' = [attached EXCEPT ![t] = a]
            PROVE  attached' \in [Threads -> BOOLEAN]
        <5>1. a \in BOOLEAN
          BY <4>2
        <5> QED
          BY <4>3, <5>1, Zenon
      <4> QED
        BY <4>1, <4>3
    <3>2. jvms' \in 0..1
      BY <2>6 DEF CreateJvm
    <3>3. singleton' = TRUE \/ singleton' = singleton
      BY <2>6 DEF CreateJvm
    <3>4. lock' = None /\ build' \in [Threads -> Building \cup Outcomes]
      BY <2>6 DEF CreateJvm, Ends
    <3> QED
      BY <2>6, <3>1, <3>2, <3>3, <3>4 DEF CreateJvm
  <2>7. CASE FromEnv(t)
    BY <2>7 DEF FromEnv
  <2> QED
    BY <1>2, <2>1, <2>2, <2>3, <2>4, <2>5, <2>6, <2>7 DEF BuildStep
<1>3. ASSUME NEW t \in Threads, EnvStep(t) PROVE TypeOK'
  <2> USE JvmAttachAssumption DEF TypeOK, buildVars
  <2>1. CASE WithEnv(t)
    BY <2>1 DEF WithEnv
  <2>2. CASE CallsNative(t)
    BY <2>2 DEF CallsNative
  <2>3. CASE NativeReturns(t)
    BY <2>3 DEF NativeReturns
  <2>4. CASE EnvReturns(t)
    BY <2>4 DEF EnvReturns, JvmIsThere
  <2>5. CASE ThreadEnds(t)
    BY <2>5 DEF ThreadEnds
  <2>6. ASSUME NEW g \in Guards, AttachThread(t, g) PROVE TypeOK'
    BY <2>6 DEF AttachThread, Guard
  <2>7. ASSUME NEW g \in Guards, MoveGuard(g, t) PROVE TypeOK'
    BY <2>7 DEF MoveGuard, Guard
  <2>8. ASSUME NEW g \in Guards, DropGuard(t, g) PROVE TypeOK'
    <3>1. guard' \in [Guards -> Guard]
      <4> SUFFICES ASSUME NEW h \in Guards PROVE guard'[h] \in Guard
        BY <2>8 DEF DropGuard
      <4>1. CASE h = g
        BY <2>8, <4>1 DEF DropGuard, Guard
      <4>2. CASE h # g /\ guard[h].home = t
        <5>1. guard[h] # NoGuard
          BY <4>2 DEF NoGuard
        <5> QED
          BY <2>8, <4>2, <5>1 DEF DropGuard, Guard
      <4>3. CASE h # g /\ guard[h].home # t
        BY <2>8, <4>3 DEF DropGuard
      <4> QED
        BY <4>1, <4>2, <4>3
    <3> QED
      BY <2>8, <3>1 DEF DropGuard, Detach
  <2> QED
    BY <1>3, <2>1, <2>2, <2>3, <2>4, <2>5, <2>6, <2>7, <2>8 DEF EnvStep
<1> QED
  BY <1>1, <1>2, <1>3 DEF Next, BuildStep, EnvStep

\* A step outside of build() and from_env() leaves what they work with alone.
LEMMA EnvKeepsBuild ==
  ASSUME NEW t \in Threads, EnvStep(t) PROVE UNCHANGED buildVars
  BY DEF EnvStep, WithEnv, CallsNative, NativeReturns, EnvReturns, ThreadEnds,
         AttachThread, MoveGuard, DropGuard

\* The steps of build() and from_env() leave operations and guards alone, and
\* detach nobody.
LEMMA BuildKeepsEnv ==
  ASSUME TypeOK, NEW t \in Threads, BuildStep(t)
  PROVE  /\ UNCHANGED <<live, depth, inJava, guard, hosts>>
         /\ \A u \in Threads : attached[u] => attached'[u]
         /\ jvms = 1 => jvms' = 1
         /\ singleton => singleton'
  BY DEF TypeOK, BuildStep, StartBuild, TakeLock, BadArgs, BuildPanics,
         CheckSingleton, CreateJvm, FromEnv

\* Creation stays serialized.
LEMMA CreatorStep ==
  TypeOK /\ OneCreator /\ JvmIsThere /\ [Next]_vars => OneCreator'
<1> SUFFICES ASSUME TypeOK, OneCreator, JvmIsThere, [Next]_vars PROVE OneCreator'
  OBVIOUS
<1>1. CASE UNCHANGED vars
  BY <1>1 DEF vars, OneCreator
<1>2. ASSUME NEW t \in Threads, BuildStep(t) PROVE OneCreator'
  <2> USE JvmAttachAssumption DEF TypeOK, OneCreator
  <2>1. CASE StartBuild(t)
    BY <2>1 DEF StartBuild
  <2>2. CASE TakeLock(t)
    BY <2>2 DEF TakeLock
  <2>3. CASE BadArgs(t)
    BY <2>3 DEF BadArgs, Ends
  <2>4. CASE BuildPanics(t)
    BY <2>4 DEF BuildPanics, Ends
  <2>5. CASE CheckSingleton(t)
    BY <2>5 DEF CheckSingleton, Ends
  <2>6. CASE CreateJvm(t)
    BY <2>6 DEF CreateJvm, Ends
  <2>7. CASE FromEnv(t)
    BY <2>7 DEF FromEnv, CalledByJava, JvmIsThere
  <2> QED
    BY <1>2, <2>1, <2>2, <2>3, <2>4, <2>5, <2>6, <2>7 DEF BuildStep
<1>3. ASSUME NEW t \in Threads, EnvStep(t) PROVE OneCreator'
  BY <1>3, EnvKeepsBuild DEF OneCreator, buildVars
<1> QED
  BY <1>1, <1>2, <1>3 DEF Next, BuildStep, EnvStep

\* Operations run only with a JVM, and natives only under operations.
LEMMA JvmStep == TypeOK /\ JvmIsThere /\ [Next]_vars => JvmIsThere'
<1> SUFFICES ASSUME TypeOK, JvmIsThere, [Next]_vars PROVE JvmIsThere'
  OBVIOUS
<1>1. CASE UNCHANGED vars
  BY <1>1 DEF vars, JvmIsThere
<1>2. ASSUME NEW t \in Threads, BuildStep(t) PROVE JvmIsThere'
  <2>1. (singleton' \/ hosts' # {}) => jvms' = 1
    <3>1. CASE FromEnv(t)
      BY <3>1 DEF FromEnv, CalledByJava, JvmIsThere
    <3>2. CASE ~FromEnv(t)
      BY <1>2, <3>2 DEF BuildStep, StartBuild, TakeLock, BadArgs, BuildPanics,
         CheckSingleton, CreateJvm, JvmIsThere, TypeOK
    <3> QED
      BY <3>1, <3>2
  <2> QED
    BY <1>2, <2>1, BuildKeepsEnv DEF JvmIsThere
<1>3. ASSUME NEW t \in Threads, EnvStep(t) PROVE JvmIsThere'
  <2>1. UNCHANGED buildVars
    BY <1>3, EnvKeepsBuild
  <2>2. \A u \in Threads : /\ inJava'[u] => depth'[u] > 0
                           /\ depth'[u] > 0 => singleton
    <3> USE DEF TypeOK, JvmIsThere
    <3>1. CASE WithEnv(t)
      BY <3>1 DEF WithEnv
    <3>2. CASE CallsNative(t)
      BY <3>2 DEF CallsNative
    <3>3. CASE NativeReturns(t)
      BY <3>3 DEF NativeReturns
    <3>4. CASE EnvReturns(t)
      BY <3>4 DEF EnvReturns
    <3>5. CASE UNCHANGED <<depth, inJava>>
      BY <3>5
    <3> QED
      BY <1>3, <3>1, <3>2, <3>3, <3>4, <3>5
         DEF EnvStep, ThreadEnds, AttachThread, MoveGuard, DropGuard
  <2> QED
    BY <2>1, <2>2 DEF JvmIsThere, buildVars
<1> QED
  BY <1>1, <1>2, <1>3 DEF Next, BuildStep, EnvStep

\* A build ends with the JVM, or for a reason of its own.
LEMMA RacesStep ==
  TypeOK /\ OneCreator /\ JvmIsThere /\ RacesAreHarmless /\ [Next]_vars => RacesAreHarmless'
<1> SUFFICES ASSUME TypeOK, OneCreator, JvmIsThere, RacesAreHarmless, [Next]_vars
             PROVE  RacesAreHarmless'
  OBVIOUS
<1>1. CASE UNCHANGED vars
  BY <1>1 DEF vars, RacesAreHarmless
<1>2. ASSUME NEW t \in Threads, BuildStep(t) PROVE RacesAreHarmless'
  <2> USE DEF TypeOK, RacesAreHarmless
  <2>1. CASE StartBuild(t)
    BY <2>1 DEF StartBuild
  <2>2. CASE TakeLock(t)
    BY <2>2 DEF TakeLock
  <2>3. CASE BadArgs(t)
    BY <2>3 DEF BadArgs, Ends
  <2>4. CASE BuildPanics(t)
    BY <2>4 DEF BuildPanics, Ends
  <2>5. CASE CheckSingleton(t)
    BY <2>5 DEF CheckSingleton, Ends, JvmIsThere
  <2>6. CASE CreateJvm(t)
    \* A thread that found no JVM still has none in its way, unless Java made it.
    BY <2>6 DEF CreateJvm, Ends, OneCreator
  <2>7. CASE FromEnv(t)
    BY <2>7 DEF FromEnv
  <2> QED
    BY <1>2, <2>1, <2>2, <2>3, <2>4, <2>5, <2>6, <2>7 DEF BuildStep
<1>3. ASSUME NEW t \in Threads, EnvStep(t) PROVE RacesAreHarmless'
  BY <1>3, EnvKeepsBuild DEF RacesAreHarmless, buildVars
<1> QED
  BY <1>1, <1>2, <1>3 DEF Next, BuildStep, EnvStep

\* Nobody who needs it is detached.
LEMMA AttachedStep ==
  TypeOK /\ JvmIsThere /\ StaysAttached /\ [Next]_vars => StaysAttached'
<1> SUFFICES ASSUME TypeOK, JvmIsThere, StaysAttached, [Next]_vars PROVE StaysAttached'
  OBVIOUS
<1>1. CASE UNCHANGED vars
  BY <1>1 DEF vars, StaysAttached
<1>2. ASSUME NEW t \in Threads, BuildStep(t) PROVE StaysAttached'
  BY <1>2, BuildKeepsEnv, HomeIsThread DEF StaysAttached
<1>3. ASSUME NEW t \in Threads, EnvStep(t) PROVE StaysAttached'
  <2> USE DEF TypeOK, StaysAttached
  <2>1. CASE WithEnv(t)
    BY <2>1, HomeIsThread DEF WithEnv
  <2>2. CASE CallsNative(t)
    BY <2>2 DEF CallsNative
  <2>3. CASE NativeReturns(t)
    BY <2>3 DEF NativeReturns
  <2>4. CASE EnvReturns(t)
    BY <2>4, HomeIsThread DEF EnvReturns, JvmIsThere
  <2>5. CASE ThreadEnds(t)
    BY <2>5, HomeIsThread DEF ThreadEnds, CalledByJava
  <2>6. ASSUME NEW g \in Guards, AttachThread(t, g) PROVE StaysAttached'
    BY <2>6, HomeIsThread DEF AttachThread
  <2>7. ASSUME NEW g \in Guards, MoveGuard(g, t) PROVE StaysAttached'
    BY <2>7, HomeIsThread DEF MoveGuard
  <2>8. ASSUME NEW g \in Guards, DropGuard(t, g) PROVE StaysAttached'
    \* The thread has no operation on its stack, or keeps its attachment; the
    \* guards of the thread are disturbed.
    <3>1. \A u \in Threads : depth'[u] > 0 => attached'[u]
      BY <2>8 DEF DropGuard, Detach, CalledByJava
    <3>2. ASSUME NEW h \in Guards, guard'[h] # NoGuard, ~guard'[h].disturbed,
                 live'[guard'[h].home]
          PROVE  attached'[guard'[h].home]
      <4>1. h # g
        BY <2>8, <3>2 DEF DropGuard
      <4>2. guard[h].home # t
        <5> SUFFICES ASSUME guard[h].home = t PROVE FALSE
          OBVIOUS
        <5>1. guard[h] # NoGuard
          BY JvmAttachAssumption DEF NoGuard
        <5>2. guard'[h].disturbed
          BY <2>8, <4>1, <5>1, HomeIsThread DEF DropGuard
        <5> QED
          BY <3>2, <5>2
      <4>3. guard'[h] = guard[h]
        BY <2>8, <4>1, <4>2 DEF DropGuard
      <4> QED
        BY <2>8, <3>2, <4>2, <4>3, HomeIsThread DEF DropGuard, Detach
    <3> QED
      BY <3>1, <3>2
  <2> QED
    BY <1>3, <2>1, <2>2, <2>3, <2>4, <2>5, <2>6, <2>7, <2>8 DEF EnvStep
<1> QED
  BY <1>1, <1>2, <1>3 DEF Next, BuildStep, EnvStep

\* The invariant is inductive.
THEOREM InvHolds == Spec => []Inv
<1>1. Inv /\ [Next]_vars => Inv'
  BY TypeStep, CreatorStep, JvmStep, RacesStep, AttachedStep DEF Inv
<1> QED
  BY InvInit, <1>1, PTL DEF Spec

\* TypeOK: the variables keep their ranges, for any number of threads.
THEOREM FacadeTypeCorrect == Spec => []TypeOK
<1>1. Inv => TypeOK
  BY DEF Inv
<1> QED
  BY <1>1, InvHolds, PTL

\* build(): however many threads build at once, and whether or not one of them
\* panics, none fails because of another, and success is the one JVM.
THEOREM BuildsDoNotRace == Spec => []RacesAreHarmless
<1>1. Inv => RacesAreHarmless
  BY DEF Inv
<1> QED
  BY <1>1, InvHolds, PTL

\* with_env and JavaThread: an operation's thread stays attached under it, and
\* the home of a guard as long as no other guard is dropped there.
THEOREM AttachmentIsKept == Spec => []StaysAttached
<1>1. Inv => StaysAttached
  BY DEF Inv
<1> QED
  BY <1>1, InvHolds, PTL

-----------------------------------------------------------------------------
(***************************************************************************)
(* The class of a bind! wrapper.                                           *)
(***************************************************************************)

\* What has been used is what is cached, and what was found is a class.
CacheInv ==
  /\ cache \in Classes \cup {None}
  /\ found \in [Threads -> Classes \cup {Idle, Looking}]
  /\ used \subseteq {cache} \ {None}

\* A step of an access is a step or a stutter of the facade.
LEMMA StepIsAttach == [BoundNext]_boundVars => [Next]_vars
<1> SUFFICES ASSUME [BoundNext]_boundVars PROVE [Next]_vars
  OBVIOUS
<1>1. CASE UNCHANGED boundVars
  BY <1>1 DEF boundVars
<1>2. ASSUME NEW t \in Threads, AttachStep(t) PROVE Next
  BY <1>2 DEF AttachStep, Next
<1>3. ASSUME NEW t \in Threads, GetClass(t) \/ FindClassGlobal(t) \/ GetOrInit(t)
      PROVE  UNCHANGED vars
  BY <1>3 DEF GetClass, FindClassGlobal, GetOrInit
<1> QED
  BY <1>1, <1>2, <1>3 DEF BoundNext

\* bind! accesses are operations: every behaviour of threads that use a wrapper
\* is one of the facade.
THEOREM BoundIsAttach == BoundSpec => Spec
<1>1. BoundInit => Init
  BY DEF BoundInit
<1> QED
  BY <1>1, StepIsAttach, PTL DEF BoundSpec, Spec

\* build() and with_env under the accesses of a wrapper: no build fails because
\* of another, and no operation loses its attachment.
THEOREM AccessesStayAttached == BoundSpec => [](RacesAreHarmless /\ StaysAttached)
<1>1. Inv => RacesAreHarmless /\ StaysAttached
  BY DEF Inv
<1> QED
  BY <1>1, BoundIsAttach, InvHolds, PTL

\* The class in the OnceLock is never replaced, and is the only one in use.
LEMMA CacheStep == CacheInv /\ [BoundNext]_boundVars => CacheInv'
<1> SUFFICES ASSUME CacheInv, [BoundNext]_boundVars PROVE CacheInv'
  OBVIOUS
<1> USE BoundClassAssumption DEF CacheInv
<1>1. CASE UNCHANGED boundVars
  BY <1>1 DEF boundVars, classVars
<1>2. CASE UNCHANGED classVars
  BY <1>2 DEF classVars
<1>3. ASSUME NEW t \in Threads, GetClass(t) PROVE CacheInv'
  BY <1>3 DEF GetClass, Uses
<1>4. ASSUME NEW t \in Threads, FindClassGlobal(t) PROVE CacheInv'
  BY <1>4 DEF FindClassGlobal, Visible
<1>5. ASSUME NEW t \in Threads, GetOrInit(t) PROVE CacheInv'
  BY <1>5 DEF GetOrInit, Uses
<1> QED
  BY <1>1, <1>2, <1>3, <1>4, <1>5 DEF BoundNext

\* BoundTypeOK: the variables keep their ranges, those of the facade included.
THEOREM BoundTypeCorrect == BoundSpec => []BoundTypeOK
<1>1. BoundInit => CacheInv
  BY DEF BoundInit, CacheInv
<1>2. TypeOK /\ CacheInv => BoundTypeOK
  BY BoundClassAssumption DEF CacheInv, BoundTypeOK
<1> QED
  BY <1>1, <1>2, CacheStep, BoundIsAttach, FacadeTypeCorrect, PTL DEF BoundSpec

\* bind!'s class(): however many threads look the class up at once, and whatever
\* their class loaders find, all accesses of the wrapper work with one class.
THEOREM OneClassIsUsed == BoundSpec => []OneClassPerWrapper
<1>1. BoundInit => CacheInv
  BY DEF BoundInit, CacheInv
<1>2. CacheInv => OneClassPerWrapper
  BY DEF CacheInv, OneClassPerWrapper
<1> QED
  BY <1>1, <1>2, CacheStep, PTL DEF BoundSpec
=============================================================================
