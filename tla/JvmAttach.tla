----------------------------- MODULE JvmAttach -----------------------------
(***************************************************************************)
(* The JVM facade (java.rs, handles.rs): JvmConfig::build, which creates   *)
(* the one JVM of the process under a lock; with_env, through which every  *)
(* operation of a Java or of a handle attaches its thread; and JavaThread, *)
(* the guard that detaches the thread that drops it.                       *)
(*                                                                         *)
(* jni-rs and the JVM are external: JavaVM::new looks at the singleton and *)
(* calls JNI_CreateJavaVM after that, attach_current_thread attaches until *)
(* the thread ends, and DetachCurrentThread refuses a thread that has Java *)
(* methods on its stack.                                                   *)
(***************************************************************************)
EXTENDS Naturals

CONSTANTS
  Threads,
  HostThreads, \* those Java code started, if a Java process loaded Rust
  Guards,      \* bound on the JavaThread guards that exist at a time
  MaxDepth,    \* bound on the operations nested on a thread
  None

ASSUME JvmAttachAssumption ==
  /\ HostThreads \subseteq Threads
  /\ MaxDepth \in Nat
  /\ None \notin Threads

VARIABLES
  hosts,     \* HostThreads, or none if the program is a Rust one
  jvms,      \* the JVMs in the process
  singleton, \* jni-rs has the JVM in JavaVM::singleton
  lock,      \* JVM_CREATE_LOCK: its holder
  build,     \* where the build() of a thread is, or how the last one ended
  live,      \* the thread has not ended
  attached,  \* the thread is attached to the JVM
  depth,     \* the with_env closures on the stack of the thread
  inJava,    \* the innermost of them runs, not a native method it led to
  guard      \* the JavaThread guards

vars == <<hosts, jvms, singleton, lock, build, live, attached, depth, inJava, guard>>

buildVars == <<hosts, jvms, singleton, lock, build>>

\* home: the thread that made the guard; holder: the one that owns it;
\* disturbed (history): another guard was dropped on home since.
NoGuard == [home |-> None, holder |-> None, disturbed |-> FALSE]
Guard == [home : Threads, holder : Threads, disturbed : BOOLEAN] \cup {NoGuard}

Building == {"lock", "check", "create"}
Outcomes == {"idle", "ok", "badArgs", "failed", "exists", "panicked"}

Init ==
  /\ hosts \in {{}, HostThreads}
  /\ jvms = IF hosts = {} THEN 0 ELSE 1
  /\ singleton = FALSE
  /\ lock = None
  /\ build = [t \in Threads |-> "idle"]
  /\ live = [t \in Threads |-> TRUE]
  /\ attached = [t \in Threads |-> t \in hosts]
  /\ depth = [t \in Threads |-> 0]
  /\ inJava = [t \in Threads |-> FALSE]
  /\ guard = [g \in Guards |-> NoGuard]

\* Code of the program runs on the thread: outside of rjava, or in a native
\* method that Java called.
ProgramRuns(t) == live[t] /\ ~inJava[t] /\ build[t] \notin Building

\* There are Java methods on the stack of the thread.
CalledByJava(t) == t \in hosts \/ depth[t] > 0

-----------------------------------------------------------------------------
(***************************************************************************)
(* build() and from_env().                                                 *)
(***************************************************************************)
StartBuild(t) ==
  /\ ProgramRuns(t)
  /\ build' = [build EXCEPT ![t] = "lock"]
  /\ UNCHANGED <<hosts, jvms, singleton, lock, live, attached, depth, inJava, guard>>

\* (A bug would be to build without the lock.)
BugTakeLock(t) ==
  /\ build[t] = "lock"
  /\ build' = [build EXCEPT ![t] = "check"]
  /\ UNCHANGED <<hosts, jvms, singleton, lock, live, attached, depth, inJava, guard>>

\* lock().unwrap_or_else(into_inner): the lock guards no data, so it is taken
\* whether or not a holder panicked.
TakeLock(t) ==
  /\ build[t] = "lock"
  /\ lock = None
  /\ lock' = t
  /\ build' = [build EXCEPT ![t] = "check"]
  /\ UNCHANGED <<hosts, jvms, singleton, live, attached, depth, inJava, guard>>

\* The guard of the lock is dropped on the way out.
Ends(t, outcome) ==
  /\ lock' = None
  /\ build' = [build EXCEPT ![t] = outcome]

\* InitArgsBuilder::build refuses an option.
BadArgs(t) ==
  /\ build[t] = "check"
  /\ Ends(t, "badArgs")
  /\ UNCHANGED <<hosts, jvms, singleton, live, attached, depth, inJava, guard>>

BuildPanics(t) ==
  /\ build[t] \in {"check", "create"}
  /\ Ends(t, "panicked")
  /\ UNCHANGED <<hosts, jvms, singleton, live, attached, depth, inJava, guard>>

\* JavaVM::new: the singleton if there is one.
CheckSingleton(t) ==
  /\ build[t] = "check"
  /\ IF singleton
       THEN Ends(t, "ok")
       ELSE /\ build' = [build EXCEPT ![t] = "create"]
            /\ UNCHANGED lock
  /\ UNCHANGED <<hosts, jvms, singleton, live, attached, depth, inJava, guard>>

\* JNI_CreateJavaVM fails if there is no JDK, or a JVM already; the thread
\* that creates the JVM may come out of it attached.
CreateJvm(t) ==
  /\ build[t] = "create"
  /\ \/ /\ jvms = 0
        /\ jvms' = 1
        /\ singleton' = TRUE
        /\ \E a \in {attached[t], TRUE} : attached' = [attached EXCEPT ![t] = a]
        /\ Ends(t, "ok")
     \/ /\ jvms = 0
        /\ Ends(t, "failed")
        /\ UNCHANGED <<jvms, singleton, attached>>
     \/ /\ jvms = 1
        /\ Ends(t, "exists")
        /\ UNCHANGED <<jvms, singleton, attached>>
  /\ UNCHANGED <<hosts, live, depth, inJava, guard>>

\* A native method wraps the Env it was called with.
FromEnv(t) ==
  /\ ProgramRuns(t)
  /\ CalledByJava(t)
  /\ singleton' = TRUE
  /\ UNCHANGED <<hosts, jvms, lock, build, live, attached, depth, inJava, guard>>

-----------------------------------------------------------------------------
(***************************************************************************)
(* Operations and guards.                                                  *)
(***************************************************************************)

\* (A bug would be an attachment for the time of the call only.)
BugEnvReturns(t) ==
  /\ inJava[t]
  /\ depth' = [depth EXCEPT ![t] = @ - 1]
  /\ inJava' = [inJava EXCEPT ![t] = FALSE]
  /\ attached' = [attached EXCEPT ![t] = CalledByJava(t) /\ depth[t] > 1]
  /\ UNCHANGED <<buildVars, live, guard>>

\* with_env: attach_current_thread(f).  Without a JVM, or when the JVM refuses
\* to attach the thread, the operation fails and nothing changes.
WithEnv(t) ==
  /\ ProgramRuns(t)
  /\ singleton
  /\ depth[t] < MaxDepth
  /\ attached' = [attached EXCEPT ![t] = TRUE]
  /\ depth' = [depth EXCEPT ![t] = @ + 1]
  /\ inJava' = [inJava EXCEPT ![t] = TRUE]
  /\ UNCHANGED <<buildVars, live, guard>>

\* The operation leads to a native method of the program on the same thread.
CallsNative(t) ==
  /\ inJava[t]
  /\ inJava' = [inJava EXCEPT ![t] = FALSE]
  /\ UNCHANGED <<buildVars, live, attached, depth, guard>>

NativeReturns(t) ==
  /\ ProgramRuns(t)
  /\ depth[t] > 0
  /\ inJava' = [inJava EXCEPT ![t] = TRUE]
  /\ UNCHANGED <<buildVars, live, attached, depth, guard>>

\* f returned; the thread stays attached.
EnvReturns(t) ==
  /\ inJava[t]
  /\ depth' = [depth EXCEPT ![t] = @ - 1]
  /\ inJava' = [inJava EXCEPT ![t] = FALSE]
  /\ UNCHANGED <<buildVars, live, attached, guard>>

\* Java::attach_thread: the thread is attached and the guard has its JavaVM,
\* not its thread.
AttachThread(t, g) ==
  /\ ProgramRuns(t)
  /\ singleton
  /\ guard[g] = NoGuard
  /\ attached' = [attached EXCEPT ![t] = TRUE]
  /\ guard' = [guard EXCEPT ![g] = [home |-> t, holder |-> t, disturbed |-> FALSE]]
  /\ UNCHANGED <<buildVars, live, depth, inJava>>

\* JavaThread is Send.
MoveGuard(g, u) ==
  /\ guard[g] # NoGuard
  /\ ProgramRuns(guard[g].holder)
  /\ live[u]
  /\ guard' = [guard EXCEPT ![g].holder = u]
  /\ UNCHANGED <<buildVars, live, attached, depth, inJava>>

\* DetachCurrentThread.
Detach(t) ==
  attached' = [attached EXCEPT ![t] = @ /\ CalledByJava(t)]

\* (A bug would be to detach the thread that made the guard.)
BugDropGuard(t, g) ==
  /\ guard[g].holder = t
  /\ ProgramRuns(t)
  /\ attached' = [attached EXCEPT ![guard[g].home] = FALSE]
  /\ guard' = [h \in Guards |->
                 IF h = g THEN NoGuard
                 ELSE IF guard[h].home = t THEN [guard[h] EXCEPT !.disturbed = TRUE]
                 ELSE guard[h]]
  /\ UNCHANGED <<buildVars, live, depth, inJava>>

\* Drop for JavaThread: detaches the thread it runs on and ignores a refusal.
DropGuard(t, g) ==
  /\ guard[g].holder = t
  /\ ProgramRuns(t)
  /\ Detach(t)
  /\ guard' = [h \in Guards |->
                 IF h = g THEN NoGuard
                 ELSE IF guard[h].home = t THEN [guard[h] EXCEPT !.disturbed = TRUE]
                 ELSE guard[h]]
  /\ UNCHANGED <<buildVars, live, depth, inJava>>

\* The thread is done, the guards it owned are dropped: the JVM detaches it.
ThreadEnds(t) ==
  /\ ProgramRuns(t)
  /\ ~CalledByJava(t)
  /\ \A g \in Guards : guard[g].holder # t
  /\ live' = [live EXCEPT ![t] = FALSE]
  /\ attached' = [attached EXCEPT ![t] = FALSE]
  /\ UNCHANGED <<buildVars, depth, inJava, guard>>

Next ==
  \E t \in Threads :
    \/ StartBuild(t)
    \/ TakeLock(t)
    \/ BadArgs(t)
    \/ BuildPanics(t)
    \/ CheckSingleton(t)
    \/ CreateJvm(t)
    \/ FromEnv(t)
    \/ WithEnv(t)
    \/ CallsNative(t)
    \/ NativeReturns(t)
    \/ EnvReturns(t)
    \/ ThreadEnds(t)
    \/ \E g \in Guards :
         \/ AttachThread(t, g)
         \/ MoveGuard(g, t)
         \/ DropGuard(t, g)

Spec == Init /\ [][Next]_vars

-----------------------------------------------------------------------------
(***************************************************************************)
(* Properties.                                                             *)
(***************************************************************************)
TypeOK ==
  /\ hosts \subseteq HostThreads
  /\ jvms \in 0..1
  /\ singleton \in BOOLEAN
  /\ lock \in Threads \cup {None}
  /\ build \in [Threads -> Building \cup Outcomes]
  /\ live \in [Threads -> BOOLEAN]
  /\ attached \in [Threads -> BOOLEAN]
  /\ depth \in [Threads -> Nat]
  /\ inJava \in [Threads -> BOOLEAN]
  /\ guard \in [Guards -> Guard]

\* build: "Safe to call concurrently from multiple threads: creation is
\* serialized, so every caller ends up with the one process-wide JVM".  A
\* build fails for a reason of its own -- its options, no JDK, a panic -- and
\* never because another thread creates the JVM or created it; only the JVM of
\* a Java host is in its way.
RacesAreHarmless ==
  \A t \in Threads :
    /\ build[t] = "exists" => hosts # {}
    /\ build[t] = "ok" => jvms = 1 /\ singleton

\* The thread of an operation is attached until the operation returns,
\* whatever guards native methods under it and other threads drop; and
\* JavaThread: "While it exists, the calling thread is attached", unless
\* another guard was dropped on that thread meanwhile.
StaysAttached ==
  /\ \A t \in Threads : depth[t] > 0 => attached[t]
  /\ \A g \in Guards :
       (guard[g] # NoGuard /\ ~guard[g].disturbed /\ live[guard[g].home])
         => attached[guard[g].home]
=============================================================================
