----------------------------- MODULE BoundClass -----------------------------
(***************************************************************************)
(* The class of a bind! wrapper (rjava-macros: JavaBound::class; bind.rs;  *)
(* java.rs: new), on the threads of JvmAttach: an access of the wrapper    *)
(* takes the class from a OnceLock, and looks it up by name if there is    *)
(* none yet.  FindClass asks the class loader of the native method that    *)
(* runs on the thread, or the system's if there is none, and different     *)
(* loaders may have different classes of one name.                         *)
(***************************************************************************)
EXTENDS JvmAttach

CONSTANTS
  Classes,     \* the classes that have the wrapper's name
  SystemClass  \* the one on the class path of the JVM, or None

ASSUME BoundClassAssumption ==
  /\ SystemClass \in Classes \cup {None}
  /\ None \notin Classes

VARIABLES
  cache,  \* CLASS, the OnceLock of the wrapper
  found,  \* where the class() of a thread is, and what its look-up found
  used    \* history: the classes that accesses of the wrapper worked with

classVars == <<cache, found, used>>
boundVars == <<vars, classVars>>

\* Idle: no access is in class(); Looking: CLASS was empty; the found class: it
\* has yet to be cached.
Idle == "idle"
Looking == "looking"

BoundInit ==
  /\ Init
  /\ cache = None
  /\ found = [t \in Threads |-> Idle]
  /\ used = {}

-----------------------------------------------------------------------------
\* The access has its class.
Uses(c) == used' = used \cup {c}

\* CLASS.get(): the cached class, or a look-up.
GetClass(t) ==
  /\ inJava[t]
  /\ found[t] = Idle
  /\ IF cache # None
       THEN /\ Uses(cache)
            /\ UNCHANGED found
       ELSE /\ found' = [found EXCEPT ![t] = Looking]
            /\ UNCHANGED used
  /\ UNCHANGED <<vars, cache>>

\* What FindClass may find on the thread: a native method is under the
\* operation if Java started the thread or the operation is a nested one.
Visible(t) ==
  IF t \in hosts \/ depth[t] > 1 THEN Classes \cup {None} ELSE {SystemClass}

\* find_class_global: the class, or NoClassDefFoundError, which ends the access
\* and is not cached.
FindClassGlobal(t) ==
  /\ found[t] = Looking
  /\ \E c \in Visible(t) :
       found' = [found EXCEPT ![t] = IF c = None THEN Idle ELSE c]
  /\ UNCHANGED <<vars, cache, used>>

\* (A bug would be to go on with the class that was looked up.)
BugGetOrInit(t) ==
  /\ found[t] \in Classes
  /\ cache' = IF cache = None THEN found[t] ELSE cache
  /\ Uses(found[t])
  /\ found' = [found EXCEPT ![t] = Idle]
  /\ UNCHANGED vars

\* CLASS.get_or_init(|| class): who loses the race drops its own.
GetOrInit(t) ==
  /\ found[t] \in Classes
  /\ cache' = IF cache = None THEN found[t] ELSE cache
  /\ Uses(cache')
  /\ found' = [found EXCEPT ![t] = Idle]
  /\ UNCHANGED vars

\* The steps of JvmAttach; a thread in class() takes none of its own, but for
\* its guards, which others move.
AttachStep(t) ==
  \/ StartBuild(t)
  \/ TakeLock(t)
  \/ BadArgs(t)
  \/ BuildPanics(t)
  \/ CheckSingleton(t)
  \/ CreateJvm(t)
  \/ FromEnv(t)
  \/ WithEnv(t)
  \/ found[t] = Idle /\ CallsNative(t)
  \/ NativeReturns(t)
  \/ found[t] = Idle /\ EnvReturns(t)
  \/ ThreadEnds(t)
  \/ \E g \in Guards :
       \/ AttachThread(t, g)
       \/ MoveGuard(g, t)
       \/ DropGuard(t, g)

BoundNext ==
  \E t \in Threads :
    \/ AttachStep(t) /\ UNCHANGED classVars
    \/ GetClass(t)
    \/ FindClassGlobal(t)
    \/ GetOrInit(t)

BoundSpec == BoundInit /\ [][BoundNext]_boundVars

-----------------------------------------------------------------------------
(***************************************************************************)
(* Properties.                                                             *)
(***************************************************************************)
BoundTypeOK ==
  /\ TypeOK
  /\ cache \in Classes \cup {None}
  /\ found \in [Threads -> Classes \cup {Idle, Looking}]
  /\ used \subseteq Classes

\* "The first caller does the lookup; the loser of the `get_or_init` race drops
\* its redundant reference": all accesses of a wrapper work with one class, so
\* that an object that new() constructed is of the class whose static fields the
\* wrapper reads, although different threads' look-ups may find different ones.
OneClassPerWrapper == \A c, d \in used : c = d
=============================================================================
