------------------------------ MODULE UserData ------------------------------
(***************************************************************************)
(* The userdata registry (userdata.rs): Rust state bound to Java objects,  *)
(* keyed by their identity hash and guarded by one mutex.  Bindings hold   *)
(* weak references, so the collector runs between any two steps of an      *)
(* operation, under the registry lock or not, and a background cleaner     *)
(* removes what the collector left dead.                                   *)
(***************************************************************************)
EXTENDS Naturals

CONSTANTS
  Threads,         \* the threads that call bind, get, unbind, create_shell
  Objects,         \* the Java objects that ever exist
  Keys,            \* identity hashes
  HashOf,          \* System.identityHashCode of each object
  States,          \* the Rust values bound
  TypeOf,          \* the type of each
  Types,           \* the types get may ask for
  Reentrant,       \* the values whose Drop calls userdata itself
  CleanerMayFail,  \* the cleaner thread may not be spawned
  JniMayFail,      \* JNI calls may fail
  None, NoState, NoAnswer, Nobody

Cleaner == "cleaner"

ASSUME UserDataAssumption ==
  /\ HashOf \in [Objects -> Keys]
  /\ TypeOf \in [States -> Types]
  /\ Reentrant \subseteq States
  /\ CleanerMayFail \in BOOLEAN /\ JniMayFail \in BOOLEAN
  /\ Cleaner \notin Threads
  /\ Nobody \notin Threads \cup {Cleaner}
  /\ NoState \notin States
  /\ None \notin [obj : Objects, state : States]

VARIABLES
  unborn,    \* the objects not constructed yet
  heap,      \* the objects constructed and not collected
  held,      \* the objects the application holds a strong reference to
  registry,  \* REGISTRY: key -> binding
  lock,      \* who holds its mutex
  op,        \* the operation each thread is in
  cleaner,   \* CLEANER: whether the thread was spawned, or could not be
  answer     \* history: the last lookup that was answered

vars == <<unborn, heap, held, registry, lock, op, cleaner, answer>>
objects == <<unborn, heap, held>>

Binding == [obj : Objects, state : States]
Operation == [name : {"bind", "get", "unbind", "create"}, obj : Objects,
              state : States \cup {None}, type : Types \cup {None},
              pc : {"hash", "check", "store", "stuck"}]
Idle == [pc |-> "idle"]

Holder(t) == op[t].pc \in {"check", "store", "stuck"}
Busy(t) == op[t].pc # "idle"

\* An operation borrows a handle, which is a strong global reference.
InUse(o) == o \in held \/ \E t \in Threads : Busy(t) /\ op[t].obj = o

\* A Drop that calls userdata waits for the mutex its own thread holds.
Stuck == lock = Cleaner \/ \E t \in Threads : op[t].pc = "stuck"

Dead(k) == registry[k] # None /\ registry[k].obj \notin heap

\* Ranges, and what the lock and the references must agree on: a thread under
\* the lock is its owner, and an object in use was not collected.
TypeOK ==
  /\ unborn \subseteq Objects /\ heap \subseteq Objects \ unborn
  /\ held \subseteq heap
  /\ registry \in [Keys -> Binding \cup {None}]
  /\ \A k \in Keys : registry[k] # None => HashOf[registry[k].obj] = k
  /\ lock \in Threads \cup {Nobody, Cleaner}
  /\ op \in [Threads -> Operation \cup {Idle}]
  /\ \A t \in Threads : Holder(t) <=> lock = t
  /\ \A t \in Threads : Busy(t) => op[t].obj \in heap
  /\ cleaner \in {"unspawned", "running", "failed"}
  /\ answer \in [obj : Objects, is : States \cup {NoState}] \cup {NoAnswer}

Init ==
  /\ unborn = Objects
  /\ heap = {}
  /\ held = {}
  /\ registry = [k \in Keys |-> None]
  /\ lock = Nobody
  /\ op = [t \in Threads |-> Idle]
  /\ cleaner = "unspawned"
  /\ answer = NoAnswer

-----------------------------------------------------------------------------
(***************************************************************************)
(* The JVM.                                                                *)
(***************************************************************************)

\* The application constructs a shell and keeps a reference to it.
New(o) ==
  /\ o \in unborn
  /\ unborn' = unborn \ {o}
  /\ heap' = heap \cup {o}
  /\ held' = held \cup {o}
  /\ UNCHANGED <<registry, lock, op, cleaner, answer>>

Release(o) ==
  /\ held' = held \ {o}
  /\ o \in held
  /\ UNCHANGED <<unborn, heap, registry, lock, op, cleaner, answer>>

\* The collector takes an object nobody refers to, weak references aside.
Collect(o) ==
  /\ o \in heap
  /\ ~InUse(o)
  /\ heap' = heap \ {o}
  /\ UNCHANGED <<unborn, held, registry, lock, op, cleaner, answer>>

-----------------------------------------------------------------------------
(***************************************************************************)
(* The operations.                                                         *)
(***************************************************************************)

Start(t, name, o, s, ty) ==
  /\ op[t].pc = "idle"
  /\ op' = [op EXCEPT ![t] = [name |-> name, obj |-> o, state |-> s,
                              type |-> ty, pc |-> "hash"]]
  /\ UNCHANGED <<registry, lock, answer>>

\* The first bind spawns the cleaner; a failure is logged and not retried.
EnsureCleaner ==
  IF cleaner = "unspawned"
    THEN cleaner' \in {"running"} \cup (IF CleanerMayFail THEN {"failed"} ELSE {})
    ELSE UNCHANGED cleaner

StartBind(t, o, s) ==
  /\ o \in held
  /\ EnsureCleaner
  /\ Start(t, "bind", o, s, None)
  /\ UNCHANGED objects

\* create_shell constructs the object and goes on as bind does.
CreateShell(t, o, s) ==
  /\ o \in unborn
  /\ unborn' = unborn \ {o}
  /\ heap' = heap \cup {o}
  /\ EnsureCleaner
  /\ Start(t, "create", o, s, None)
  /\ UNCHANGED held

StartGet(t, o, ty) ==
  /\ o \in held
  /\ Start(t, "get", o, None, ty)
  /\ UNCHANGED <<objects, cleaner>>

StartUnbind(t, o) ==
  /\ o \in held
  /\ Start(t, "unbind", o, None, None)
  /\ UNCHANGED <<objects, cleaner>>

To(t, pc) == op' = [op EXCEPT ![t].pc = pc]

\* (A bug would be to leave the guard alive.)
BugKeepsLock(t, ok) ==
  /\ op' = [op EXCEPT ![t] = Idle]
  /\ held' = IF ok /\ op[t].name = "create" THEN held \cup {op[t].obj} ELSE held
  /\ UNCHANGED <<unborn, heap, lock, cleaner>>

\* The operation returns and unlocks; create_shell hands out its object if the
\* bind succeeded.
Finish(t, ok) ==
  /\ op' = [op EXCEPT ![t] = Idle]
  /\ lock' = IF lock = t THEN Nobody ELSE lock
  /\ held' = IF ok /\ op[t].name = "create" THEN held \cup {op[t].obj} ELSE held
  /\ UNCHANGED <<unborn, heap, cleaner>>

\* The Rust states that leave the registry in a step are dropped there and
\* then, with the mutex held (unless a get still holds a clone): a Drop that
\* calls userdata waits for a mutex its own thread owns.
LosesReentrant ==
  \E k \in Keys :
    /\ registry[k] # None
    /\ registry'[k] # registry[k]
    /\ registry[k].state \in Reentrant

Stick(t) ==
  /\ LosesReentrant
  /\ lock' = t
  /\ To(t, "stuck")
  /\ UNCHANGED <<objects, cleaner, answer>>

\* (A bug would be to judge by the application's references: the weak
\* reference of a shell only the collector knows about still resolves.)
BugDrainDead ==
  [k \in Keys |-> IF registry[k] # None /\ registry[k].obj \notin held
                    THEN None ELSE registry[k]]

\* (A bug would be to drain nothing.)
BugDrainNothing == registry

\* drain_dead: what is left when every binding whose weak reference no longer
\* resolves is removed.
DrainDead == [k \in Keys |-> IF Dead(k) THEN None ELSE registry[k]]

LockAndDrain(t) ==
  /\ op[t].pc = "hash"
  /\ lock = Nobody
  /\ registry' = DrainDead
  /\ \/ /\ lock' = t
        /\ To(t, "check")
        /\ UNCHANGED <<objects, cleaner, answer>>
     \/ Stick(t)

\* Hashing, comparing or making the weak reference fails in JNI.
JniFails(t) ==
  /\ JniMayFail
  /\ op[t].pc \in {"hash", "check", "store"}
  /\ Finish(t, FALSE)
  /\ UNCHANGED <<registry, answer>>

KeyOf(t) == HashOf[op[t].obj]
Found(t) == registry[KeyOf(t)]

\* (A bug would be to trust the key.)
BugSame(t) == Found(t) # None

\* upgrade_local gives the object, and IsSameObject says it is this one.
Same(t) == Found(t) # None /\ Found(t).obj = op[t].obj

\* bind goes on if the key is free or its own; the binding of another object,
\* live or collected since the drain, refuses it.
CheckBind(t) ==
  /\ op[t].pc = "check"
  /\ op[t].name \in {"bind", "create"}
  /\ IF Found(t) = None \/ Same(t)
       THEN To(t, "store") /\ UNCHANGED <<objects, lock, cleaner>>
       ELSE Finish(t, FALSE)
  /\ UNCHANGED <<registry, answer>>

StoreBind(t) ==
  /\ op[t].pc = "store"
  /\ registry' = [registry EXCEPT ![KeyOf(t)] =
                    [obj |-> op[t].obj, state |-> op[t].state]]
  /\ \/ Finish(t, TRUE) /\ UNCHANGED answer
     \/ Stick(t)

\* get answers with the state of this very object, if it has the type asked
\* for; the downcast comes after the unlock and reads nothing shared.
CheckGet(t) ==
  /\ op[t].pc = "check"
  /\ op[t].name = "get"
  /\ answer' = IF ~Same(t)
                 THEN [obj |-> op[t].obj, is |-> NoState]
                 ELSE IF TypeOf[Found(t).state] = op[t].type
                        THEN [obj |-> op[t].obj, is |-> Found(t).state]
                        ELSE answer
  /\ Finish(t, TRUE)
  /\ UNCHANGED registry

CheckUnbind(t) ==
  /\ op[t].pc = "check"
  /\ op[t].name = "unbind"
  /\ registry' = IF Same(t) THEN [registry EXCEPT ![KeyOf(t)] = None] ELSE registry
  /\ \/ Finish(t, TRUE) /\ UNCHANGED answer
     \/ Stick(t)

Proceed(t) ==
  LockAndDrain(t) \/ CheckBind(t) \/ StoreBind(t) \/ CheckGet(t) \/ CheckUnbind(t)

\* One tick of the cleaner thread.
CleanerTick ==
  /\ cleaner = "running"
  /\ lock = Nobody
  /\ registry' = DrainDead
  /\ \/ UNCHANGED lock
     \/ LosesReentrant /\ lock' = Cleaner
  /\ UNCHANGED <<objects, op, cleaner, answer>>

Next ==
  \/ \E o \in Objects : New(o) \/ Release(o) \/ Collect(o)
  \/ \E t \in Threads :
       \/ \E o \in Objects, s \in States : StartBind(t, o, s) \/ CreateShell(t, o, s)
       \/ \E o \in Objects, ty \in Types : StartGet(t, o, ty)
       \/ \E o \in Objects : StartUnbind(t, o)
       \/ JniFails(t)
       \/ Proceed(t)
  \/ CleanerTick

(***************************************************************************)
(* Threads run; parking_lot's mutex is eventually fair, and the cleaner    *)
(* wakes every half second.                                                *)
(***************************************************************************)
Fairness ==
  /\ \A t \in Threads : SF_vars(Proceed(t))
  /\ SF_vars(CleanerTick)

Spec == Init /\ [][Next]_vars /\ Fairness

-----------------------------------------------------------------------------
(***************************************************************************)
(* Properties.                                                             *)
(***************************************************************************)

\* The state of o that a lookup would find.
StateOf(o) ==
  IF o \in heap /\ registry[HashOf[o]] # None /\ registry[HashOf[o]].obj = o
    THEN registry[HashOf[o]].state
    ELSE NoState

Abstract ==
  INSTANCE ObjectState WITH attached <- [o \in Objects |-> StateOf(o)]

\* "a colliding object never sees another object's state", and no operation
\* on one object -- no drain, no re-bind, no unbind of a colliding object, in
\* any interleaving with the collector -- touches the binding of another.
ImplementsObjectState == Abstract!Spec

\* What is bound to a live object changes only through a successful bind or
\* unbind of that object: refused and failed operations change nothing.
LiveStateIsKept ==
  [][\A o \in heap \cap heap' :
       StateOf(o)' # StateOf(o) =>
         \E t \in Threads :
           /\ op[t].pc \in {"check", "store"}
           /\ op[t].obj = o
           /\ op[t].name # "get"]_vars

\* "its Rust state is released automatically" once the shell is collected, by
\* the cleaner alone if nobody calls userdata again, until a re-entrant Drop
\* blocks the registry.
DeadIsReleased ==
  \A o \in Objects :
    (/\ cleaner = "running"
     /\ registry[HashOf[o]] # None
     /\ registry[HashOf[o]].obj = o
     /\ o \notin heap)
      ~> (registry[HashOf[o]] = None \/ registry[HashOf[o]].obj # o \/ Stuck)

\* Every operation returns, however the others, the cleaner and failing JNI
\* calls interleave with it, until a re-entrant Drop blocks the registry.
OperationsReturn == \A t \in Threads : Busy(t) ~> (~Busy(t) \/ Stuck)
=============================================================================
