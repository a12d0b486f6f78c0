---------------------------- MODULE UserData_proofs ----------------------------
(***************************************************************************)
(* Proofs about the userdata registry, for every number of threads,        *)
(* objects and states and every collision of hashes: the registry and its  *)
(* lock implement ObjectState, and nothing but an operation on an object   *)
(* changes what is bound to it while it lives.                             *)
(***************************************************************************)
EXTENDS UserData, TLAPS

\* An operation that stores has a state to store, and a free key or its own to
\* store it under: it keeps the lock from the check to the store.
StoresAreChecked ==
  \A t \in Threads :
    /\ (Busy(t) /\ op[t].name \in {"bind", "create"}) => op[t].state \in States
    /\ op[t].pc = "store" =>
         /\ op[t].name \in {"bind", "create"}
         /\ Found(t) = None \/ Found(t).obj = op[t].obj

\* Nothing is bound to an object that does not exist yet.
BoundAreBorn == \A k \in Keys : registry[k] # None => registry[k].obj \notin unborn

\* The inductive invariant.
Inv == TypeOK /\ StoresAreChecked /\ BoundAreBorn

\* The steps of the collector and of the application's references, the starts of
\* operations, and the steps under the lock.
HeapStep == \E o \in Objects : New(o) \/ Release(o) \/ Collect(o)

StartStep(t) ==
  \/ \E o \in Objects, s \in States : StartBind(t, o, s) \/ CreateShell(t, o, s)
  \/ \E o \in Objects, ty \in Types : StartGet(t, o, ty)
  \/ \E o \in Objects : StartUnbind(t, o)

-----------------------------------------------------------------------------

LEMMA NextCases ==
  ASSUME [Next]_vars
  PROVE  \/ HeapStep
         \/ \E t \in Threads : StartStep(t) \/ JniFails(t) \/ Proceed(t)
         \/ CleanerTick
         \/ UNCHANGED vars
BY DEF Next, HeapStep, StartStep

\* An operation of a thread works on an object, by its key.
LEMMA OperationObject ==
  ASSUME TypeOK, NEW t \in Threads, Busy(t)
  PROVE  /\ op[t] \in Operation
         /\ op[t].obj \in Objects
         /\ KeyOf(t) \in Keys
         /\ op[t].obj \in heap
BY UserDataAssumption DEF TypeOK, Busy, Operation, Idle, KeyOf

LEMMA InvInit == Init => Inv
BY UserDataAssumption
DEF Init, Inv, TypeOK, StoresAreChecked, BoundAreBorn, Holder, Busy, Idle, Found, KeyOf

\* Heap steps leave operations, lock and registry alone and take no object that
\* an operation is on.
LEMMA HeapInv ==
  ASSUME Inv, HeapStep
  PROVE  Inv'
<1>1. PICK o \in Objects : New(o) \/ Release(o) \/ Collect(o)
  BY DEF HeapStep
<1>2. UNCHANGED <<registry, lock, op, cleaner, answer>>
  BY <1>1 DEF New, Release, Collect
<1>3. unborn' \subseteq unborn /\ held' \subseteq heap' /\ heap' \subseteq Objects \ unborn'
  BY <1>1 DEF New, Release, Collect, Inv, TypeOK, InUse
<1>4. \A t \in Threads : Busy(t) => op[t].obj \in heap'
  BY <1>1 DEF New, Release, Collect, Inv, TypeOK, InUse
<1>5. TypeOK'
  BY <1>2, <1>3, <1>4 DEF Inv, TypeOK, Holder, Busy
<1>6. StoresAreChecked' /\ BoundAreBorn'
  BY <1>2, <1>3 DEF Inv, StoresAreChecked, BoundAreBorn, Busy, Found, KeyOf
<1> QED
  BY <1>5, <1>6 DEF Inv

\* An operation starts on an object that exists, before it asks for the lock.
LEMMA StartInv ==
  ASSUME Inv, NEW t \in Threads, StartStep(t)
  PROVE  Inv'
<1>1. PICK o \in Objects, name \in {"bind", "get", "unbind", "create"},
           s \in States \cup {None}, ty \in Types \cup {None} :
        /\ Start(t, name, o, s, ty)
        /\ name \in {"bind", "create"} => s \in States
        /\ o \in heap'
        /\ unborn' \subseteq unborn /\ heap \subseteq heap' /\ UNCHANGED held
        /\ heap' \subseteq Objects \ unborn'
        /\ cleaner' \in {"unspawned", "running", "failed"}
  <2>1. ASSUME NEW o \in Objects, NEW s \in States, StartBind(t, o, s)
        PROVE  Start(t, "bind", o, s, None) /\ o \in heap' /\ UNCHANGED objects
               /\ cleaner' \in {"unspawned", "running", "failed"}
    BY <2>1 DEF StartBind, EnsureCleaner, Inv, TypeOK, objects
  <2>2. ASSUME NEW o \in Objects, NEW s \in States, CreateShell(t, o, s)
        PROVE  /\ Start(t, "create", o, s, None)
               /\ o \in heap' /\ unborn' = unborn \ {o} /\ heap' = heap \cup {o}
               /\ UNCHANGED held
               /\ cleaner' \in {"unspawned", "running", "failed"}
    BY <2>2 DEF CreateShell, EnsureCleaner, Inv, TypeOK
  <2>3. ASSUME NEW o \in Objects, NEW ty \in Types, StartGet(t, o, ty)
        PROVE  Start(t, "get", o, None, ty) /\ o \in heap'
               /\ UNCHANGED <<objects, cleaner>>
    BY <2>3 DEF StartGet, Inv, TypeOK, objects
  <2>4. ASSUME NEW o \in Objects, StartUnbind(t, o)
        PROVE  Start(t, "unbind", o, None, None) /\ o \in heap'
               /\ UNCHANGED <<objects, cleaner>>
    BY <2>4 DEF StartUnbind, Inv, TypeOK, objects
  <2> QED
    BY <2>1, <2>2, <2>3, <2>4 DEF StartStep, Inv, TypeOK, objects
<1> DEFINE new == [name |-> name, obj |-> o, state |-> s, type |-> ty, pc |-> "hash"]
<1>2. /\ op[t].pc = "idle" /\ op' = [op EXCEPT ![t] = new]
      /\ UNCHANGED <<registry, lock, answer>>
  BY <1>1 DEF Start
<1>3. new \in Operation
  BY DEF Operation
<1>4. TypeOK'
  <2>1. op' \in [Threads -> Operation \cup {Idle}]
    BY <1>2, <1>3 DEF Inv, TypeOK
  <2>2. \A u \in Threads : u # t => op'[u] = op[u]
    BY <1>2 DEF Inv, TypeOK
  <2>3. op'[t] = new
    BY <1>2 DEF Inv, TypeOK
  <2> QED
    BY <1>1, <1>2, <2>1, <2>2, <2>3 DEF Inv, TypeOK, Holder, Busy
<1>5. StoresAreChecked' /\ BoundAreBorn'
  BY <1>1, <1>2 DEF Inv, TypeOK, StoresAreChecked, BoundAreBorn, Busy, Found, KeyOf
<1> QED
  BY <1>4, <1>5 DEF Inv

\* An operation that returns: with or without the lock, it leaves only objects
\* that exist in the hands of the application.
LEMMA FinishInv ==
  ASSUME Inv, NEW t \in Threads, NEW ok \in BOOLEAN, Busy(t), Finish(t, ok),
         registry' \in [Keys -> Binding \cup {None}],
         \A k \in Keys : registry'[k] # None =>
           HashOf[registry'[k].obj] = k /\ registry'[k].obj \notin unborn,
         op[t].pc \in {"check", "store"} \/ UNCHANGED registry,
         answer' \in [obj : Objects, is : States \cup {NoState}] \cup {NoAnswer}
  PROVE  Inv'
<1>1. op' = [op EXCEPT ![t] = Idle] /\ UNCHANGED <<unborn, heap, cleaner>>
  BY DEF Finish
<1>2. held' \subseteq heap'
  BY OperationObject DEF Finish, Inv, TypeOK
<1>3. /\ op' \in [Threads -> Operation \cup {Idle}]
      /\ op'[t] = Idle
      /\ \A u \in Threads : u # t => op'[u] = op[u]
  BY <1>1 DEF Inv, TypeOK
<1>4. lock' \in Threads \cup {Nobody, Cleaner} /\ (\A u \in Threads : Holder(u)' <=> lock' = u)
  BY <1>3, UserDataAssumption DEF Finish, Inv, TypeOK, Holder, Idle
<1>5. TypeOK'
  BY <1>1, <1>2, <1>3, <1>4 DEF Inv, TypeOK, Holder, Busy, Idle
<1>6. StoresAreChecked'
  <2>1. ASSUME NEW u \in Threads, op'[u].pc = "store"
        PROVE  /\ op[u].name \in {"bind", "create"} /\ UNCHANGED registry
               /\ op'[u] = op[u]
    BY <1>3, <2>1 DEF Inv, TypeOK, StoresAreChecked, Holder, Idle
  <2> QED
    BY <1>3, <2>1 DEF Inv, StoresAreChecked, Busy, Found, KeyOf, Idle
<1>7. BoundAreBorn'
  BY <1>1 DEF BoundAreBorn
<1> QED
  BY <1>5, <1>6, <1>7 DEF Inv

\* An operation that goes on under the lock, to where it may be.
LEMMA ToInv ==
  ASSUME Inv, NEW t \in Threads, Busy(t),
         NEW pc \in {"check", "store", "stuck"}, To(t, pc),
         lock \in {Nobody, t}, lock' = t,
         UNCHANGED <<objects, answer>>, cleaner' = cleaner,
         registry' \in [Keys -> Binding \cup {None}],
         \A k \in Keys : registry'[k] # None =>
           HashOf[registry'[k].obj] = k /\ registry'[k].obj \notin unborn,
         pc = "store" =>
           /\ UNCHANGED registry
           /\ op[t].name \in {"bind", "create"}
           /\ Found(t) = None \/ Found(t).obj = op[t].obj
  PROVE  Inv'
<1>1. /\ op' \in [Threads -> Operation \cup {Idle}]
      /\ op'[t] = [op[t] EXCEPT !.pc = pc]
      /\ \A u \in Threads : u # t => op'[u] = op[u]
  BY OperationObject DEF To, Inv, TypeOK, Operation
<1>2. \A u \in Threads : Holder(u)' <=> lock' = u
  BY <1>1, UserDataAssumption, OperationObject DEF Inv, TypeOK, Holder, Operation
<1>3. \A u \in Threads : Busy(u)' => op'[u].obj \in heap'
  BY <1>1, OperationObject DEF Inv, TypeOK, Busy, objects, Operation
<1>4. TypeOK'
  BY <1>1, <1>2, <1>3 DEF Inv, TypeOK, objects
<1>5. StoresAreChecked'
  <2>1. ASSUME NEW u \in Threads, u # t PROVE op'[u].pc # "store"
    BY <1>1, <1>2, <2>1 DEF Holder
  <2>2. /\ op'[t].pc = pc /\ op'[t].name = op[t].name /\ op'[t].state = op[t].state
        /\ op'[t].obj = op[t].obj
    BY <1>1, OperationObject DEF Inv, Operation
  <2> QED
    BY <1>1, <2>1, <2>2 DEF Inv, StoresAreChecked, Busy, Found, KeyOf
<1>6. BoundAreBorn'
  BY DEF BoundAreBorn, objects
<1> QED
  BY <1>4, <1>5, <1>6 DEF Inv

\* drain_dead only removes bindings.
LEMMA DrainRemoves ==
  ASSUME Inv
  PROVE  /\ DrainDead \in [Keys -> Binding \cup {None}]
         /\ \A k \in Keys : DrainDead[k] # None =>
              DrainDead[k] = registry[k] /\ HashOf[DrainDead[k].obj] = k
              /\ DrainDead[k].obj \notin unborn
BY DEF DrainDead, Inv, TypeOK, BoundAreBorn

\* The steps of an operation from the lock to its return.
LEMMA ProceedInv ==
  ASSUME Inv, NEW t \in Threads, Proceed(t)
  PROVE  Inv'
<1>1. CASE LockAndDrain(t)
  <2>1. Busy(t) /\ lock = Nobody /\ registry' = DrainDead
        /\ \E pc \in {"check", "stuck"} :
             To(t, pc) /\ lock' = t /\ UNCHANGED <<objects, cleaner, answer>>
    BY <1>1 DEF LockAndDrain, Stick, Busy
  <2> QED
    BY <2>1, ToInv, DrainRemoves
<1>2. CASE CheckBind(t)
  <2>1. Busy(t) /\ lock = t /\ UNCHANGED <<registry, answer>>
    BY <1>2 DEF CheckBind, Inv, TypeOK, Holder, Busy
  <2>2. CASE Finish(t, FALSE)
    BY <2>1, <2>2, FinishInv DEF Inv, TypeOK, BoundAreBorn
  <2>3. CASE /\ op[t].name \in {"bind", "create"}
             /\ Found(t) = None \/ Same(t)
             /\ To(t, "store") /\ UNCHANGED <<objects, lock, cleaner>>
    <3>1. Found(t) = None \/ Found(t).obj = op[t].obj
      BY <2>3 DEF Same
    <3>2. lock' = t /\ UNCHANGED <<objects, answer>> /\ cleaner' = cleaner
      BY <2>1, <2>3
    <3> QED
      BY <2>1, <2>3, <3>1, <3>2, ToInv DEF Inv, TypeOK, BoundAreBorn
  <2> QED
    BY <1>2, <2>2, <2>3 DEF CheckBind
<1>3. CASE StoreBind(t)
  <2>1. Busy(t) /\ lock = t /\ op[t].pc = "store"
    BY <1>3 DEF StoreBind, Inv, TypeOK, Holder, Busy
  <2>2. op[t].obj \in Objects /\ op[t].state \in States /\ KeyOf(t) \in Keys
        /\ op[t].obj \in heap
    BY <2>1, OperationObject DEF Inv, StoresAreChecked
  <2> DEFINE new == [obj |-> op[t].obj, state |-> op[t].state]
  <2>3. registry' = [registry EXCEPT ![KeyOf(t)] = new]
    BY <1>3 DEF StoreBind
  <2>4. registry' \in [Keys -> Binding \cup {None}]
    BY <2>2, <2>3 DEF Inv, TypeOK, Binding
  <2>5. \A k \in Keys : registry'[k] # None =>
          HashOf[registry'[k].obj] = k /\ registry'[k].obj \notin unborn
    BY <2>2, <2>3 DEF Inv, TypeOK, BoundAreBorn, KeyOf
  <2>6. \/ Finish(t, TRUE) /\ UNCHANGED answer
        \/ To(t, "stuck") /\ lock' = t /\ UNCHANGED <<objects, cleaner, answer>>
    BY <1>3 DEF StoreBind, Stick
  <2> QED
    BY <2>1, <2>4, <2>5, <2>6, FinishInv, ToInv DEF Inv, TypeOK
<1>4. CASE CheckGet(t)
  <2>1. Busy(t) /\ Finish(t, TRUE) /\ UNCHANGED registry
    BY <1>4 DEF CheckGet, Busy
  <2>2. Same(t) => Found(t).state \in States
    BY <2>1, OperationObject, UserDataAssumption DEF Same, Found, Inv, TypeOK, Binding
  <2>3. answer' \in [obj : Objects, is : States \cup {NoState}] \cup {NoAnswer}
    BY <1>4, <2>1, <2>2, OperationObject DEF CheckGet, Inv, TypeOK
  <2> QED
    BY <2>1, <2>3, FinishInv DEF Inv, TypeOK, BoundAreBorn
<1>5. CASE CheckUnbind(t)
  <2>1. Busy(t) /\ lock = t /\ op[t].pc = "check"
    BY <1>5 DEF CheckUnbind, Inv, TypeOK, Holder, Busy
  <2>2. registry' = IF Same(t) THEN [registry EXCEPT ![KeyOf(t)] = None] ELSE registry
    BY <1>5 DEF CheckUnbind
  <2>3. registry' \in [Keys -> Binding \cup {None}]
    BY <2>2 DEF Inv, TypeOK
  <2>4. \A k \in Keys : registry'[k] # None =>
          HashOf[registry'[k].obj] = k /\ registry'[k].obj \notin unborn
    BY <2>2 DEF Inv, TypeOK, BoundAreBorn
  <2>5. \/ Finish(t, TRUE) /\ UNCHANGED answer
        \/ To(t, "stuck") /\ lock' = t /\ UNCHANGED <<objects, cleaner, answer>>
    BY <1>5 DEF CheckUnbind, Stick
  <2> QED
    BY <2>1, <2>3, <2>4, <2>5, FinishInv, ToInv DEF Inv, TypeOK
<1> QED
  BY <1>1, <1>2, <1>3, <1>4, <1>5 DEF Proceed

\* A failing operation changes nothing but its own stage and the lock; the
\* cleaner drains while nobody is under the lock.
LEMMA FailureInv ==
  ASSUME Inv, NEW t \in Threads, JniFails(t)
  PROVE  Inv'
<1>1. Busy(t) /\ Finish(t, FALSE) /\ UNCHANGED <<registry, answer>>
  BY DEF JniFails, Busy
<1> QED
  BY <1>1, FinishInv DEF Inv, TypeOK, BoundAreBorn

LEMMA CleanerInv ==
  ASSUME Inv, CleanerTick
  PROVE  Inv'
<1>1. /\ UNCHANGED <<unborn, heap, held, op, cleaner, answer>>
      /\ registry' = DrainDead
      /\ lock = Nobody /\ lock' \in {Nobody, Cleaner}
  BY DEF CleanerTick, objects
<1>2. \A u \in Threads : ~Holder(u) /\ lock' # u
  BY <1>1, UserDataAssumption DEF Inv, TypeOK
<1>3. TypeOK'
  BY <1>1, <1>2, DrainRemoves DEF Inv, TypeOK, Holder, Busy
<1>4. StoresAreChecked'
  BY <1>1, <1>2 DEF Inv, StoresAreChecked, Busy, Holder
<1>5. BoundAreBorn'
  BY <1>1, DrainRemoves DEF BoundAreBorn
<1> QED
  BY <1>3, <1>4, <1>5 DEF Inv

LEMMA InvStep == Inv /\ [Next]_vars => Inv'
<1> SUFFICES ASSUME Inv, [Next]_vars PROVE Inv'
  OBVIOUS
<1>1. CASE UNCHANGED vars
  BY <1>1 DEF vars, Inv, TypeOK, StoresAreChecked, BoundAreBorn, Holder, Busy, Found, KeyOf
<1> QED
  BY <1>1, NextCases, HeapInv, StartInv, ProceedInv, FailureInv, CleanerInv

LEMMA InvHolds == Spec => []Inv
BY InvInit, InvStep, PTL DEF Spec

\* Ranges; one thread at a time, the lock's owner, is in the registry; what an
\* operation works on and what the application holds is never collected; every
\* binding is under its object's hash.
THEOREM TypeCorrect == Spec => []TypeOK
<1>1. Inv => TypeOK
  BY DEF Inv
<1> QED
  BY <1>1, InvHolds, PTL

-----------------------------------------------------------------------------
(***************************************************************************)
(* What a step does to the state that a lookup would find.                 *)
(***************************************************************************)

\* The state of an object is attached to nothing else.
Keeps(o) == StateOf(o)' = StateOf(o)

\* A drain is not to be noticed.
LEMMA DrainKeeps ==
  ASSUME Inv, registry' \in {registry, DrainDead}, heap' = heap
  PROVE  \A o \in Objects : Keeps(o)
BY UserDataAssumption DEF DrainDead, Dead, Keeps, StateOf, Inv, TypeOK

\* An object has no state when it comes to be, and loses none but its own when
\* it goes.
LEMMA HeapKeeps ==
  ASSUME Inv, UNCHANGED registry,
         NEW o \in Objects,
         \/ o \in unborn /\ heap' = heap \cup {o}
         \/ heap' = heap \ {o}
  PROVE  /\ \A p \in Objects : p # o => Keeps(p)
         /\ StateOf(o)' \in {StateOf(o), NoState}
<1>1. ASSUME NEW p \in Objects, p # o PROVE Keeps(p)
  BY <1>1 DEF Keeps, StateOf
<1>2. CASE o \in unborn /\ heap' = heap \cup {o}
  <2>1. StateOf(o) = NoState
    BY <1>2 DEF StateOf, Inv, TypeOK
  <2>2. StateOf(o)' = NoState
    BY <1>2, UserDataAssumption DEF StateOf, Inv, TypeOK, BoundAreBorn
  <2> QED
    BY <1>1, <2>2
<1>3. CASE heap' = heap \ {o}
  BY <1>1, <1>3 DEF StateOf
<1> QED
  BY <1>1, <1>2, <1>3

\* What a store or an unbind under the lock does: it found the key free or its
\* own, so that nobody else's state was there.
LEMMA StoreAttaches ==
  ASSUME Inv, NEW t \in Threads, StoreBind(t),
         NEW o \in Objects, o = op[t].obj
  PROVE  /\ heap' = heap
         /\ o \in heap /\ op[t].state \in States
         /\ op[t].name # "get"
         /\ StateOf(o)' = op[t].state
         /\ \A p \in Objects : p # o => Keeps(p)
         /\ UNCHANGED answer
<1>1. heap' = heap /\ UNCHANGED answer
  BY DEF StoreBind, Finish, Stick, objects
<1>2. /\ op[t].state \in States /\ KeyOf(t) \in Keys
      /\ o \in heap /\ op[t].name \in {"bind", "create"}
      /\ Found(t) = None \/ Found(t).obj = o
  BY OperationObject DEF StoreBind, Busy, Inv, StoresAreChecked
<1> DEFINE new == [obj |-> o, state |-> op[t].state]
<1>3. registry' = [registry EXCEPT ![KeyOf(t)] = new]
  BY DEF StoreBind
<1>4. registry'[KeyOf(t)] = new /\ new # None /\ HashOf[o] = KeyOf(t)
  BY <1>2, <1>3, UserDataAssumption DEF Inv, TypeOK, KeyOf
<1>5. StateOf(o)' = op[t].state
  BY <1>1, <1>2, <1>4 DEF StateOf
<1>6. ASSUME NEW p \in Objects, p # o PROVE Keeps(p)
  <2>1. CASE HashOf[p] = KeyOf(t)
    BY <1>2, <1>4, <1>6, <2>1 DEF Keeps, StateOf, Found
  <2>2. CASE HashOf[p] # KeyOf(t)
    BY <1>1, <1>3, <2>2, UserDataAssumption DEF Keeps, StateOf, Inv, TypeOK
  <2> QED
    BY <2>1, <2>2
<1> QED
  BY <1>1, <1>2, <1>5, <1>6

LEMMA UnbindDetaches ==
  ASSUME Inv, NEW t \in Threads, CheckUnbind(t),
         NEW o \in Objects, o = op[t].obj
  PROVE  /\ heap' = heap
         /\ o \in heap /\ op[t].name # "get"
         /\ StateOf(o)' \in {StateOf(o), NoState}
         /\ \A p \in Objects : p # o => Keeps(p)
         /\ UNCHANGED answer
<1>1. heap' = heap /\ UNCHANGED answer
  BY DEF CheckUnbind, Finish, Stick, objects
<1>2. KeyOf(t) \in Keys /\ o \in heap
      /\ op[t].name # "get"
  BY OperationObject DEF CheckUnbind, Busy, Inv
<1>3. CASE ~Same(t)
  BY <1>1, <1>2, <1>3 DEF CheckUnbind, Keeps, StateOf
<1>4. CASE Same(t)
  <2>1. registry' = [registry EXCEPT ![KeyOf(t)] = None]
    BY <1>4 DEF CheckUnbind
  <2>2. registry[KeyOf(t)].obj = o /\ registry'[KeyOf(t)] = None
    BY <1>2, <1>4, <2>1 DEF Same, Found, Inv, TypeOK
  <2>3. StateOf(o)' = NoState
    BY <2>2 DEF StateOf, KeyOf
  <2>4. ASSUME NEW p \in Objects, p # o PROVE Keeps(p)
    BY <1>1, <2>1, <2>2, <2>4, UserDataAssumption DEF Keeps, StateOf, Inv, TypeOK
  <2> QED
    BY <1>1, <1>2, <2>3, <2>4
<1> QED
  BY <1>3, <1>4

\* Every other step of a thread, and of the cleaner, leaves all states alone but
\* that of a shell it constructs, which has none; only get answers.
LEMMA OthersKeep ==
  ASSUME Inv, NEW t \in Threads,
         \/ StartStep(t) \/ JniFails(t) \/ LockAndDrain(t) \/ CheckBind(t)
         \/ CheckGet(t) \/ CleanerTick
  PROVE  /\ \A o \in Objects : Keeps(o)
         /\ CheckGet(t) \/ UNCHANGED answer
<1>1. ASSUME NEW o \in Objects, NEW s \in States, CreateShell(t, o, s)
      PROVE  (\A p \in Objects : Keeps(p)) /\ UNCHANGED answer
  <2>1. o \in unborn /\ heap' = heap \cup {o} /\ UNCHANGED <<registry, answer>>
    BY <1>1 DEF CreateShell, Start
  <2>2. StateOf(o) = NoState
    BY <2>1 DEF StateOf, Inv, TypeOK
  <2> QED
    BY <2>1, <2>2, HeapKeeps DEF Keeps
<1>2. ASSUME ~\E o \in Objects, s \in States : CreateShell(t, o, s)
      PROVE  heap' = heap /\ registry' \in {registry, DrainDead}
             /\ (CheckGet(t) \/ UNCHANGED answer)
  BY <1>2 DEF StartStep, StartBind, StartGet, StartUnbind, Start, objects, JniFails, Finish,
     LockAndDrain, Stick, CheckBind, CheckGet, CleanerTick
<1> QED
  BY <1>1, <1>2, DrainKeeps

-----------------------------------------------------------------------------
(***************************************************************************)
(* The refinement.                                                         *)
(***************************************************************************)

LEMMA AbstractInit == Init => Abstract!Init
BY DEF Init, Abstract!Init, StateOf

LEMMA AbstractStep ==
  ASSUME Inv, [Next]_vars
  PROVE  [Abstract!Next]_(Abstract!vars)
<1> USE DEF Abstract!vars
<1> DEFINE now == [o \in Objects |-> StateOf(o)]
<1>1. ASSUME \A o \in Objects : Keeps(o), UNCHANGED answer
      PROVE  UNCHANGED <<now, answer>>
  BY <1>1 DEF Keeps
<1>2. ASSUME NEW o \in Objects, \A p \in Objects : p # o => Keeps(p), UNCHANGED answer,
             StateOf(o)' \in {StateOf(o), NoState} \cup States
      PROVE  Abstract!Next \/ UNCHANGED <<now, answer>>
  <2>1. now' = [now EXCEPT ![o] = StateOf(o)']
    BY <1>2 DEF Keeps
  <2>2. CASE StateOf(o)' = StateOf(o)
    BY <1>2, <2>1, <2>2
  <2>3. CASE StateOf(o)' = NoState
    BY <1>2, <2>1, <2>3 DEF Abstract!Next, Abstract!Detach
  <2>4. CASE StateOf(o)' \in States
    BY <1>2, <2>1, <2>4 DEF Abstract!Next, Abstract!Attach
  <2> QED
    BY <1>2, <2>2, <2>3, <2>4
<1>3. CASE UNCHANGED vars
  BY <1>1, <1>3 DEF vars, Keeps, StateOf
<1>4. CASE HeapStep
  <2>1. PICK o \in Objects : New(o) \/ Release(o) \/ Collect(o)
    BY <1>4 DEF HeapStep
  <2>2. CASE Release(o)
    BY <1>1, <2>2 DEF Release, Keeps, StateOf
  <2>3. CASE New(o) \/ Collect(o)
    <3>1. /\ UNCHANGED <<registry, answer>>
          /\ \/ o \in unborn /\ heap' = heap \cup {o}
             \/ heap' = heap \ {o}
      BY <2>3 DEF New, Collect
    <3> QED
      BY <1>2, <3>1, HeapKeeps
  <2> QED
    BY <2>1, <2>2, <2>3
<1>5. ASSUME NEW t \in Threads, StoreBind(t) \/ CheckUnbind(t)
      PROVE  Abstract!Next \/ UNCHANGED <<now, answer>>
  <2>1. PICK o \in Objects : o = op[t].obj
    BY <1>5, OperationObject DEF StoreBind, CheckUnbind, Busy, Inv
  <2> QED
    BY <1>2, <1>5, <2>1, StoreAttaches, UnbindDetaches
<1>6. ASSUME NEW t \in Threads, CheckGet(t)
      PROVE  Abstract!Next \/ UNCHANGED <<now, answer>>
  <2>1. Busy(t) /\ op[t].obj \in Objects /\ op[t].obj \in heap /\ UNCHANGED now
    BY <1>6, OperationObject, OthersKeep DEF CheckGet, Busy, Inv, Keeps
  <2>2. StateOf(op[t].obj) = IF Same(t) THEN Found(t).state ELSE NoState
    BY <2>1 DEF StateOf, Same, Found, KeyOf
  <2>3. answer' = answer \/ answer' = [obj |-> op[t].obj, is |-> StateOf(op[t].obj)]
    BY <1>6, <2>2 DEF CheckGet
  <2> QED
    BY <2>1, <2>3 DEF Abstract!Next, Abstract!LookUp
<1>7. ASSUME NEW t \in Threads,
             \/ StartStep(t) \/ JniFails(t) \/ LockAndDrain(t) \/ CheckBind(t)
      PROVE  UNCHANGED <<now, answer>>
  BY <1>1, <1>7, OthersKeep DEF StartStep, StartBind, StartGet, StartUnbind, CreateShell,
     Start, JniFails, LockAndDrain, Stick, CheckBind
<1>8. CASE CleanerTick
  BY <1>1, <1>8, DrainKeeps DEF CleanerTick, objects
<1> QED
  BY <1>3, <1>4, <1>5, <1>6, <1>7, <1>8, NextCases DEF Proceed

\* "a colliding object never sees another object's state": however operations,
\* drains and the collector interleave under the lock, every lookup answers as
\* if state were attached to the object itself and changed at one instant.
THEOREM RegistryImplementsObjectState == Spec => ImplementsObjectState
BY AbstractInit, AbstractStep, InvHolds, PTL DEF Spec, ImplementsObjectState, Abstract!Spec

\* bind, unbind and create_shell alone, and on their own object alone, change
\* what is bound to a live object; a refused or failed one changes nothing.
THEOREM LiveStateChangesByItsOwner == Spec => LiveStateIsKept
<1> DEFINE Owned ==
      \A o \in heap \cap heap' :
        StateOf(o)' # StateOf(o) =>
          \E t \in Threads :
            /\ op[t].pc \in {"check", "store"}
            /\ op[t].obj = o
            /\ op[t].name # "get"
<1>1. ASSUME Inv, [Next]_vars PROVE [Owned]_vars
  <2>1. heap \subseteq Objects
    BY <1>1 DEF Inv, TypeOK
  <2>2. ASSUME \A o \in Objects : Keeps(o) PROVE Owned
    BY <2>1, <2>2 DEF Keeps
  <2>3. CASE HeapStep
    <3>1. PICK o \in Objects : New(o) \/ Release(o) \/ Collect(o)
      BY <2>3 DEF HeapStep
    <3>2. CASE Release(o)
      BY <2>2, <3>2 DEF Release, Keeps, StateOf
    <3>3. CASE New(o) \/ Collect(o)
      <4>1. o \notin heap \cap heap' /\ UNCHANGED registry
        BY <1>1, <3>3 DEF New, Collect, Inv, TypeOK
      <4>2. \A p \in heap \cap heap' : Keeps(p)
        BY <4>1, <3>3 DEF Keeps, StateOf, New, Collect
      <4> QED
        BY <4>2 DEF Keeps
    <3> QED
      BY <3>1, <3>2, <3>3
  <2>4. ASSUME NEW t \in Threads, StoreBind(t) \/ CheckUnbind(t) PROVE Owned
    <3>1. op[t].pc \in {"check", "store"} /\ op[t].obj \in Objects
      BY <1>1, <2>4, OperationObject DEF StoreBind, CheckUnbind, Busy, Inv
    <3>2. op[t].name # "get" /\ \A p \in Objects : p # op[t].obj => Keeps(p)
      BY <1>1, <2>4, <3>1, StoreAttaches, UnbindDetaches
    <3> QED
      BY <2>1, <3>1, <3>2 DEF Keeps
  <2>5. ASSUME NEW t \in Threads, StartStep(t) \/ JniFails(t) \/ LockAndDrain(t)
                                 \/ CheckBind(t) \/ CheckGet(t)
        PROVE  Owned
    BY <1>1, <2>2, <2>5, OthersKeep
  <2>6. CASE CleanerTick
    BY <1>1, <2>2, <2>6, DrainKeeps DEF CleanerTick, objects
  <2> QED
    BY <1>1, <2>3, <2>4, <2>5, <2>6, NextCases DEF Proceed
<1> QED
  BY <1>1, InvHolds, PTL DEF Spec, LiveStateIsKept
=============================================================================
