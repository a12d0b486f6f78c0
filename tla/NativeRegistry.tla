--------------------------- MODULE NativeRegistry ---------------------------
(***************************************************************************)
(* Registration of native methods (handles.rs, native.rs, future.rs): the  *)
(* process-wide registry that maps a shared trampoline to the one callable *)
(* behind it, and register_natives, which checks a batch against it, hands *)
(* the batch to RegisterNatives and, on a NoSuchMethodError, resolves the  *)
(* generic return types by reflection and hands it over again.             *)
(***************************************************************************)
EXTENDS Naturals, Sequences, SequencesExt

CONSTANTS
  Threads,     \* the threads that register
  Callables,   \* the evaluations of native! and async_native!
  Explicit,    \* those with a signature string: a trampoline of their own
  Trampolines, \* the shared trampolines, one per Rust signature
  TrampolineOf,\* the one of every type-derived callable
  Generic,     \* the type-derived callables that return JObject or the like
  Slots,       \* the native methods of the Java classes
  Fit,         \* how the signature of a callable is that of a method: the
               \* same, but for the return type, or not
  MaxBatch,    \* bound on the methods registered in one call
  None

ASSUME NativeRegistryAssumption ==
  /\ Explicit \subseteq Callables
  /\ TrampolineOf \in [Callables \ Explicit -> Trampolines]
  /\ Generic \subseteq Callables \ Explicit
  /\ Fit \in [Callables \X Slots -> {"exact", "otherReturn", "missing"}]
  /\ MaxBatch \in Nat \ {0}
  /\ None \notin Callables

VARIABLES
  built,     \* the descriptors that exist
  registry,  \* NATIVE_REGISTRY: trampoline -> callable
  bound,     \* the JVM: the callable whose trampoline a method jumps to
  op,        \* the register_natives call each thread is in
  accepted,  \* history: the callable of the last Ok for a method
  later,     \* history: the callables built since that call began
  ran        \* history: the last native call: which callable ran, which ones
             \* the method jumped to and was registered with, what was later

vars == <<built, registry, bound, op, accepted, later, ran>>

Idle == [pc |-> "idle"]
Item == [call : Callables, slot : Slots]
IsDerived(c) == c \notin Explicit

\* A register_natives call: checking its batch, handing it over, resolving its
\* signatures, handing it over again.
Operation ==
  [pc : {"check", "register", "resolve", "retry"}, batch : Seq(Item), next : Nat,
   later : SUBSET Callables]

\* Ranges; and a call registers descriptors that exist.
TypeOK ==
  /\ built \subseteq Callables
  /\ registry \in [Trampolines -> Callables \cup {None}]
  /\ bound \in [Slots -> Callables \cup {None}]
  /\ op \in [Threads -> {Idle} \cup Operation]
  /\ accepted \in [Slots -> Callables \cup {None}]
  /\ later \in [Slots -> SUBSET Callables]
  /\ \A t \in Threads :
       op[t] # Idle => \A i \in DOMAIN op[t].batch : op[t].batch[i].call \in built

Init ==
  /\ built = {}
  /\ registry = [p \in Trampolines |-> None]
  /\ bound = [s \in Slots |-> None]
  /\ op = [t \in Threads |-> Idle]
  /\ accepted = [s \in Slots |-> None]
  /\ later = [s \in Slots |-> {}]
  /\ ran = None

-----------------------------------------------------------------------------

\* History: c is later than every call in progress and every accepted method.
BuiltLater(c) ==
  /\ op' = [t \in Threads |->
              IF op[t] = Idle THEN Idle ELSE [op[t] EXCEPT !.later = @ \cup {c}]]
  /\ later' = [s \in Slots |-> IF accepted[s] = None THEN {} ELSE later[s] \cup {c}]

\* native!("name", f) or async_native!("name", f): a new adapter, inserted
\* under its trampoline whatever was there.
Build(c) ==
  /\ c \notin built
  /\ built' = built \cup {c}
  /\ registry' = IF IsDerived(c) THEN [registry EXCEPT ![TrampolineOf[c]] = c]
                                 ELSE registry
  /\ BuiltLater(c)
  /\ UNCHANGED <<bound, accepted, ran>>

Start(t, batch) ==
  /\ op[t] = Idle
  /\ op' = [op EXCEPT ![t] = [pc |-> "check", batch |-> batch, next |-> 1,
                              later |-> {}]]
  /\ UNCHANGED <<built, registry, bound, accepted, later, ran>>

Batch(t) == op[t].batch

Go(t, pc) == op' = [op EXCEPT ![t].pc = pc]
Fail(t) == op' = [op EXCEPT ![t] = Idle]

\* (A bug would be to check only the shared trampolines nobody took yet.)
BugCollides(c) == FALSE

\* Another callable is behind the trampoline of c.
Collides(c) ==
  /\ IsDerived(c)
  /\ registry[TrampolineOf[c]] \notin {None, c}

\* The loop over the batch.  Every registry_get takes the lock for itself, so
\* other threads build descriptors between two of them.
CheckNext(t) ==
  /\ op[t].pc = "check"
  /\ IF op[t].next > Len(Batch(t))
       THEN Go(t, "register")
       ELSE IF Collides(Batch(t)[op[t].next].call)
              THEN Fail(t)
              ELSE op' = [op EXCEPT ![t].next = @ + 1]
  /\ UNCHANGED <<built, registry, bound, accepted, later, ran>>

\* RegisterNatives binds the methods in order up to the first it does not
\* find; the ones before it stay bound.
FirstMissing(batch, found) ==
  LET missing == {i \in 1..Len(batch) : batch[i] \notin found}
  IN IF missing = {} THEN Len(batch) + 1 ELSE Min(missing)

Bind(batch, n) ==
  [s \in Slots |->
     LET mine == {i \in 1..n : batch[i].slot = s}
     IN IF mine = {} THEN bound[s] ELSE batch[Max(mine)].call]

\* The methods found under the derived and under the corrected signatures.  A
\* generic return type is corrected to whatever the method returns: a class or
\* an array, which the trampoline can return, but int or void too.
FoundExactly ==
  {item \in [call : Callables, slot : Slots] : Fit[<<item.call, item.slot>>] = "exact"}
FoundCorrected ==
  FoundExactly \cup
    {item \in [call : Generic, slot : Slots] :
       Fit[<<item.call, item.slot>>] = "otherReturn"}

\* The caller got Ok: every method of the batch is its callable's.
Accept(t) ==
  /\ op' = [op EXCEPT ![t] = Idle]
  /\ accepted' =
       [s \in Slots |->
          LET mine == {i \in DOMAIN Batch(t) : Batch(t)[i].slot = s}
          IN IF mine = {} THEN accepted[s] ELSE Batch(t)[Max(mine)].call]
  /\ later' = [s \in Slots |->
                 IF \E i \in DOMAIN Batch(t) : Batch(t)[i].slot = s
                   THEN op[t].later ELSE later[s]]

RegisterBatch(t) ==
  LET n == FirstMissing(Batch(t), FoundExactly) - 1
  IN /\ op[t].pc = "register"
     /\ bound' = Bind(Batch(t), n)
     /\ IF n = Len(Batch(t))
          THEN Accept(t)
          ELSE Go(t, "resolve") /\ UNCHANGED <<accepted, later>>
     /\ UNCHANGED <<built, registry, ran>>

\* resolve_derived_native_sigs gives corrected signatures: some descriptor has
\* a generic return type, and the method of every such descriptor exists.
Resolves(batch) ==
  /\ \E i \in DOMAIN batch : batch[i].call \in Generic
  /\ \A i \in DOMAIN batch :
       batch[i].call \in Generic => Fit[<<batch[i].call, batch[i].slot>>] # "missing"

ResolveSigs(t) ==
  /\ op[t].pc = "resolve"
  /\ IF Resolves(Batch(t)) THEN Go(t, "retry") ELSE Fail(t)
  /\ UNCHANGED <<built, registry, bound, accepted, later, ran>>

\* (A bug would be to take the second attempt for a success.)
BugRetryBatch(t) ==
  LET n == FirstMissing(Batch(t), FoundCorrected) - 1
  IN /\ op[t].pc = "retry"
     /\ bound' = Bind(Batch(t), n)
     /\ Accept(t)
     /\ UNCHANGED <<built, registry, ran>>

RetryBatch(t) ==
  LET n == FirstMissing(Batch(t), FoundCorrected) - 1
  IN /\ op[t].pc = "retry"
     /\ bound' = Bind(Batch(t), n)
     /\ IF n = Len(Batch(t)) THEN Accept(t) ELSE Fail(t) /\ UNCHANGED <<accepted, later>>
     /\ UNCHANGED <<built, registry, ran>>

\* Java calls a bound method: its trampoline looks the callable up.
Call(s) ==
  /\ bound[s] # None
  /\ ran' = [slot |-> s,
             call |-> IF IsDerived(bound[s]) THEN registry[TrampolineOf[bound[s]]]
                                             ELSE bound[s],
             jumped |-> bound[s],
             registered |-> accepted[s],
             later |-> later[s]]
  /\ UNCHANGED <<built, registry, bound, op, accepted, later>>

Batches == BoundedSeq([call : built, slot : Slots], MaxBatch) \ {<<>>}

Next ==
  \/ \E c \in Callables : Build(c)
  \/ \E t \in Threads :
       \/ \E batch \in Batches : Start(t, batch)
       \/ CheckNext(t)
       \/ RegisterBatch(t)
       \/ ResolveSigs(t)
       \/ RetryBatch(t)
  \/ \E s \in Slots : Call(s)

Spec == Init /\ [][Next]_vars

-----------------------------------------------------------------------------
(***************************************************************************)
(* Properties.                                                             *)
(***************************************************************************)

\* No batch that passed the check holds two callables of one Rust signature,
\* though the lock is free between two lookups and other threads build
\* descriptors meanwhile.
CheckedBatchIsUnambiguous ==
  \A t \in Threads :
    op[t].pc \in {"register", "resolve", "retry"} =>
      \A i, j \in DOMAIN Batch(t) :
        LET c == Batch(t)[i].call
            d == Batch(t)[j].call
        IN (IsDerived(c) /\ IsDerived(d) /\ TrampolineOf[c] = TrampolineOf[d]) => c = d

\* Ok means bound, all of the batch, also when it took the second attempt: a
\* method whose registration was accepted jumps to some callable, and that one
\* was written for it, parameters and all.  Only the return type of a generic
\* callable may be another; a signature the user wrote and an exact derived one
\* are never corrected.  (That the method then returns a reference, as the
\* callable does, is not promised here: the code does not ask.  See the README.)
AcceptedIsBound ==
  \A s \in Slots :
    accepted[s] # None =>
      /\ bound[s] # None
      /\ \/ Fit[<<bound[s], s>>] = "exact"
         \/ Fit[<<bound[s], s>>] = "otherReturn" /\ bound[s] \in Generic

\* A method that jumps to the callable it was accepted with runs that callable,
\* never another and never none, however batches fail and are retried -- with
\* one reservation the code leaves: a callable of the same Rust signature built
\* after the registration began takes its place (see the README).
RunsTheRegistered ==
  (ran # None /\ ran.jumped = ran.registered) =>
    \/ ran.call = ran.registered
    \/ ran.call \in ran.later
=============================================================================
