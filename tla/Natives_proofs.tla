---------------------------- MODULE Natives_proofs ----------------------------
(***************************************************************************)
(* Proofs about native methods.  Their registration, for every number of   *)
(* threads, callables and methods, every way in which signatures fit and   *)
(* every size of batch: a batch that was checked is unambiguous, Ok means  *)
(* bound, and a method runs the callable it was registered with.  And the  *)
(* calls of async natives, for every set of calls, values and errors and   *)
(* every number of runtime threads: what a future is completed with is how *)
(* the function of its own call ended, whatever Java, the runtime and      *)
(* failing JNI do in between.  The two share nothing.                      *)
(***************************************************************************)
EXTENDS NativeRegistry, AsyncNative, SequenceTheorems, WellFoundedInduction, TLAPS

USE DEF vars, asyncVars

-----------------------------------------------------------------------------
(***************************************************************************)
(* The first and the last of finitely many positions.  Well-foundedness of *)
(* the natural numbers takes the place of induction here.                  *)
(***************************************************************************)

Less == {p \in Nat \X Nat : p[1] < p[2]}

LEMMA LessIsWellFounded == IsWellFoundedOn(Less, Nat)
BY NatLessThanWellFounded, Zenon DEF OpToRel, Less

LEMMA LeastExists ==
  ASSUME NEW S \in SUBSET Nat, S # {}
  PROVE  \E i \in S : \A j \in S : i =< j
<1>1. PICK i \in S : \A j \in S : <<j, i>> \notin Less
  BY LessIsWellFounded, WFMin
<1>2. ASSUME NEW j \in S PROVE i =< j
  <2>1. i \in Nat /\ j \in Nat /\ <<j, i>> \notin Less
    BY <1>1
  <2>2. ~(j < i)
    BY <2>1, Zenon DEF Less
  <2> QED
    BY <2>1, <2>2
<1> QED
  BY <1>2

LEMMA MinIsLeast ==
  ASSUME NEW S \in SUBSET Nat, S # {}
  PROVE  Min(S) \in S /\ \A j \in S : Min(S) =< j
BY LeastExists DEF Min

LEMMA MaxIsGreatest ==
  ASSUME NEW n \in Nat, NEW S \in SUBSET (1..n), S # {}
  PROVE  Max(S) \in S /\ \A j \in S : Max(S) >= j
<1> DEFINE T == {n - i : i \in S}
<1>1. T \in SUBSET Nat /\ T # {}
  <2>1. \A i \in S : n - i \in Nat
    OBVIOUS
  <2> QED
    BY <2>1
<1>2. PICK i \in S : \A j \in S : n - i =< n - j
  <2> HIDE DEF T
  <2>1. PICK k \in T : \A l \in T : k =< l
    BY <1>1, LeastExists
  <2> QED
    BY <2>1 DEF T
<1>3. \A j \in S : i >= j
  BY <1>2
<1> QED
  BY <1>3 DEF Max

-----------------------------------------------------------------------------
(***************************************************************************)
(* RegisterNatives: what it binds, and what is left bound.                 *)
(***************************************************************************)

LEMMA BoundUpToFirstMissing ==
  ASSUME NEW batch \in Seq(Item), NEW found
  PROVE  LET n == FirstMissing(batch, found) - 1
         IN  n \in 0..Len(batch) /\ \A i \in 1..n : batch[i] \in found
<1> DEFINE missing == {i \in 1..Len(batch) : batch[i] \notin found}
<1>1. CASE missing = {}
  BY <1>1 DEF FirstMissing
<1>2. CASE missing # {}
  <2>1. Min(missing) \in missing /\ \A j \in missing : Min(missing) =< j
    <3>1. missing \in SUBSET Nat
      OBVIOUS
    <3> HIDE DEF missing
    <3> QED
      BY <1>2, <3>1, MinIsLeast
  <2>2. FirstMissing(batch, found) = Min(missing)
    BY <1>2 DEF FirstMissing
  <2> HIDE DEF missing
  <2>3. FirstMissing(batch, found) \in 1..Len(batch)
    BY <2>1, <2>2 DEF missing
  <2>4. ASSUME NEW i \in 1..(FirstMissing(batch, found) - 1)
        PROVE  batch[i] \in found
    BY <2>1, <2>2, <2>3, <2>4 DEF missing
  <2> QED
    BY <2>3, <2>4
<1> QED
  BY <1>1, <1>2

\* A method is left with the last callable of the batch that was bound to it,
\* or with what it had.
LEMMA BoundIsLast ==
  ASSUME NEW batch \in Seq(Item), NEW n \in 0..Len(batch), NEW s \in Slots
  PROVE  \/ /\ \A i \in 1..n : batch[i].slot # s
            /\ Bind(batch, n)[s] = bound[s]
         \/ \E i \in 1..n :
              /\ batch[i].slot = s
              /\ i = Max({j \in 1..n : batch[j].slot = s})
              /\ Bind(batch, n)[s] = batch[i].call
<1> DEFINE mine == {i \in 1..n : batch[i].slot = s}
<1>1. Bind(batch, n)[s] = IF mine = {} THEN bound[s] ELSE batch[Max(mine)].call
  BY DEF Bind
<1>2. CASE mine = {}
  BY <1>1, <1>2
<1>3. CASE mine # {}
  <2>1. Max(mine) \in mine
    <3>1. mine \in SUBSET (1..n) /\ n \in Nat
      OBVIOUS
    <3> HIDE DEF mine
    <3> QED
      BY <1>3, <3>1, MaxIsGreatest
  <2> QED
    BY <1>1, <1>3, <2>1
<1> QED
  BY <1>2, <1>3

-----------------------------------------------------------------------------
(***************************************************************************)
(* The inductive invariant.                                                *)
(***************************************************************************)

\* Whatever is behind the trampoline of c is c or was built in the meantime.
Latest(c, meantime) ==
  IsDerived(c) => registry[TrampolineOf[c]] \in {c} \cup meantime

SameTrampoline(c, d) ==
  IsDerived(c) /\ IsDerived(d) /\ TrampolineOf[c] = TrampolineOf[d]

\* A call that has checked its batch up to next: what it checked was the latest
\* when it was looked at, so none of it replaced another.
OperationOK(o) ==
  /\ o.next \in 1..(Len(o.batch) + 1)
  /\ o.pc # "check" => o.next = Len(o.batch) + 1
  /\ \A i \in 1..Len(o.batch) : o.batch[i].call \in built \ o.later
  /\ \A i \in 1..(o.next - 1) : Latest(o.batch[i].call, o.later)
  /\ \A i, j \in 1..(o.next - 1) :
       SameTrampoline(o.batch[i].call, o.batch[j].call) =>
         o.batch[i].call = o.batch[j].call

OperationsOK == \A t \in Threads : op[t] # Idle => OperationOK(op[t])

\* A descriptor that exists was inserted under its trampoline.
BuiltIsRegistered ==
  \A c \in built : IsDerived(c) => registry[TrampolineOf[c]] # None

\* The JVM binds only what it finds, and never unbinds.
BoundIsFound ==
  \A s \in Slots :
    bound[s] # None => [call |-> bound[s], slot |-> s] \in FoundCorrected

AcceptedIsLatest ==
  \A s \in Slots :
    accepted[s] # None => bound[s] # None /\ Latest(accepted[s], later[s])

Ranges ==
  /\ built \subseteq Callables
  /\ registry \in [Trampolines -> Callables \cup {None}]
  /\ bound \in [Slots -> Callables \cup {None}]
  /\ op \in [Threads -> {Idle} \cup Operation]
  /\ accepted \in [Slots -> Callables \cup {None}]
  /\ later \in [Slots -> SUBSET Callables]

Inv ==
  /\ Ranges
  /\ OperationsOK
  /\ BuiltIsRegistered
  /\ BoundIsFound
  /\ AcceptedIsLatest
  /\ RunsTheRegistered

LEMMA InvInit == Init => Inv
BY DEF Init, Inv, Ranges, OperationsOK, BuiltIsRegistered, BoundIsFound,
   AcceptedIsLatest, RunsTheRegistered

LEMMA RunningOperation ==
  ASSUME Ranges, NEW t \in Threads, op[t].pc # "idle"
  PROVE  op[t] # Idle /\ op[t] \in Operation
BY DEF Ranges, Idle

-----------------------------------------------------------------------------
(***************************************************************************)
(* Steps.                                                                  *)
(***************************************************************************)

\* A new descriptor takes the place of c at most for those who have it in
\* their meantime.
LEMMA LatestAfterBuild ==
  ASSUME Ranges, NEW d \in Callables, Build(d), NEW c \in Callables,
         NEW before, NEW after, before \cup {d} \subseteq after, Latest(c, before)
  PROVE  Latest(c, after)'
BY NativeRegistryAssumption DEF Ranges, Build, Latest, IsDerived

LEMMA OperationAfterBuild ==
  ASSUME Ranges, NEW d \in Callables, Build(d),
         NEW o \in Operation, NEW o2 \in Operation,
         o2 = [o EXCEPT !.later = @ \cup {d}], OperationOK(o)
  PROVE  OperationOK(o2)'
<1>1. /\ o2.batch = o.batch /\ o2.next = o.next /\ o2.pc = o.pc
      /\ o2.later = o.later \cup {d}
  BY DEF Operation
<1>2. o.batch \in Seq(Item)
  BY DEF Operation
<1>3. ASSUME NEW i \in 1..Len(o2.batch)
      PROVE  o2.batch[i].call \in built' \ o2.later
  BY <1>1, <1>3 DEF Build, OperationOK
<1>4. ASSUME NEW i \in 1..(o2.next - 1) PROVE Latest(o2.batch[i].call, o2.later)'
  <2>1. i \in 1..Len(o.batch) /\ Latest(o.batch[i].call, o.later)
    BY <1>1, <1>2, <1>4 DEF OperationOK
  <2> DEFINE c == o.batch[i].call
  <2>2. c \in Callables
    BY <2>1 DEF OperationOK, Ranges
  <2>3. Latest(c, o2.later)'
    BY <1>1, <2>1, <2>2, LatestAfterBuild
  <2> QED
    BY <1>1, <2>3
<1>5. o2.next \in 1..(Len(o2.batch) + 1)
      /\ (o2.pc # "check" => o2.next = Len(o2.batch) + 1)
  BY <1>1 DEF OperationOK
<1>6. \A i, j \in 1..(o2.next - 1) :
        SameTrampoline(o2.batch[i].call, o2.batch[j].call) =>
          o2.batch[i].call = o2.batch[j].call
  BY <1>1 DEF OperationOK
<1> QED
  BY <1>3, <1>4, <1>5, <1>6 DEF OperationOK, SameTrampoline

LEMMA BuildInv ==
  ASSUME Inv, NEW d \in Callables, Build(d) PROVE Inv'
<1> USE DEF Inv
<1>1. Ranges'
  <2>1. built' \subseteq Callables /\ registry' \in [Trampolines -> Callables \cup {None}]
    BY NativeRegistryAssumption DEF Ranges, Build, IsDerived
  <2>2. op' \in [Threads -> {Idle} \cup Operation]
    <3>1. ASSUME NEW t \in Threads, op[t] # Idle
          PROVE  [op[t] EXCEPT !.later = @ \cup {d}] \in Operation
      BY <3>1 DEF Ranges, Operation
    <3> QED
      BY <3>1 DEF Build, BuiltLater
  <2>3. later' \in [Slots -> SUBSET Callables]
    BY DEF Ranges, Build, BuiltLater
  <2> QED
    BY <2>1, <2>2, <2>3 DEF Ranges, Build
<1>2. OperationsOK'
  <2>1. ASSUME NEW t \in Threads, op'[t] # Idle PROVE OperationOK(op[t])'
    <3>1. /\ op[t] # Idle /\ op[t] \in Operation
          /\ op'[t] = [op[t] EXCEPT !.later = @ \cup {d}]
      BY <2>1 DEF Build, BuiltLater, Ranges
    <3>2. PICK o \in Operation : o = op[t]
      BY <3>1
    <3>3. PICK o2 \in Operation : o2 = op'[t]
      BY <1>1, <2>1 DEF Ranges
    <3>4. OperationOK(o)
      BY <3>1, <3>2 DEF OperationsOK
    <3>5. OperationOK(o2)'
      BY <3>1, <3>2, <3>3, <3>4, OperationAfterBuild
    <3> QED
      BY <3>3, <3>5
  <2> QED
    BY <2>1 DEF OperationsOK
<1>3. BuiltIsRegistered'
  BY NativeRegistryAssumption DEF BuiltIsRegistered, Build, Ranges, IsDerived
<1>4. AcceptedIsLatest'
  <2>1. ASSUME NEW s \in Slots, accepted'[s] # None
        PROVE  bound'[s] # None /\ Latest(accepted[s], later[s])'
    <3>1. accepted' = accepted /\ bound' = bound /\ later'[s] = later[s] \cup {d}
      BY <2>1 DEF Build, BuiltLater
    <3>2. PICK c \in Callables : c = accepted[s]
      BY <2>1, <3>1 DEF Ranges
    <3>3. PICK before : before = later[s]
      OBVIOUS
    <3>4. PICK after : after = later'[s]
      OBVIOUS
    <3>5. Latest(c, before) /\ bound[s] # None
      BY <2>1, <3>1, <3>2, <3>3 DEF AcceptedIsLatest
    <3>6. Latest(c, after)'
      BY <3>1, <3>3, <3>4, <3>5, LatestAfterBuild
    <3> QED
      BY <3>1, <3>2, <3>4, <3>5, <3>6
  <2> QED
    BY <2>1 DEF AcceptedIsLatest
<1>5. BoundIsFound' /\ RunsTheRegistered'
  BY DEF BoundIsFound, RunsTheRegistered, Build
<1> QED
  BY <1>1, <1>2, <1>3, <1>4, <1>5

\* A step of one call leaves the others alone.
LEMMA OneOperation ==
  ASSUME Inv, NEW t \in Threads, NEW o \in {Idle} \cup Operation,
         op' = [op EXCEPT ![t] = o], UNCHANGED <<built, registry>>,
         o # Idle => OperationOK(o)
  PROVE  op' \in [Threads -> {Idle} \cup Operation] /\ OperationsOK'
<1>1. op' \in [Threads -> {Idle} \cup Operation]
  BY DEF Inv, Ranges
<1>2. ASSUME NEW u \in Threads, op'[u] # Idle PROVE OperationOK(op[u])'
  <2>1. PICK p : p = op'[u]
    OBVIOUS
  <2>2. OperationOK(p)
    BY <1>2, <2>1 DEF Inv, Ranges, OperationsOK
  <2>3. OperationOK(p)'
    BY <2>2 DEF OperationOK, Latest
  <2> QED
    BY <2>1, <2>3
<1> QED
  BY <1>1, <1>2 DEF OperationsOK

\* What a step says nothing about stays as it was.
LEMMA OthersStay ==
  ASSUME Inv, UNCHANGED <<built, registry, bound, accepted, later, ran>>,
         op' \in [Threads -> {Idle} \cup Operation], OperationsOK'
  PROVE  Inv'
BY DEF Inv, Ranges, BuiltIsRegistered, BoundIsFound, AcceptedIsLatest, Latest,
   RunsTheRegistered

LEMMA BatchesAreSequences ==
  ASSUME Ranges, NEW batch \in Batches
  PROVE  batch \in Seq(Item) /\ \A i \in 1..Len(batch) : batch[i].call \in built
<1>1. batch \in UNION {[1..m -> [call : built, slot : Slots]] : m \in 0..MaxBatch}
  BY DEF Batches, BoundedSeq, SeqOf
<1>2. PICK m \in 0..MaxBatch : batch \in [1..m -> [call : built, slot : Slots]]
  BY <1>1
<1>3. m \in Nat
  BY NativeRegistryAssumption
<1>4. batch \in [1..m -> Item]
  BY <1>2 DEF Item, Ranges
<1>5. batch \in Seq(Item) /\ Len(batch) = m
  BY <1>3, <1>4, SeqDef
<1> QED
  BY <1>2, <1>5

LEMMA StartInv ==
  ASSUME Inv, NEW t \in Threads, NEW batch \in Batches, Start(t, batch) PROVE Inv'
<1>1. PICK o : o = [pc |-> "check", batch |-> batch, next |-> 1, later |-> {}]
  OBVIOUS
<1>2. batch \in Seq(Item) /\ \A i \in 1..Len(batch) : batch[i].call \in built
  BY BatchesAreSequences DEF Inv
<1>3. o \in Operation
  BY <1>1, <1>2 DEF Operation
<1>4. OperationOK(o)
  BY <1>1, <1>2 DEF OperationOK
<1> QED
  BY <1>1, <1>3, <1>4, OneOperation, OthersStay DEF Start

\* A callable is let through only if it is the latest; one that was let through
\* before and is not the latest any more was replaced by one built since, which
\* is not in the batch.
LEMMA CheckNextInv ==
  ASSUME Inv, NEW t \in Threads, CheckNext(t) PROVE Inv'
<1>1. PICK o \in Operation : o = op[t]
  BY RunningOperation DEF Inv, CheckNext
<1>2. OperationOK(o) /\ op[t] # Idle /\ o.batch \in Seq(Item)
  BY <1>1, RunningOperation DEF Inv, OperationsOK, CheckNext, Operation
<1>3. CASE o.next > Len(o.batch)
  <2>1. PICK o2 : o2 = [o EXCEPT !.pc = "register"]
    OBVIOUS
  <2>2. o2 \in Operation
    BY <2>1 DEF Operation
  <2>3. o2.batch = o.batch /\ o2.next = o.next /\ o2.later = o.later /\ o2.pc = "register"
    BY <2>1 DEF Operation
  <2>4. o.next = Len(o.batch) + 1
    BY <1>2, <1>3 DEF OperationOK
  <2>5. OperationOK(o2)
    BY <1>2, <2>3, <2>4 DEF OperationOK
  <2>6. op' = [op EXCEPT ![t] = o2]
    BY <1>1, <1>3, <2>1 DEF CheckNext, Go, Batch
  <2> QED
    BY <2>2, <2>5, <2>6, OneOperation, OthersStay DEF CheckNext
<1>4. CASE o.next =< Len(o.batch) /\ Collides(o.batch[o.next].call)
  <2>1. op' = [op EXCEPT ![t] = Idle]
    BY <1>1, <1>2, <1>4 DEF CheckNext, Fail, Batch, OperationOK
  <2> QED
    BY <2>1, OneOperation, OthersStay DEF CheckNext
<1>5. CASE o.next =< Len(o.batch) /\ ~Collides(o.batch[o.next].call)
  <2>1. PICK o2 : o2 = [o EXCEPT !.next = @ + 1]
    OBVIOUS
  <2>2. /\ o2.batch = o.batch /\ o2.next = o.next + 1
        /\ o2.later = o.later /\ o2.pc = o.pc
    BY <2>1 DEF Operation
  <2>3. o.next \in 1..Len(o.batch)
    BY <1>2, <1>5 DEF OperationOK
  <2>4. o2 \in Operation
    BY <2>1, <2>3 DEF Operation
  <2>5. PICK c \in Callables : c = o.batch[o.next].call
    BY <1>2, <2>3 DEF OperationOK, Inv, Ranges
  <2>6. c \in built \ o.later
    BY <1>2, <2>3, <2>5 DEF OperationOK
  <2>7. IsDerived(c) => registry[TrampolineOf[c]] = c
    BY <1>5, <2>5, <2>6 DEF Collides, Inv, BuiltIsRegistered
  <2>8. \A i \in 1..(o2.next - 1) : i \in 1..(o.next - 1) \/ i = o.next
    BY <2>2, <2>3
  <2>9. \A i \in 1..(o2.next - 1) : Latest(o2.batch[i].call, o2.later)
    BY <1>2, <2>2, <2>5, <2>7, <2>8 DEF OperationOK, Latest
  <2>10. ASSUME NEW i \in 1..(o.next - 1), SameTrampoline(o.batch[i].call, c)
         PROVE  o.batch[i].call = c
    <3>1. Latest(o.batch[i].call, o.later)
      BY <1>2 DEF OperationOK
    <3> QED
      BY <2>6, <2>7, <2>10, <3>1 DEF Latest, SameTrampoline
  <2>11. ASSUME NEW i \in 1..(o2.next - 1), NEW j \in 1..(o2.next - 1),
                SameTrampoline(o2.batch[i].call, o2.batch[j].call)
         PROVE  o2.batch[i].call = o2.batch[j].call
    <3>1. CASE i = o.next \/ j = o.next
      BY <2>2, <2>5, <2>8, <2>10, <2>11, <3>1 DEF SameTrampoline
    <3>2. CASE i # o.next /\ j # o.next
      BY <1>2, <2>2, <2>8, <2>11, <3>2 DEF OperationOK
    <3> QED
      BY <3>1, <3>2
  <2>12. o.pc = "check"
    BY <1>1 DEF CheckNext
  <2>13. OperationOK(o2)
    BY <1>2, <2>2, <2>3, <2>9, <2>11, <2>12 DEF OperationOK
  <2>14. op' = [op EXCEPT ![t] = o2]
    BY <1>1, <1>5, <2>1, <2>3 DEF CheckNext, Batch
  <2> QED
    BY <2>4, <2>13, <2>14, OneOperation, OthersStay DEF CheckNext
<1> QED
  BY <1>2, <1>3, <1>4, <1>5 DEF OperationOK

\* The first n methods of a batch are bound: all of them fit, and a method that
\* was bound before still is.
LEMMA BindKeeps ==
  ASSUME Inv, NEW batch \in Seq(Item), NEW n \in 0..Len(batch),
         \A i \in 1..n : batch[i] \in FoundCorrected, bound' = Bind(batch, n)
  PROVE  /\ bound' \in [Slots -> Callables \cup {None}]
         /\ BoundIsFound'
         /\ \A s \in Slots : bound[s] # None => bound'[s] # None
<1>1. ASSUME NEW s \in Slots
      PROVE  \/ bound'[s] = bound[s]
             \/ /\ bound'[s] \in Callables
                /\ [call |-> bound'[s], slot |-> s] \in FoundCorrected
  <2>1. CASE \E i \in 1..n : batch[i].slot = s /\ bound'[s] = batch[i].call
    <3>1. PICK i \in 1..n : batch[i].slot = s /\ bound'[s] = batch[i].call
      BY <2>1
    <3>2. batch[i] \in Item /\ batch[i] \in FoundCorrected
      BY <3>1
    <3>3. batch[i] = [call |-> bound'[s], slot |-> s] /\ bound'[s] \in Callables
      BY <3>1, <3>2 DEF Item
    <3> QED
      BY <3>2, <3>3
  <2> QED
    BY <2>1, BoundIsLast
<1>2. DOMAIN bound' = Slots /\ bound' = [s \in Slots |-> bound'[s]]
  BY DEF Bind
<1>3. bound' \in [Slots -> Callables \cup {None}]
  BY <1>1, <1>2 DEF Inv, Ranges
<1>4. \A s \in Slots : bound[s] # None => bound'[s] # None
  BY <1>1, NativeRegistryAssumption
<1>5. FoundCorrected' = FoundCorrected
  BY DEF FoundCorrected, FoundExactly
<1>6. BoundIsFound'
  BY <1>1, <1>5 DEF Inv, BoundIsFound
<1> QED
  BY <1>3, <1>4, <1>6

\* The caller gets Ok: every method of the batch is bound to the callable that
\* is accepted for it, the latest that was looked at.
LEMMA AcceptInv ==
  ASSUME Inv, NEW t \in Threads, NEW o \in Operation, o = op[t], op[t] # Idle,
         o.pc # "check", \A i \in 1..Len(o.batch) : o.batch[i] \in FoundCorrected,
         bound' = Bind(o.batch, Len(o.batch)), Accept(t),
         UNCHANGED <<built, registry, ran>>
  PROVE  Inv'
<1> DEFINE batch == o.batch
           mine(s) == {i \in 1..Len(batch) : batch[i].slot = s}
<1>1. OperationOK(o) /\ batch \in Seq(Item) /\ batch = Batch(t) /\ Len(batch) \in Nat
  BY DEF Inv, OperationsOK, Operation, Batch
<1>2. /\ bound' \in [Slots -> Callables \cup {None}]
      /\ BoundIsFound'
      /\ \A s \in Slots : bound[s] # None => bound'[s] # None
  BY <1>1, BindKeeps
<1>3. op' \in [Threads -> {Idle} \cup Operation] /\ OperationsOK'
  BY OneOperation DEF Accept
<1>4. ASSUME NEW s \in Slots
      PROVE  \/ accepted'[s] = accepted[s] /\ later'[s] = later[s]
             \/ /\ bound'[s] = accepted'[s] /\ accepted'[s] \in Callables
                /\ later'[s] = o.later /\ Latest(accepted'[s], o.later)
  <2>1. /\ accepted'[s] = IF mine(s) = {} THEN accepted[s] ELSE batch[Max(mine(s))].call
        /\ later'[s] = IF mine(s) # {} THEN o.later ELSE later[s]
    <3>1. DOMAIN batch = 1..Len(batch)
      BY <1>1
    <3>2. accepted'[s] = IF mine(s) = {} THEN accepted[s] ELSE batch[Max(mine(s))].call
      BY <1>1, <3>1, Zenon DEF Accept
    <3>3. later'[s] = IF \E i \in 1..Len(batch) : batch[i].slot = s
                        THEN o.later ELSE later[s]
      BY <1>1, <3>1, Zenon DEF Accept
    <3>4. (\E i \in 1..Len(batch) : batch[i].slot = s) <=> mine(s) # {}
      OBVIOUS
    <3> QED
      BY <3>2, <3>3, <3>4
  <2>2. CASE mine(s) = {}
    BY <2>1, <2>2
  <2>3. CASE mine(s) # {}
    <3>1. PICK i \in 1..Len(batch) :
            i = Max(mine(s)) /\ bound'[s] = batch[i].call
      BY <1>1, <2>3, BoundIsLast
    <3>2. batch[i].call \in Callables
      BY <1>1, <3>1 DEF OperationOK, Inv, Ranges
    <3>3. Latest(batch[i].call, o.later)
      BY <1>1, <3>1 DEF OperationOK
    <3> QED
      BY <2>1, <2>3, <3>1, <3>2, <3>3
  <2> QED
    BY <2>2, <2>3
<1>5. /\ accepted' \in [Slots -> Callables \cup {None}]
      /\ later' \in [Slots -> SUBSET Callables]
  <2>1. /\ accepted' = [s \in Slots |-> accepted'[s]]
        /\ later' = [s \in Slots |-> later'[s]]
    BY DEF Accept
  <2>2. o.later \in SUBSET Callables
    BY DEF Operation
  <2> QED
    BY <1>4, <2>1, <2>2 DEF Inv, Ranges
<1>6. AcceptedIsLatest'
  <2>1. ASSUME NEW s \in Slots, accepted'[s] # None
        PROVE  bound'[s] # None /\ Latest(accepted[s], later[s])'
    <3>1. CASE accepted'[s] = accepted[s] /\ later'[s] = later[s]
      BY <1>2, <2>1, <3>1 DEF Inv, AcceptedIsLatest, Latest
    <3>2. CASE /\ bound'[s] = accepted'[s] /\ accepted'[s] \in Callables
               /\ later'[s] = o.later /\ Latest(accepted'[s], o.later)
      BY <2>1, <3>2 DEF Latest
    <3> QED
      BY <1>4, <3>1, <3>2
  <2> QED
    BY <2>1 DEF AcceptedIsLatest
<1>7. BuiltIsRegistered' /\ RunsTheRegistered'
  BY DEF Inv, BuiltIsRegistered, RunsTheRegistered
<1> QED
  BY <1>2, <1>3, <1>5, <1>6, <1>7 DEF Inv, Ranges

\* Some of a batch may be bound although the caller does not get Ok.
LEMMA PartlyBoundInv ==
  ASSUME Inv, NEW t \in Threads, NEW o \in Operation, o = op[t], op[t] # Idle,
         o.pc # "check", NEW n \in 0..Len(o.batch),
         \A i \in 1..n : o.batch[i] \in FoundCorrected, bound' = Bind(o.batch, n),
         Go(t, "resolve") \/ Fail(t),
         UNCHANGED <<built, registry, accepted, later, ran>>
  PROVE  Inv'
<1>1. /\ bound' \in [Slots -> Callables \cup {None}]
      /\ BoundIsFound'
      /\ \A s \in Slots : bound[s] # None => bound'[s] # None
  BY BindKeeps DEF Operation
<1>2. op' \in [Threads -> {Idle} \cup Operation] /\ OperationsOK'
  <2>1. CASE Go(t, "resolve")
    <3>1. PICK o2 : o2 = [o EXCEPT !.pc = "resolve"]
      OBVIOUS
    <3>2. /\ o2 \in Operation
          /\ o2.batch = o.batch /\ o2.next = o.next /\ o2.later = o.later
      BY <3>1 DEF Operation
    <3>3. OperationOK(o2)
      BY <3>2 DEF OperationOK, Inv, OperationsOK
    <3>4. op' = [op EXCEPT ![t] = o2]
      BY <2>1, <3>1 DEF Go
    <3> QED
      BY <3>2, <3>3, <3>4, OneOperation
  <2>2. CASE Fail(t)
    BY <2>2, OneOperation DEF Fail
  <2> QED
    BY <2>1, <2>2
<1>3. AcceptedIsLatest'
  BY <1>1 DEF Inv, AcceptedIsLatest, Latest
<1>4. BuiltIsRegistered' /\ RunsTheRegistered'
  BY DEF Inv, BuiltIsRegistered, RunsTheRegistered
<1> QED
  BY <1>1, <1>2, <1>3, <1>4 DEF Inv, Ranges

LEMMA RegisterBatchInv ==
  ASSUME Inv, NEW t \in Threads, RegisterBatch(t) PROVE Inv'
<1>1. PICK o \in Operation : o = op[t] /\ op[t] # Idle /\ o.pc = "register"
  BY RunningOperation DEF Inv, RegisterBatch
<1> DEFINE n == FirstMissing(o.batch, FoundExactly) - 1
<1>2. Batch(t) = o.batch /\ o.batch \in Seq(Item)
  BY <1>1 DEF Batch, Operation
<1>3. n \in 0..Len(o.batch) /\ \A i \in 1..n : o.batch[i] \in FoundCorrected
  BY <1>2, BoundUpToFirstMissing DEF FoundCorrected
<1>4. /\ bound' = Bind(o.batch, n)
      /\ IF n = Len(o.batch)
           THEN Accept(t) ELSE Go(t, "resolve") /\ UNCHANGED <<accepted, later>>
      /\ UNCHANGED <<built, registry, ran>>
  BY <1>2 DEF RegisterBatch
<1> HIDE DEF n
<1>5. CASE n = Len(o.batch)
  BY <1>1, <1>3, <1>4, <1>5, AcceptInv
<1>6. CASE n # Len(o.batch)
  BY <1>1, <1>3, <1>4, <1>6, PartlyBoundInv
<1> QED
  BY <1>5, <1>6

LEMMA RetryBatchInv ==
  ASSUME Inv, NEW t \in Threads, RetryBatch(t) PROVE Inv'
<1>1. PICK o \in Operation : o = op[t] /\ op[t] # Idle /\ o.pc = "retry"
  BY RunningOperation DEF Inv, RetryBatch
<1> DEFINE n == FirstMissing(o.batch, FoundCorrected) - 1
<1>2. Batch(t) = o.batch /\ o.batch \in Seq(Item)
  BY <1>1 DEF Batch, Operation
<1>3. n \in 0..Len(o.batch) /\ \A i \in 1..n : o.batch[i] \in FoundCorrected
  BY <1>2, BoundUpToFirstMissing
<1>4. /\ bound' = Bind(o.batch, n)
      /\ IF n = Len(o.batch)
           THEN Accept(t) ELSE Fail(t) /\ UNCHANGED <<accepted, later>>
      /\ UNCHANGED <<built, registry, ran>>
  BY <1>2 DEF RetryBatch
<1> HIDE DEF n
<1>5. CASE n = Len(o.batch)
  BY <1>1, <1>3, <1>4, <1>5, AcceptInv
<1>6. CASE n # Len(o.batch)
  BY <1>1, <1>3, <1>4, <1>6, PartlyBoundInv
<1> QED
  BY <1>5, <1>6

LEMMA ResolveSigsInv ==
  ASSUME Inv, NEW t \in Threads, ResolveSigs(t) PROVE Inv'
<1>1. PICK o \in Operation : o = op[t] /\ op[t] # Idle /\ o.pc = "resolve"
  BY RunningOperation DEF Inv, ResolveSigs
<1>2. CASE Go(t, "retry")
  <2>1. PICK o2 : o2 = [o EXCEPT !.pc = "retry"]
    OBVIOUS
  <2>2. /\ o2 \in Operation
        /\ o2.batch = o.batch /\ o2.next = o.next /\ o2.later = o.later
    BY <2>1 DEF Operation
  <2>3. OperationOK(o2)
    <3>1. OperationOK(o)
      BY <1>1 DEF Inv, OperationsOK
    <3> QED
      BY <1>1, <2>2, <3>1 DEF OperationOK
  <2>4. op' = [op EXCEPT ![t] = o2]
    BY <1>1, <1>2, <2>1 DEF Go
  <2> QED
    BY <2>2, <2>3, <2>4, OneOperation, OthersStay DEF ResolveSigs
<1>3. CASE Fail(t)
  BY <1>3, OneOperation, OthersStay DEF ResolveSigs, Fail
<1> QED
  BY <1>2, <1>3 DEF ResolveSigs

\* A method that jumps to the callable it was accepted with runs the latest one
\* behind its trampoline.
LEMMA CallInv ==
  ASSUME Inv, NEW s \in Slots, Call(s) PROVE Inv'
<1>1. RunsTheRegistered'
  <2>1. CASE bound[s] = accepted[s]
    <3>1. Latest(accepted[s], later[s])
      BY <2>1 DEF Inv, AcceptedIsLatest, Call
    <3> QED
      BY <2>1, <3>1 DEF Call, RunsTheRegistered, Latest
  <2>2. CASE bound[s] # accepted[s]
    BY <2>2 DEF Call, RunsTheRegistered
  <2> QED
    BY <2>1, <2>2
<1>2. UNCHANGED <<built, registry, bound, op, accepted, later>>
  BY DEF Call
<1>3. OperationsOK'
  <2>1. ASSUME NEW t \in Threads, op'[t] # Idle PROVE OperationOK(op[t])'
    BY <1>2, <2>1 DEF Inv, OperationsOK, OperationOK, Latest
  <2> QED
    BY <2>1 DEF OperationsOK
<1> QED
  BY <1>1, <1>2, <1>3
     DEF Inv, Ranges, BuiltIsRegistered, BoundIsFound, AcceptedIsLatest, Latest

LEMMA StutterInv ==
  ASSUME Inv, UNCHANGED vars PROVE Inv'
BY DEF Inv, Ranges, OperationsOK, OperationOK, BuiltIsRegistered, BoundIsFound,
   AcceptedIsLatest, Latest, RunsTheRegistered

LEMMA InvStep == Inv /\ [Next]_vars => Inv'
<1> SUFFICES ASSUME Inv, [Next]_vars PROVE Inv'
  OBVIOUS
<1>1. ASSUME NEW c \in Callables, Build(c) PROVE Inv'
  BY <1>1, BuildInv
<1>2. ASSUME NEW t \in Threads, NEW batch \in Batches, Start(t, batch) PROVE Inv'
  BY <1>2, StartInv
<1>3. ASSUME NEW t \in Threads,
             CheckNext(t) \/ RegisterBatch(t) \/ ResolveSigs(t) \/ RetryBatch(t)
      PROVE  Inv'
  BY <1>3, CheckNextInv, RegisterBatchInv, ResolveSigsInv, RetryBatchInv
<1>4. ASSUME NEW s \in Slots, Call(s) PROVE Inv'
  BY <1>4, CallInv
<1>5. CASE UNCHANGED vars
  BY <1>5, StutterInv
<1> QED
  BY <1>1, <1>2, <1>3, <1>4, <1>5 DEF Next

LEMMA InvHolds == Spec => []Inv
BY InvInit, InvStep, PTL DEF Spec

-----------------------------------------------------------------------------
(***************************************************************************)
(* What follows.                                                           *)
(***************************************************************************)

\* Ranges; and a call registers descriptors that exist.
THEOREM RegistryTypeCorrect == Spec => []TypeOK
<1>1. Inv => TypeOK
  <2> SUFFICES ASSUME Inv PROVE TypeOK
    OBVIOUS
  <2>1. ASSUME NEW t \in Threads, op[t] # Idle, NEW i \in DOMAIN op[t].batch
        PROVE  op[t].batch[i].call \in built
    <3>1. op[t].batch \in Seq(Item) /\ OperationOK(op[t])
      BY <2>1 DEF Inv, Ranges, OperationsOK, Operation, Idle
    <3> QED
      BY <3>1 DEF OperationOK
  <2> QED
    BY <2>1 DEF Inv, Ranges, TypeOK
<1> QED
  BY <1>1, InvHolds, PTL

\* The check of a batch takes the lock once for each descriptor, and other
\* threads build descriptors in between; no batch it lets through holds two
\* callables of one Rust signature all the same.
THEOREM ChecksAreSound == Spec => []CheckedBatchIsUnambiguous
<1>1. Inv => CheckedBatchIsUnambiguous
  <2> SUFFICES ASSUME Inv, NEW t \in Threads,
                      op[t].pc \in {"register", "resolve", "retry"},
                      NEW i \in DOMAIN Batch(t), NEW j \in DOMAIN Batch(t),
                      SameTrampoline(Batch(t)[i].call, Batch(t)[j].call)
               PROVE  Batch(t)[i].call = Batch(t)[j].call
    BY DEF CheckedBatchIsUnambiguous, SameTrampoline
  <2>1. PICK o \in Operation : o = op[t] /\ op[t] # Idle
    BY RunningOperation DEF Inv
  <2>2. OperationOK(o) /\ o.batch \in Seq(Item) /\ Batch(t) = o.batch
    BY <2>1 DEF Inv, OperationsOK, Operation, Batch
  <2>3. i \in 1..(o.next - 1) /\ j \in 1..(o.next - 1)
    BY <2>1, <2>2 DEF OperationOK
  <2> QED
    BY <2>2, <2>3 DEF OperationOK
<1> QED
  BY <1>1, InvHolds, PTL

\* Ok means bound, also when the corrected signatures were needed, and whatever
\* later batches do to the method: to a callable of its name and parameters, and
\* of its return type too unless that callable's is the generic one.
THEOREM OkMeansBound == Spec => []AcceptedIsBound
<1>1. ASSUME NEW c, NEW s, [call |-> c, slot |-> s] \in FoundCorrected
      PROVE  \/ Fit[<<c, s>>] = "exact"
             \/ Fit[<<c, s>>] = "otherReturn" /\ c \in Generic
  <2> DEFINE item == [call |-> c, slot |-> s]
  <2>1. item.call = c /\ item.slot = s
    OBVIOUS
  <2>2. CASE item \in FoundExactly
    BY <2>1, <2>2 DEF FoundExactly
  <2>3. CASE item \in {i \in [call : Generic, slot : Slots] :
                         Fit[<<i.call, i.slot>>] = "otherReturn"}
    BY <2>1, <2>3
  <2> QED
    BY <1>1, <2>2, <2>3 DEF FoundCorrected
<1>2. Inv => AcceptedIsBound
  BY <1>1 DEF Inv, AcceptedIsLatest, BoundIsFound, AcceptedIsBound
<1> QED
  BY <1>2, InvHolds, PTL

\* A registered method runs the callable it was registered with, or one of the
\* same Rust signature that was built since the registration began.
THEOREM RegisteredCallableRuns == Spec => []RunsTheRegistered
<1>1. Inv => RunsTheRegistered
  BY DEF Inv
<1> QED
  BY <1>1, InvHolds, PTL

-----------------------------------------------------------------------------
(***************************************************************************)
(* Completions.                                                            *)
(***************************************************************************)

\* What a value and what an error is turned into, and that these differ from
\* one another and from a pending or cancelled future.
LEMMA ValueCompletes ==
  ASSUME NEW v \in Values
  PROVE  /\ Value(v) \in Completions
         /\ Value(v).kind = "value" /\ Value(v).of = v
         /\ Value(v) \notin {Unset, Pending, Cancelled}
<1>1. Value(v) \in Completions
  BY DEF Completions
<1>2. Value(v).kind = "value" /\ Value(v).of = v
  BY DEF Value
<1>3. Pending.kind = "pending" /\ Cancelled.kind = "cancelled"
  BY DEF Pending, Cancelled
<1> QED
  BY <1>1, <1>2, <1>3, CompletionsAssumption

LEMMA ErrorCompletes ==
  ASSUME NEW e \in Errors \cup BridgeErrors
  PROVE  /\ BuildThrowable(e) \in Completions
         /\ BuildThrowable(e).kind = "failed" /\ BuildThrowable(e).of = e
         /\ BuildThrowable(e).class =
              IF e \in JavaExceptions \ Unknown THEN e ELSE RuntimeException
         /\ BuildThrowable(e) \notin {Unset, Pending, Cancelled}
<1>1. BuildThrowable(e) \in Completions
  BY DEF BuildThrowable, Completions
<1>2. /\ BuildThrowable(e).kind = "failed" /\ BuildThrowable(e).of = e
      /\ BuildThrowable(e).class =
           IF e \in JavaExceptions \ Unknown THEN e ELSE RuntimeException
  BY DEF BuildThrowable, Failed
<1>3. Pending.kind = "pending" /\ Cancelled.kind = "cancelled"
  BY DEF Pending, Cancelled
<1> QED
  BY <1>1, <1>2, <1>3, CompletionsAssumption

\* What DeliversTheResult says of one call.
Delivered(future, r) ==
  future \notin {Unset, Pending, Cancelled} =>
    /\ future.of = r
    /\ \/ future.kind = "value" /\ r \in Values \ Rejected
       \/ /\ future.kind = "failed" /\ r \notin Values
          /\ future.class = IF r \in JavaExceptions \ Unknown
                              THEN r ELSE RuntimeException

LEMMA DeliveredToAll ==
  DeliversTheResult <=> \A c \in Calls : Delivered(cf[c], result[c])
BY DEF DeliversTheResult, Delivered

LEMMA NothingToDeliver ==
  ASSUME NEW future \in {Unset, Pending, Cancelled}, NEW r PROVE Delivered(future, r)
BY DEF Delivered

LEMMA ValueDelivered ==
  ASSUME NEW v \in Values, v \notin Rejected PROVE Delivered(Value(v), v)
BY ValueCompletes DEF Delivered

LEMMA ErrorDelivered ==
  ASSUME NEW e \in Errors \cup BridgeErrors PROVE Delivered(BuildThrowable(e), e)
BY ErrorCompletes, AsyncNativeAssumption, BridgeErrorsAssumption DEF Delivered

-----------------------------------------------------------------------------
(***************************************************************************)
(* The invariant, call by call.                                            *)
(***************************************************************************)

\* The variables as a whole.
Functions ==
  /\ DOMAIN java = Calls /\ java = [c \in Calls |-> java[c]]
  /\ DOMAIN cf = Calls /\ cf = [c \in Calls |-> cf[c]]
  /\ DOMAIN worker = Calls /\ worker = [c \in Calls |-> worker[c]]
  /\ DOMAIN result = Calls /\ result = [c \in Calls |-> result[c]]
  /\ runtime \in BOOLEAN

\* One call: where it is, its future, its worker and how its function ended.
CallOK(place, future, stage, r) ==
  /\ place \in {"idle", "calling", "returned", "joining", "over", "threw"}
  /\ future \in Completions \cup {Pending, Unset}
  /\ stage \in {"none", "queued", "running", "joined", "complete", "fail",
                "exited", "lost"}
  /\ r \in Values \cup Errors \cup BridgeErrors \cup {Unset}
  /\ stage # "none" => future # Unset
  /\ stage = "complete" => r \in Values
  /\ stage = "fail" => r \notin Values \cup {Unset}
  /\ stage = "joined" => r # Unset
  /\ Delivered(future, r)
  /\ future \notin {Unset, Pending, Cancelled} => stage = "exited"

\* The inductive invariant: what a future was completed with is final, since its
\* worker's last step completed it, and a joined task has its result.
IInv ==
  /\ Functions
  /\ \A c \in Calls : CallOK(java[c], cf[c], worker[c], result[c])

LEMMA IInvGivesAll == IInv => AsyncTypeOK /\ DeliversTheResult
BY DeliveredToAll DEF IInv, Functions, CallOK, AsyncTypeOK

LEMMA IInvInit == AsyncInit => IInv
<1> SUFFICES ASSUME AsyncInit PROVE IInv
  OBVIOUS
<1>1. ASSUME NEW c \in Calls PROVE CallOK(java[c], cf[c], worker[c], result[c])
  <2>1. java[c] = "idle" /\ cf[c] = Unset /\ worker[c] = "none" /\ result[c] = Unset
    BY DEF AsyncInit
  <2> QED
    BY <2>1, NothingToDeliver DEF CallOK
<1> QED
  BY <1>1 DEF AsyncInit, IInv, Functions

\* A step of one call leaves the others alone.
LEMMA OneCallMoves ==
  ASSUME IInv, NEW c \in Calls, NEW place, NEW future, NEW stage, NEW r,
         CallOK(place, future, stage, r),
         java' = [java EXCEPT ![c] = place], cf' = [cf EXCEPT ![c] = future],
         worker' = [worker EXCEPT ![c] = stage], result' = [result EXCEPT ![c] = r],
         runtime' = runtime
  PROVE  IInv'
<1>1. Functions'
  BY DEF IInv, Functions
<1>2. ASSUME NEW d \in Calls PROVE CallOK(java'[d], cf'[d], worker'[d], result'[d])
  <2>1. CASE d = c
    <3>1. java'[d] = place /\ cf'[d] = future /\ worker'[d] = stage /\ result'[d] = r
      BY <2>1 DEF IInv, Functions
    <3> QED
      BY <3>1
  <2>2. CASE d # c
    <3>1. /\ java'[d] = java[d] /\ cf'[d] = cf[d]
          /\ worker'[d] = worker[d] /\ result'[d] = result[d]
      BY <2>2 DEF IInv, Functions
    <3> QED
      BY <3>1 DEF IInv
  <2> QED
    BY <2>1, <2>2
<1> QED
  BY <1>1, <1>2 DEF IInv

\* Leaving a component as it is, is such a step too.
LEMMA Same ==
  ASSUME IInv, NEW c \in Calls
  PROVE  /\ java = [java EXCEPT ![c] = java[c]]
         /\ cf = [cf EXCEPT ![c] = cf[c]]
         /\ worker = [worker EXCEPT ![c] = worker[c]]
         /\ result = [result EXCEPT ![c] = result[c]]
BY DEF IInv, Functions

LEMMA OneCall ==
  ASSUME IInv, NEW c \in Calls PROVE CallOK(java[c], cf[c], worker[c], result[c])
BY DEF IInv

-----------------------------------------------------------------------------
(***************************************************************************)
(* The calling Java thread.                                                *)
(***************************************************************************)

LEMMA RefuseInv ==
  ASSUME IInv, NEW c \in Calls, Refuse(c) PROVE IInv'
<1>1. CallOK("threw", cf[c], worker[c], result[c])
  BY OneCall DEF CallOK
<1>2. /\ java' = [java EXCEPT ![c] = "threw"]
      /\ cf' = [cf EXCEPT ![c] = cf[c]]
      /\ worker' = [worker EXCEPT ![c] = worker[c]]
      /\ result' = [result EXCEPT ![c] = result[c]]
      /\ runtime' = runtime
  BY Same DEF Refuse
<1> QED
  BY <1>1, <1>2, OneCallMoves

\* The call has neither future nor worker: the ones it gets are its first.
LEMMA SpawnInv ==
  ASSUME IInv, NEW c \in Calls, Spawn(c) PROVE IInv'
<1> DEFINE stage == IF c \in TokioCalls THEN "queued" ELSE "running"
<1>1. CallOK("calling", Pending, stage, result[c])
  BY OneCall, NothingToDeliver, CompletionsAssumption DEF CallOK
<1>2. /\ java' = [java EXCEPT ![c] = "calling"]
      /\ cf' = [cf EXCEPT ![c] = Pending]
      /\ worker' = [worker EXCEPT ![c] = stage]
      /\ result' = [result EXCEPT ![c] = result[c]]
      /\ runtime' = runtime
  BY Same DEF Spawn
<1> QED
  BY <1>1, <1>2, OneCallMoves

LEMMA SpawnFailsInv ==
  ASSUME IInv, NEW c \in Calls, SpawnFails(c) PROVE IInv'
<1>1. NotSpawned \in BridgeErrors /\ NotSpawned \notin Values \cup {Unset}
  BY BridgeErrorsAssumption DEF BridgeErrors
<1>2. CallOK("calling", Pending, "fail", NotSpawned)
  BY <1>1, NothingToDeliver, CompletionsAssumption DEF CallOK
<1> QED
  BY <1>2, OneCallMoves, Same DEF SpawnFails

LEMMA CallerInv ==
  ASSUME IInv, NEW c \in Calls, Return(c) \/ Join(c) PROVE IInv'
<1>1. PICK place \in {"returned", "threw", "joining", "over"} :
        java' = [java EXCEPT ![c] = place]
  BY DEF Return, Join
<1>2. CallOK(place, cf[c], worker[c], result[c])
  BY <1>1, OneCall DEF CallOK
<1>3. /\ java' = [java EXCEPT ![c] = place]
      /\ cf' = [cf EXCEPT ![c] = cf[c]]
      /\ worker' = [worker EXCEPT ![c] = worker[c]]
      /\ result' = [result EXCEPT ![c] = result[c]]
      /\ runtime' = runtime
  BY <1>1, Same DEF Return, Join
<1> QED
  BY <1>2, <1>3, OneCallMoves

\* Nothing that Java cancels was completed, and nothing that a worker does to a
\* cancelled future has an effect.
LEMMA CancelInv ==
  ASSUME IInv, NEW c \in Calls, Cancel(c) PROVE IInv'
<1>1. Cancelled \in Completions
  BY DEF Completions
<1>2. CallOK(java[c], Cancelled, worker[c], result[c])
  BY <1>1, OneCall, NothingToDeliver, CompletionsAssumption DEF CallOK
<1>3. /\ java' = [java EXCEPT ![c] = java[c]]
      /\ cf' = [cf EXCEPT ![c] = Cancelled]
      /\ worker' = [worker EXCEPT ![c] = worker[c]]
      /\ result' = [result EXCEPT ![c] = result[c]]
      /\ runtime' = runtime
  BY Same DEF Cancel, Settle
<1> QED
  BY <1>2, <1>3, OneCallMoves

-----------------------------------------------------------------------------
(***************************************************************************)
(* The worker.                                                             *)
(***************************************************************************)

\* Before its last step a worker's future is pending or cancelled: the result
\* may still change.
LEMMA WorkerMoves ==
  ASSUME IInv, NEW c \in Calls, worker[c] \notin {"none", "exited"},
         NEW stage \in {"queued", "running", "joined", "complete", "fail", "exited",
                        "lost"},
         NEW r \in Values \cup Errors \cup BridgeErrors \cup {Unset},
         stage = "complete" => r \in Values,
         stage = "fail" => r \notin Values \cup {Unset},
         stage = "joined" => r # Unset
  PROVE  CallOK(java[c], cf[c], stage, r)
<1>1. cf[c] \in {Unset, Pending, Cancelled} /\ cf[c] # Unset
  BY OneCall DEF CallOK
<1> QED
  BY <1>1, OneCall, NothingToDeliver DEF CallOK

LEMMA StartNestedInv ==
  ASSUME IInv, NEW c \in Calls, StartNested(c) PROVE IInv'
<1>1. CASE runtime
  <2>1. CallOK(java[c], cf[c], "running", result[c])
    BY WorkerMoves, OneCall DEF StartNested, CallOK
  <2> QED
    BY <1>1, <2>1, OneCallMoves, Same DEF StartNested, MoveTo
<1>2. CASE ~runtime
  <2>1. TaskCancelled \in BridgeErrors /\ TaskCancelled # Unset
    BY BridgeErrorsAssumption DEF BridgeErrors
  <2>2. CallOK(java[c], cf[c], "joined", TaskCancelled)
    BY <2>1, WorkerMoves DEF StartNested
  <2> QED
    BY <1>2, <2>2, OneCallMoves, Same DEF StartNested, MoveTo
<1> QED
  BY <1>1, <1>2

\* What the worker does with a result.
LEMMA OutcomeOK ==
  ASSUME NEW r \in Values \cup Errors \cup BridgeErrors
  PROVE  /\ r # Unset
         /\ Outcome(r) \in {"complete", "fail"}
         /\ Outcome(r) = "complete" => r \in Values
         /\ Outcome(r) = "fail" => r \notin Values \cup {Unset}
BY AsyncNativeAssumption, BridgeErrorsAssumption DEF Outcome

LEMMA FunctionEndsInv ==
  ASSUME IInv, NEW c \in Calls, FunctionEnds(c) PROVE IInv'
<1>1. PICK r \in Values \cup Errors \cup {Panicked} :
        /\ result' = [result EXCEPT ![c] = r]
        /\ MoveTo(c, IF OnTask(c) THEN "joined" ELSE Outcome(r))
  BY DEF FunctionEnds
<1> DEFINE stage == IF OnTask(c) THEN "joined" ELSE Outcome(r)
<1>2. r \in Values \cup Errors \cup BridgeErrors
  BY DEF BridgeErrors
<1>3. CallOK(java[c], cf[c], stage, r)
  BY <1>2, OutcomeOK, WorkerMoves DEF FunctionEnds
<1> QED
  BY <1>1, <1>3, OneCallMoves, Same DEF FunctionEnds, MoveTo

LEMMA JoinedInv ==
  ASSUME IInv, NEW c \in Calls, Joined(c) PROVE IInv'
<1>1. result[c] \in Values \cup Errors \cup BridgeErrors
  BY OneCall DEF Joined, CallOK
<1>2. CallOK(java[c], cf[c], Outcome(result[c]), result[c])
  BY <1>1, OutcomeOK, WorkerMoves DEF Joined
<1>3. /\ java' = [java EXCEPT ![c] = java[c]]
      /\ cf' = [cf EXCEPT ![c] = cf[c]]
      /\ worker' = [worker EXCEPT ![c] = Outcome(result[c])]
      /\ result' = [result EXCEPT ![c] = result[c]]
      /\ runtime' = runtime
  BY Same DEF Joined, MoveTo
<1> QED
  BY <1>2, <1>3, OneCallMoves

\* A value that could not be handed over becomes an error before anything is
\* completed.
LEMMA CannotCompleteInv ==
  ASSUME IInv, NEW c \in Calls, CannotComplete(c) PROVE IInv'
<1>1. NotConverted \in BridgeErrors /\ NotConverted \notin Values \cup {Unset}
  BY BridgeErrorsAssumption DEF BridgeErrors
<1>2. CallOK(java[c], cf[c], "fail", NotConverted)
  BY <1>1, WorkerMoves DEF CannotComplete
<1> QED
  BY <1>2, OneCallMoves, Same DEF CannotComplete, MoveTo

\* Workers that are lost or dropped leave the future as it is.
LEMMA LossInv ==
  ASSUME IInv, NEW c \in Calls,
         \/ ConversionPanics(c)
         \/ DropOuter(c)
         \/ /\ worker[c] = "fail" /\ MoveTo(c, "lost")
            /\ UNCHANGED <<java, cf, result, runtime>>
  PROVE  IInv'
<1>1. CallOK(java[c], cf[c], "lost", result[c])
  BY OneCall, WorkerMoves DEF ConversionPanics, DropOuter, CallOK
<1> QED
  BY <1>1, OneCallMoves, Same DEF ConversionPanics, DropOuter, MoveTo

LEMMA DropNestedInv ==
  ASSUME IInv, NEW c \in Calls, DropNested(c) PROVE IInv'
<1>1. TaskCancelled \in BridgeErrors /\ TaskCancelled # Unset
  BY BridgeErrorsAssumption DEF BridgeErrors
<1>2. CallOK(java[c], cf[c], "joined", TaskCancelled)
  BY <1>1, WorkerMoves DEF DropNested
<1> QED
  BY <1>2, OneCallMoves, Same DEF DropNested, MoveTo

\* The last step: the future is completed with the result, unless Java
\* cancelled it.
LEMMA SettleInv ==
  ASSUME IInv, NEW c \in Calls, worker[c] \in {"complete", "fail"},
         NEW completion \in Completions, Delivered(completion, result[c]),
         Settle(c, completion), MoveTo(c, "exited"),
         UNCHANGED <<java, result, runtime>>
  PROVE  IInv'
<1>1. CASE cf[c] = Pending
  <2>1. CallOK(java[c], completion, "exited", result[c])
    BY OneCall, CompletionsAssumption DEF CallOK
  <2>2. /\ java' = [java EXCEPT ![c] = java[c]]
        /\ cf' = [cf EXCEPT ![c] = completion]
        /\ worker' = [worker EXCEPT ![c] = "exited"]
        /\ result' = [result EXCEPT ![c] = result[c]]
        /\ runtime' = runtime
    BY <1>1, Same DEF Settle, MoveTo
  <2> QED
    BY <2>1, <2>2, OneCallMoves
<1>2. CASE cf[c] # Pending
  <2>1. CallOK(java[c], cf[c], "exited", result[c])
    BY OneCall, WorkerMoves DEF CallOK
  <2>2. /\ java' = [java EXCEPT ![c] = java[c]]
        /\ cf' = [cf EXCEPT ![c] = cf[c]]
        /\ worker' = [worker EXCEPT ![c] = "exited"]
        /\ result' = [result EXCEPT ![c] = result[c]]
        /\ runtime' = runtime
    BY <1>2, Same DEF Settle, MoveTo
  <2>3. PICK place, future, r : place = java[c] /\ future = cf[c] /\ r = result[c]
    OBVIOUS
  <2>4. /\ CallOK(place, future, "exited", r)
        /\ java' = [java EXCEPT ![c] = place]
        /\ cf' = [cf EXCEPT ![c] = future]
        /\ worker' = [worker EXCEPT ![c] = "exited"]
        /\ result' = [result EXCEPT ![c] = r]
        /\ runtime' = runtime
    BY <2>1, <2>2, <2>3
  <2> QED
    BY <2>4, OneCallMoves
<1> QED
  BY <1>1, <1>2

LEMMA CompleteValueInv ==
  ASSUME IInv, NEW c \in Calls, CompleteValue(c) PROVE IInv'
<1>1. result[c] \in Values /\ result[c] \notin Rejected
  BY OneCall DEF CompleteValue, CallOK
<1> QED
  BY <1>1, ValueCompletes, ValueDelivered, SettleInv DEF CompleteValue

LEMMA CompleteExceptionallyInv ==
  ASSUME IInv, NEW c \in Calls, CompleteExceptionally(c) PROVE IInv'
<1>1. worker[c] = "fail" /\ result[c] \in Errors \cup BridgeErrors
  BY OneCall DEF CompleteExceptionally, CallOK
<1>2. CASE Settle(c, BuildThrowable(result[c])) /\ MoveTo(c, "exited")
  BY <1>1, <1>2, ErrorCompletes, ErrorDelivered, SettleInv DEF CompleteExceptionally
<1>3. CASE MoveTo(c, "lost") /\ UNCHANGED cf
  BY <1>1, <1>3, LossInv DEF CompleteExceptionally
<1> QED
  BY <1>2, <1>3 DEF CompleteExceptionally

-----------------------------------------------------------------------------
(***************************************************************************)
(* Every step, and what follows.                                           *)
(***************************************************************************)

LEMMA IInvStep == IInv /\ [AsyncNext]_asyncVars => IInv'
<1> SUFFICES ASSUME IInv, [AsyncNext]_asyncVars PROVE IInv'
  OBVIOUS
<1>1. ASSUME NEW c \in Calls, Refuse(c) \/ Spawn(c) \/ SpawnFails(c) PROVE IInv'
  BY <1>1, RefuseInv, SpawnInv, SpawnFailsInv
<1>2. ASSUME NEW c \in Calls, Return(c) \/ Join(c) \/ Cancel(c) PROVE IInv'
  BY <1>2, CallerInv, CancelInv
<1>3. ASSUME NEW c \in Calls, Work(c) PROVE IInv'
  BY <1>3, StartNestedInv, FunctionEndsInv, JoinedInv, CannotCompleteInv, LossInv,
     CompleteValueInv, CompleteExceptionallyInv DEF Work
<1>4. ASSUME NEW c \in Calls, DropNested(c) \/ DropOuter(c) PROVE IInv'
  BY <1>4, DropNestedInv, LossInv
<1>5. CASE ShutDown
  BY <1>5 DEF ShutDown, IInv, Functions
<1>6. CASE UNCHANGED asyncVars
  BY <1>6 DEF IInv, Functions
<1> QED
  BY <1>1, <1>2, <1>3, <1>4, <1>5, <1>6 DEF AsyncNext

LEMMA IInvHolds == AsyncSpec => []IInv
BY IInvInit, IInvStep, PTL DEF AsyncSpec

\* Ranges; and no worker runs for a call without a future, none completes one
\* with an error or fails one with a value.
THEOREM AsyncTypeCorrect == AsyncSpec => []AsyncTypeOK
BY IInvHolds, IInvGivesAll, PTL

\* "Errors" and "Result conversion" in the docs of future.rs: what Java sees is
\* how the function of its own call ended, on a thread and on tasks, whether
\* the thread is refused, the function panics, the runtime shuts down or the
\* value cannot be handed over.
THEOREM ResultIsDelivered == AsyncSpec => []DeliversTheResult
BY IInvHolds, IInvGivesAll, PTL
=============================================================================
