------------------------------ MODULE JArrays ------------------------------
(* Values going back and forth between Rust and a Java object: a field of   *)
(* the object is read and written (get_field, set_field in call.rs), arrays *)
(* are created, filled, indexed and copied through a JArray (handles.rs,    *)
(* array.rs, java.rs) and as whole Vecs (convert.rs), while Java code       *)
(* writes the same field and the same arrays.  JNI checks little: a field   *)
(* takes any reference, so its type rests on the conversions.               *)
(*                                                                          *)
(* A copy out of an array takes one step per element, as Java may write     *)
(* between any two; a new array is not visible to Java before it is         *)
(* complete, so building one is part of the step that publishes it.         *)
EXTENDS JavaTypes

CONSTANTS FieldTypes,  \* the types the field may be declared with
          Types,       \* the Rust types it reads and writes the places with
                       \* that they stand for
          Strangers,   \* those it reads and writes any place with
          Classes,     \* the element classes it asks new_object_array for
          Sizes,       \* the lengths and indices it uses, past a jint too
          MaxLen(_),   \* bound: length of an array of a type, and of its Vec
          MaxArrays    \* bound: arrays alive at a time

ASSUME ArraysAssumption ==
    /\ MaxArrays \in Nat \ {0} /\ Sizes \subseteq Nat
    /\ Types \subseteq RustTypes /\ Strangers \subseteq RustTypes
    /\ \A d \in FieldTypes \cup Classes : IsJavaType(d)
    /\ \A d \in Classes : IsReference(d)
    /\ \A d \in Classes \cup {JavaType(t) : t \in Singles} :
          MaxLen(d) \in 0..(HalfJint - 1)

VARIABLES declared, \* the field's type
          field,    \* its value
          heap,     \* the arrays: their class and elements, by place
          held,     \* the JArray<t> Rust holds: [t, j]
          op        \* the call in progress, or the one that just ended

vars == <<declared, field, heap, held, op>>

Idle == [k |-> "idle"]
NoHandle == [t |-> Ty("none"), j |-> Null]
IsVec(t) == Bare(t).c = "Vec"

(* The call `put` of x: Rust type t ended, or `got` ended, or an array was  *)
(* asked for.                                                               *)
Put(t, x, to, ok) == [k |-> "put", t |-> t, x |-> x, to |-> to, ok |-> ok]
Got(t, from, res) == [k |-> "got", t |-> t, from |-> from, res |-> res]
Made(size, ok) == [k |-> "made", size |-> size, ok |-> ok]
TheField == [c |-> "field", j |-> Null, i |-> 0]
TheHandle == [c |-> "handle", j |-> Null, i |-> 0]
Slot(j, i) == [c |-> "slot", j |-> j, i |-> i]

----------------------------------------------------------------------------
(* The Java heap *)

ArraysIn(js) == {j.v : j \in {k \in js : IsArray(k)}}
Elems(h, ids) == UNION {{h[a].elems[i] : i \in DOMAIN h[a].elems} : a \in ids}

(* The arrays in every set with ids that has what its arrays refer to.      *)
Reach(h, ids) ==
    {a \in DOMAIN h : \A s \in SUBSET DOMAIN h :
        ids \subseteq s /\ ArraysIn(Elems(h, s)) \subseteq s => a \in s}

(* What the collector leaves; nothing is collected while a copy is on.      *)
Collected(h, f, hd, o) ==
    IF o.k = "vec" THEN h
    ELSE LET live == Reach(h, ArraysIn({f, hd.j})) IN [a \in live |-> h[a]]

Room == \E a \in 1..MaxArrays : a \notin DOMAIN heap
NewPlace == CHOOSE a \in 1..MaxArrays : a \notin DOMAIN heap
WithArray(a) == [b \in DOMAIN heap \cup {NewPlace} |->
                    IF b = NewPlace THEN a ELSE heap[b]]
Allocated(a) == JavaValue(a.d, NewPlace)

Zero(d) == IF IsReference(d) THEN Null ELSE JavaValue(d, 0)
Blank(d, n) == [d |-> ArrayType(d), elems |-> [i \in 1..n |-> Zero(d)]]

(* The state after a call that leaves heap h, field f, handle hd.           *)
After(h, f, hd, o) ==
    /\ field' = f /\ held' = hd /\ op' = o
    /\ heap' = Collected(h, f, hd, o)
    /\ UNCHANGED declared

Fails(o) == After(heap, field, held, o)

(* What the jni crate makes of a usize size: past a jint, an error or the   *)
(* wrapped value.                                                           *)
JniSize(n) == IF n < HalfJint THEN {n} ELSE {AsJint(n), -1}

----------------------------------------------------------------------------
(* Vec<t> and a Java array *)

(* ToJava for Vec<t>, JArray::from_vec: every element converts and, in an   *)
(* array of references, passes the JVM's store check.                       *)
VecToJava(t, xs) ==
    LET js == [i \in DOMAIN xs |-> ElementToJava(t, xs[i])]
    IN  IF \A i \in DOMAIN xs :
               js[i] # <<>> /\ InstanceOf(js[i][1], ElementClass(t))
        THEN <<[d |-> ArrayType(ElementClass(t)),
                elems |-> [i \in DOMAIN xs |-> js[i][1]]]>>
        ELSE <<>>

(* The Vec inside an Option<Vec<t>>. *)
VecOfOption(t, x) == IF t.c = "Option" THEN x[1] ELSE x

(* A value that was read, on its way to a Rust value of type t. *)
Receive(t, from, j) ==
    IF ~IsVec(t) THEN Got(t, from, FromJava(t, j))
    ELSE IF t.c = "Option" /\ j = Null THEN Got(t, from, <<<<>>>>)
    ELSE IF CastToArray(Arg(Bare(t)), j)
         THEN [k |-> "vec", t |-> t, j |-> j, out |-> <<>>]
         ELSE Got(t, from, <<>>)

----------------------------------------------------------------------------
Init == /\ declared \in FieldTypes
        /\ field = Zero(declared)
        /\ heap = <<>>
        /\ held = NoHandle
        /\ op = Idle

(* The values of type t the program has. *)
SingleValues(t) ==
    CASE t.c = "i32" -> Ints
      [] t.c = "i8" -> JavaBytes
      [] t.c = "u8" -> RustBytes
      [] t.c = "char" -> Chars
      [] t.c = "String" -> Texts
      [] t.c = "JObject" -> {JavaValue(String, s) : s \in Texts}
                            \cup ({held.j} \ {Null})
      [] t.c = "JClass" -> {JavaValue(Class, 0)}
      [] t.c = "JArray" -> {h.j : h \in {g \in {held} : g.t = Arg(t)}}

(* Those of type t and, in an Option, None. *)
Optional(t, values) ==
    IF t.c = "Option" THEN {<<>>} \cup {<<x>> : x \in values} ELSE values

ElementValues(t) == Optional(t, SingleValues(Bare(t)))
VecValues(t) ==
    UNION {[1..n -> ElementValues(t)] : n \in 0..MaxLen(JavaType(Bare(t)))}
Values(t) ==
    Optional(t, IF IsVec(t) THEN VecValues(Arg(Bare(t))) ELSE SingleValues(Bare(t)))

(* set_field: the field is looked up by the type of the value. *)
SetField(t, x) ==
    /\ op = Idle
    /\ IF declared # JavaArgs(t, x)
       THEN Fails(Put(t, x, TheField, FALSE))
       ELSE IF IsVec(t) /\ (t.c = "Vec" \/ x # <<>>)
       THEN LET a == VecToJava(Arg(Bare(t)), VecOfOption(t, x))
            IN  /\ Room
                /\ IF a = <<>> THEN Fails(Put(t, x, TheField, FALSE))
                   ELSE After(WithArray(a[1]), Allocated(a[1]), held,
                              Put(t, x, TheField, TRUE))
       ELSE LET j == ToJava(t, x)
            IN  IF j = <<>> THEN Fails(Put(t, x, TheField, FALSE))
                ELSE After(heap, j[1], held, Put(t, x, TheField, TRUE))

(* get_field: the field is looked up by the type asked for. *)
GetField(t) ==
    /\ op = Idle
    /\ Fails(IF declared = ReturnType(t) THEN Receive(t, TheField, field)
                                         ELSE Got(t, TheField, <<>>))

(* Java::new_array *)
NewArray(t, size) ==
    /\ op = Idle /\ Room
    /\ \E n \in JniSize(size) :
         IF n < 0 THEN Fails(Made(size, FALSE))
         ELSE LET a == Blank(Desc(0, Letter(t)), n)
              IN  /\ n <= MaxLen(Desc(0, Letter(t)))
                  /\ After(WithArray(a), field, [t |-> t, j |-> Allocated(a)],
                           Made(size, TRUE))

(* Java::new_object_array: `len as i32`, and a negative length throws. *)
NewObjectArray(d, size) ==
    /\ op = Idle /\ Room
    /\ LET n == AsJint(size)
           a == Blank(d, n)
       IN  IF n < 0 THEN Fails(Made(size, FALSE))
           ELSE /\ n <= MaxLen(d)
                /\ After(WithArray(a), field,
                         [t |-> Ty("JObject"), j |-> Allocated(a)],
                         Made(size, TRUE))

(* JArray::from_vec *)
FromVec(t, xs) ==
    /\ op = Idle /\ Room
    /\ LET a == VecToJava(t, xs)
       IN  IF a = <<>> THEN Fails(Put(VecOf(t), xs, TheHandle, FALSE))
           ELSE After(WithArray(a[1]), field, [t |-> t, j |-> Allocated(a[1])],
                      Put(VecOf(t), xs, TheHandle, TRUE))

(* The index the JVM checks: cast by rjava (array_get, array_set) for an    *)
(* array of primitives, by the jni crate for one of objects.                *)
JvmIndices(i) == IF IsPrimitive(held.t) THEN {AsJint(i)} ELSE JniSize(i)
HeldElems == heap[held.j.v].elems
InBounds(n) == 0 <= n /\ n < Len(HeldElems)

(* JArray::set *)
ArraySet(i, x) ==
    /\ op = Idle /\ held # NoHandle
    /\ \E n \in JvmIndices(i) :
         LET j == ToJava(held.t, x)
             ok == /\ j # <<>> /\ InBounds(n)
                   /\ InstanceOf(j[1], Element(held.j.d))
             o == Put(held.t, x, Slot(held.j, i), ok)
         IN  IF ok THEN After([heap EXCEPT ![held.j.v].elems[n + 1] = j[1]],
                              field, held, o)
                   ELSE Fails(o)

(* JArray::get::<t> *)
ArrayGet(t, i) ==
    /\ op = Idle /\ held # NoHandle
    /\ \E n \in JvmIndices(i) :
         Fails(IF InBounds(n) THEN Receive(t, Slot(held.j, i), HeldElems[n + 1])
                              ELSE Got(t, Slot(held.j, i), <<>>))

(* JArray::to_vec and to_vec_options *)
ArrayToVec(t) ==
    /\ op = Idle /\ held # NoHandle
    /\ Bare(t) = held.t /\ (t = held.t \/ held.t.c = "JObject")
    /\ Fails(Receive(VecOf(t), TheHandle, held.j))

(* One element of a copy: read, converted, pushed; the first that does not  *)
(* convert ends the copy.                                                   *)
CopyElement ==
    /\ op.k = "vec"
    /\ LET n == Len(op.out)
           r == FromJava(Arg(Bare(op.t)), heap[op.j.v].elems[n + 1])
       IN  /\ n < Len(heap[op.j.v].elems)
           /\ Fails(IF r = <<>> THEN Got(Arg(Bare(op.t)), Slot(op.j, n), <<>>)
                                ELSE [op EXCEPT !.out = Append(@, r[1])])

CopyEnds ==
    /\ op.k = "vec"
    /\ Len(op.out) = Len(heap[op.j.v].elems)
    /\ Fails(Got(op.t, TheHandle,
                 <<IF op.t.c = "Option" THEN <<op.out>> ELSE op.out>>))

(* The caller takes the result, and may keep a JArray it was given. *)
Return ==
    /\ op.k \in {"put", "got", "made"}
    /\ \/ After(heap, field, held, Idle)
       \/ /\ op.k = "got" /\ op.t.c = "JArray" /\ op.res # <<>>
          /\ After(heap, field, [t |-> Arg(op.t), j |-> op.res[1]], Idle)

DropHandle ==
    /\ op = Idle /\ held # NoHandle
    /\ After(heap, field, NoHandle, Idle)

(* Java code: it sees what it can reach, and the JVM checks what it does.   *)
Seen == {JavaValue(String, s) : s \in Texts} \cup {Null, JavaValue(Class, 0)}
        \cup {JavaValue(heap[a].d, a) : a \in DOMAIN heap}
        \cup {JavaValue(Desc(0, "I"), x) : x \in Ints}
        \cup {JavaValue(Desc(0, "B"), x) : x \in JavaBytes}
        \cup {JavaValue(Desc(0, "C"), x) : x \in Units}
(* A Class is stored only where a Class is declared; as an Object it would  *)
(* be no different from a String.                                           *)
MayStore(d) == {j \in Seen : InstanceOf(j, d) /\ (j.d = Class => d = Class)}
JavaMayRun == op.k \in {"idle", "vec"}

JavaSetsField ==
    /\ JavaMayRun
    /\ \E j \in MayStore(declared) : After(heap, j, held, op)

JavaSetsElement ==
    /\ JavaMayRun
    /\ \E a \in DOMAIN heap : \E i \in DOMAIN heap[a].elems :
         \E j \in MayStore(Element(heap[a].d)) :
            After([heap EXCEPT ![a].elems[i] = j], field, held, op)

JavaAllocates ==
    /\ op = Idle /\ Room
    /\ \E d \in Classes \cup {Desc(0, l) : l \in Letters} :
         LET a == Blank(d, MaxLen(d))
         IN  /\ InstanceOf(Allocated(a), declared)
             /\ After(WithArray(a), Allocated(a), held, op)

TypesFor(d) == {t \in Types : JavaType(t) = d} \cup Strangers

Next == \/ \E t \in TypesFor(declared) : \/ \E x \in Values(t) : SetField(t, x)
                                        \/ GetField(t)
        \/ \E t \in TypesFor(Element(held.j.d)), i \in Sizes : ArrayGet(t, i)
        \/ \E t \in {held.t, OptionOf(held.t)} : ArrayToVec(t)
        \/ \E t \in ArrayElements :
              \E xs \in VecValues(t) : FromVec(t, xs)
        \/ \E t \in ArrayElements \ {Ty("JObject")}, n \in Sizes : NewArray(t, n)
        \/ \E d \in Classes, n \in Sizes : NewObjectArray(d, n)
        \/ held # NoHandle /\ \E i \in Sizes : \E x \in Values(held.t) : ArraySet(i, x)
        \/ CopyElement \/ CopyEnds \/ Return \/ DropHandle
        \/ JavaSetsField \/ JavaSetsElement \/ JavaAllocates

Spec == Init /\ [][Next]_vars

----------------------------------------------------------------------------
(* Nothing in the JVM holds a value its type excludes: the field and every  *)
(* array element is an instance of the declared type, and every reference   *)
(* to an array carries the array's class.  JNI's SetObjectField checks      *)
(* nothing, so this rests on the signature and the class the conversions    *)
(* choose (java_args, element_class).                                       *)
HeapIsTyped ==
    /\ InstanceOf(field, declared)
    /\ \A a \in DOMAIN heap : \A i \in DOMAIN heap[a].elems :
          InstanceOf(heap[a].elems[i], Element(heap[a].d))
    /\ \A j \in Elems(heap, DOMAIN heap) \cup {field, held.j} :
          IsArray(j) => j.v \in DOMAIN heap /\ heap[j.v].d = j.d

(* A size past the largest unsigned jint: its cast is another valid size.   *)
Wraps(n) == n >= 2 * HalfJint

(* Where the code does not do what its docs say (see the README): the       *)
(* element class of Vec<JArray<JObject>>, and None in a field that is not   *)
(* an Object.                                                               *)
OfObjectArrays(t) == IsVec(t) /\ Bare(Arg(Bare(t))) = JArrayOf(Ty("JObject"))
NoneInField(o) == o.t.c = "Option" /\ o.x = <<>> /\ declared # Object

(* The Rust value has a Java value at all: no char above U+FFFF, no None in *)
(* an array of primitives.                                                  *)
ElementHasJavaValue(t, x) ==
    LET some == t.c = "Option" => x # <<>>
    IN  Bare(t).c = "char" /\ some => VecOfOption(t, x) \in Units
HasJavaValue(t, x) ==
    IF ~IsVec(t) THEN ElementHasJavaValue(t, x)
    ELSE (t.c = "Option" => x # <<>>) =>
            LET e == Arg(Bare(t))
                xs == VecOfOption(t, x)
            IN  \A i \in DOMAIN xs :
                    /\ ElementHasJavaValue(e, xs[i])
                    /\ IsPrimitive(Bare(e)) /\ e.c = "Option" => xs[i] # <<>>

(* A write that reports success left, in the place it was asked for, a      *)
(* value that denotes the Rust one, and nothing else in that array changed; *)
(* a write that reports an error had a reason: the place is of another      *)
(* type, the index is past the end, or the value has no Java value.         *)
WriteLands ==
    op.k = "idle" /\ op'.k = "put" =>
        LET o == op'
            a == o.to.j.v
        IN  CASE o.to.c = "field" ->
                   IF o.ok THEN Denotes(o.t, o.x, field', heap')
                   ELSE \/ declared # JavaType(o.t) \/ ~HasJavaValue(o.t, o.x)
                        \/ OfObjectArrays(o.t) \/ NoneInField(o)
              [] o.to.c = "handle" ->
                   IF o.ok THEN Denotes(o.t, o.x, held'.j, heap')
                           ELSE ~HasJavaValue(o.t, o.x)
              [] o.to.c = "slot" /\ ~Wraps(o.to.i) ->
                   LET old == heap[a].elems
                   IN  IF o.ok
                       THEN /\ o.to.i < Len(old)
                            /\ Denotes(o.t, o.x, heap'[a].elems[o.to.i + 1], heap')
                            /\ \A i \in DOMAIN old \ {o.to.i + 1} :
                                  heap'[a].elems[i] = old[i]
                       ELSE \/ o.to.i >= Len(old) \/ ~HasJavaValue(o.t, o.x)
                            \/ ~InstanceOf(o.x, Element(o.to.j.d))
              [] OTHER -> TRUE
ArrayIsMade ==
    op.k = "idle" /\ op'.k = "made" /\ ~Wraps(op'.size) =>
        IF op'.ok THEN Len(heap'[held'.j.v].elems) = op'.size
                  ELSE op'.size >= HalfJint

(* Every write lands (set_field, JArray::set, from_vec), and a new array    *)
(* has the length that was asked for (new_array, new_object_array).         *)
WritesLand == [][WriteLands /\ ArrayIsMade]_vars

(* The Java values a read was asked for. *)
Asked(from) ==
    CASE from.c = "field" -> {field}
      [] from.c = "handle" -> {}
      [] from.c = "slot" ->
            {heap[from.j.v].elems[i] : i \in DOMAIN heap[from.j.v].elems \cap {from.i + 1}}

(* A read that reports success returns what denotes the value that was in   *)
(* the place it was asked for; one that reports an error had a reason: the  *)
(* field is of another type, the index is past the end, or no value of the  *)
(* type denotes what is there.  A copy returns every element.               *)
ReadIsTrue ==
    op.k # "got" /\ op'.k = "got" /\ ~(op'.from.c = "slot" /\ Wraps(op'.from.i)) =>
        IF op'.res # <<>>
        THEN IF op.k = "vec"
             THEN /\ VecOfOption(op.t, op'.res[1]) = op.out
                  /\ Len(op.out) = Len(heap[op.j.v].elems)
             ELSE \E j \in Asked(op'.from) : Denotes(op'.t, op'.res[1], j, heap)
        ELSE \A j \in Asked(op'.from) :
                \/ op'.from.c = "field" /\ declared # JavaType(op'.t)
                \/ OfObjectArrays(op'.t) \/ ~Denotable(op'.t, j)
(* An element that was copied denotes what was in the array then. *)
CopyIsTrue ==
    op.k = "vec" /\ op'.k = "vec" /\ op'.out # op.out =>
        LET n == Len(op'.out)
        IN  /\ n = Len(op.out) + 1
            /\ Denotes(Arg(Bare(op.t)), op'.out[n], heap[op.j.v].elems[n], heap)

(* Every read is true (get_field, JArray::get, to_vec), and so is every     *)
(* element of a copy, which Java may be writing to.                         *)
ReadsAreTrue == [][ReadIsTrue /\ CopyIsTrue]_vars
=============================================================================
