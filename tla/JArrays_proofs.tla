--------------------------- MODULE JArrays_proofs ---------------------------
(***************************************************************************)
(* Proofs about the conversions and the arrays they go through, for every  *)
(* width of a jint and a byte, every set of values and every length below  *)
(* the largest jint: nothing in the JVM holds a value its type excludes,   *)
(* every write lands and every read is true.                               *)
(***************************************************************************)
EXTENDS JArrays, TLAPS

-----------------------------------------------------------------------------
(***************************************************************************)
(* The shape of a Rust type, and arithmetic.                               *)
(***************************************************************************)

\* A scalar type takes no argument.
LEMMA ScalarShape ==
  ASSUME NEW t \in Scalars
  PROVE  /\ t = Ty(t.c)
         /\ t.c \in {"i32", "i8", "u8", "char", "String", "JObject", "JClass"}
BY DEF Scalars, Ty

\* What a JArray holds is a scalar.
LEMMA ArrayElementShape ==
  ASSUME NEW t \in ArrayElements
  PROVE  /\ t \in Scalars
         /\ t.c \in {"i32", "i8", "char", "JObject"}
         /\ t.c = "JObject" => t = Ty("JObject")
BY DEF Scalars, ArrayElements, Ty

\* A type that is neither an Option nor a Vec.
LEMMA SingleShape ==
  ASSUME NEW t \in Singles
  PROVE  /\ t.c # "Option" /\ t.c # "Vec"
         /\ Bare(t) = t
         /\ \/ t \in Scalars /\ t.c # "JArray"
            \/ t.c = "JArray" /\ Arg(t) \in ArrayElements /\ t = JArrayOf(Arg(t))
<1>1. CASE t \in Scalars
  BY <1>1, ScalarShape DEF Bare
<1>2. CASE \E e \in ArrayElements : t = JArrayOf(e)
  BY <1>2 DEF Bare, JArrayOf, Arg
<1>q. QED BY <1>1, <1>2 DEF Singles

\* What a Vec holds is a single type or an Option of one.
LEMMA ElementShape ==
  ASSUME NEW t \in OrOption(Singles)
  PROVE  /\ Bare(t) \in Singles
         /\ t.c = "Option" => t = OptionOf(Bare(t)) /\ Arg(t) = Bare(t)
         /\ t.c # "Option" => t = Bare(t)
         /\ t.c # "Vec"
<1>1. CASE t \in Singles
  BY <1>1, SingleShape
<1>2. CASE \E e \in Singles : t = OptionOf(e)
  BY <1>2 DEF Bare, OptionOf, Arg
<1>q. QED BY <1>1, <1>2 DEF OrOption

\* A type is the type of an element, or a Vec of one, or an Option of that.
LEMMA TypeShape ==
  ASSUME NEW t \in RustTypes
  PROVE  /\ Bare(t).c # "Option"
         /\ t.c = "Option" => Arg(t) = Bare(t)
         /\ t.c # "Option" => t = Bare(t)
         /\ ~IsVec(t) => t \in OrOption(Singles) /\ Bare(t) \in Singles
         /\ IsVec(t) => /\ Arg(Bare(t)) \in OrOption(Singles)
                        /\ Bare(t) = VecOf(Arg(Bare(t)))
<1>1. CASE t \in OrOption(Singles)
  BY <1>1, ElementShape, SingleShape DEF IsVec
<1>2. CASE \E e \in OrOption(Singles) : t = VecOf(e) \/ t = OptionOf(VecOf(e))
  BY <1>2 DEF Bare, OptionOf, VecOf, Arg, IsVec
<1>q. QED BY <1>1, <1>2 DEF OrOption, RustTypes, Vecs

\* A function on 1..n is a sequence of length n.
LEMMA LenOfFunction ==
  ASSUME NEW n \in Nat, NEW s, s = [i \in 1..n |-> s[i]]
  PROVE  Len(s) = n /\ DOMAIN s = 1..n
<1>1. DEFINE S == {s[i] : i \in 1..n}
<1>2. s \in [1..n -> S] OBVIOUS
<1>3. s \in Seq(S) BY <1>2
<1>q. QED BY <1>2, <1>3

\* The cast of a size below twice the half range wraps at most once.
LEMMA JintCast ==
  ASSUME NEW x \in Nat, x < 2 * HalfJint
  PROVE  AsJint(x) = IF x < HalfJint THEN x ELSE x - 2 * HalfJint
BY TypesAssumption DEF AsJint

\* The remainder of a signed byte.
LEMMA NegativeMod ==
  ASSUME NEW h \in Nat \ {0}, NEW b \in (-h)..(h - 1)
  PROVE  b % (2 * h) = IF b < 0 THEN b + 2 * h ELSE b
OBVIOUS

-----------------------------------------------------------------------------
(***************************************************************************)
(* The inductive invariant: every value anywhere is one that Java has, and *)
(* every place holds what its type allows.                                 *)
(***************************************************************************)

\* A value carries its class, and a reference to an array the class of the array.
ValueOK(h, j) ==
  /\ j = JavaValue(j.d, j.v) /\ IsJavaType(j.d)
  /\ IsArray(j) => j.v \in DOMAIN h /\ h[j.v].d = j.d
  /\ j.d = Desc(0, "B") => j.v \in JavaBytes

\* An array has a length a jint can be, and elements its class allows.
ArrayOK(h, a) ==
  /\ a = [d |-> a.d, elems |-> a.elems]
  /\ IsJavaType(a.d) /\ a.d.dims > 0
  /\ \E n \in 0..(HalfJint - 1) : a.elems = [i \in 1..n |-> a.elems[i]]
  /\ \A i \in DOMAIN a.elems : /\ ValueOK(h, a.elems[i])
                               /\ InstanceOf(a.elems[i], Element(a.d))

HeapOK(h) ==
  /\ h = [a \in DOMAIN h |-> h[a]]
  /\ \A a \in DOMAIN h : ArrayOK(h, h[a])

\* A JArray<t> is an array that a JArray<t> may stand for.
HandleOK(h, t, j) ==
  /\ t \in ArrayElements /\ ValueOK(h, j) /\ IsArray(j)
  /\ IF t = Ty("JObject") THEN SubType(j.d, Desc(1, "Object"))
                          ELSE j.d = Desc(1, Letter(t))

HeldOK(h, hd) ==
  \/ hd = NoHandle
  \/ hd = [t |-> hd.t, j |-> hd.j] /\ HandleOK(h, hd.t, hd.j)

\* A copy in progress reads an array that still exists.
CopyOK(h, o) ==
  /\ o = [k |-> "vec", t |-> o.t, j |-> o.j, out |-> o.out]
  /\ o.t \in RustTypes /\ IsVec(o.t)
  /\ ValueOK(h, o.j) /\ CastToArray(Arg(Bare(o.t)), o.j)
  /\ \E S : o.out \in Seq(S)

\* A result that the caller may keep as a JArray is one.
OpOK(h, o) ==
  /\ o.k \in {"idle", "put", "got", "made", "vec"}
  /\ o.k = "got" /\ o.t.c = "JArray" /\ o.res # <<>>
        => HandleOK(h, Arg(o.t), o.res[1])
  /\ o.k = "vec" => CopyOK(h, o)

\* The field holds an instance of its type.
FieldOK(h, f) == ValueOK(h, f) /\ InstanceOf(f, declared)

\* The inductive invariant.
IInv ==
  /\ declared \in FieldTypes
  /\ HeapOK(heap)
  /\ FieldOK(heap, field)
  /\ HeldOK(heap, held)
  /\ OpOK(heap, op)

\* Null is a value in every heap.
LEMMA NullIsValue == ASSUME NEW h PROVE ValueOK(h, Null)
<1>1. Null.d = [dims |-> 0, base |-> "null"] /\ Null.v = 0
  BY DEF Null, Desc
<1>2. Null = JavaValue(Null.d, Null.v)
  BY <1>1 DEF Null, JavaValue, Desc
<1>4. IsJavaType(Null.d)
  BY <1>1 DEF IsJavaType, Desc
<1>5. ~IsArray(Null)
  BY <1>1 DEF IsArray
<1>6. Null.d # Desc(0, "B")
  BY <1>1 DEF Desc
<1>q. QED BY <1>2, <1>4, <1>5, <1>6 DEF ValueOK

\* So is what Rust holds.
LEMMA HeldIsValue ==
  ASSUME NEW h, NEW hd, HeldOK(h, hd)
  PROVE  ValueOK(h, hd.j)
BY NullIsValue DEF HeldOK, HandleOK, NoHandle

\* The invariant implies that the JVM is typed.
LEMMA SoundHeapIsTyped == IInv => HeapIsTyped
<1> SUFFICES ASSUME IInv PROVE HeapIsTyped
  OBVIOUS
<1>1. InstanceOf(field, declared)
  BY DEF IInv, FieldOK
<1>2. ASSUME NEW a \in DOMAIN heap, NEW i \in DOMAIN heap[a].elems
      PROVE  /\ InstanceOf(heap[a].elems[i], Element(heap[a].d))
             /\ ValueOK(heap, heap[a].elems[i])
  BY <1>2 DEF IInv, HeapOK, ArrayOK
<1>3. ASSUME NEW j \in Elems(heap, DOMAIN heap) \cup {field, held.j}, IsArray(j)
      PROVE  j.v \in DOMAIN heap /\ heap[j.v].d = j.d
  <2>1. ValueOK(heap, j)
    BY <1>2, HeldIsValue DEF Elems, IInv, FieldOK
  <2>q. QED BY <2>1, <1>3 DEF ValueOK
<1>q. QED BY <1>1, <1>2, <1>3 DEF HeapIsTyped

-----------------------------------------------------------------------------
(***************************************************************************)
(* The collector keeps what can be reached, as it is.                      *)
(***************************************************************************)

\* What is reachable has what its arrays refer to.
LEMMA ReachIsClosed ==
  ASSUME NEW h, NEW ids \in SUBSET DOMAIN h
  PROVE  /\ ids \subseteq Reach(h, ids) /\ Reach(h, ids) \subseteq DOMAIN h
         /\ \A a \in Reach(h, ids) : \A i \in DOMAIN h[a].elems :
               IsArray(h[a].elems[i]) /\ h[a].elems[i].v \in DOMAIN h
                  => h[a].elems[i].v \in Reach(h, ids)
<1>1. ids \subseteq Reach(h, ids) /\ Reach(h, ids) \subseteq DOMAIN h
  BY DEF Reach
<1>2. ASSUME NEW a \in Reach(h, ids), NEW i \in DOMAIN h[a].elems,
             IsArray(h[a].elems[i]), h[a].elems[i].v \in DOMAIN h
      PROVE  h[a].elems[i].v \in Reach(h, ids)
  <2> SUFFICES ASSUME NEW s \in SUBSET DOMAIN h, ids \subseteq s,
                      ArraysIn(Elems(h, s)) \subseteq s
               PROVE  h[a].elems[i].v \in s
    BY <1>2 DEF Reach
  <2>1. a \in s
    BY DEF Reach
  <2>2. h[a].elems[i] \in Elems(h, s)
    BY <2>1 DEF Elems
  <2>3. h[a].elems[i].v \in ArraysIn(Elems(h, s))
    BY <2>2, <1>2 DEF ArraysIn
  <2>q. QED BY <2>3
<1>q. QED BY <1>1, <1>2

\* A collection leaves a sound heap, and keeps the field and the handle.
LEMMA WhatIsCollected ==
  ASSUME NEW h, HeapOK(h), NEW f, ValueOK(h, f), NEW hd, ValueOK(h, hd.j), NEW o
  PROVE  LET g == Collected(h, f, hd, o)
         IN  /\ HeapOK(g) /\ ValueOK(g, f) /\ ValueOK(g, hd.j)
             /\ DOMAIN g \subseteq DOMAIN h /\ \A a \in DOMAIN g : g[a] = h[a]
             /\ o.k = "vec" => g = h
<1> DEFINE g == Collected(h, f, hd, o)
           live == Reach(h, ArraysIn({f, hd.j}))
<1>1. CASE o.k = "vec"
  BY <1>1 DEF Collected
<1>2. CASE o.k # "vec"
  <2>1. g = [a \in live |-> h[a]]
    BY <1>2 DEF Collected
  <2>2. ArraysIn({f, hd.j}) \subseteq DOMAIN h
    BY DEF ArraysIn, ValueOK
  <2>3. /\ ArraysIn({f, hd.j}) \subseteq live /\ live \subseteq DOMAIN h
        /\ \A a \in live : \A i \in DOMAIN h[a].elems :
              IsArray(h[a].elems[i]) /\ h[a].elems[i].v \in DOMAIN h
                 => h[a].elems[i].v \in live
    BY <2>2, ReachIsClosed
  <2> HIDE DEF g, live
  <2>4. DOMAIN g = live /\ \A a \in live : g[a] = h[a]
    BY <2>1
  <2>5. ASSUME NEW j, ValueOK(h, j), IsArray(j) => j.v \in live
        PROVE  ValueOK(g, j)
    BY <2>4, <2>5 DEF ValueOK
  <2>6. ValueOK(g, f) /\ ValueOK(g, hd.j)
    BY <2>5, <2>3 DEF ArraysIn
  <2>7. ASSUME NEW a \in live PROVE ArrayOK(g, h[a])
    <3>1. ArrayOK(h, h[a])
      BY <2>3 DEF HeapOK
    <3>2. ASSUME NEW i \in DOMAIN h[a].elems PROVE ValueOK(g, h[a].elems[i])
      <4>1. ValueOK(h, h[a].elems[i])
        BY <3>1 DEF ArrayOK
      <4>2. IsArray(h[a].elems[i]) => h[a].elems[i].v \in live
        BY <4>1, <2>3 DEF ValueOK
      <4>q. QED BY <4>1, <4>2, <2>5
    <3>q. QED BY <3>1, <3>2 DEF ArrayOK
  <2>8. HeapOK(g)
    BY <2>1, <2>4, <2>7 DEF HeapOK
  <2>q. QED BY <2>3, <2>4, <2>6, <2>8, <1>2 DEF g
<1>q. QED BY <1>1, <1>2

\* What a step leaves, when it does what After says.
LEMMA AfterKeeps ==
  ASSUME IInv, NEW h, HeapOK(h), NEW f, FieldOK(h, f), NEW hd, HeldOK(h, hd),
         NEW o, After(h, f, hd, o), OpOK(heap', o)
  PROVE  IInv'
<1>1. /\ field' = f /\ held' = hd /\ op' = o /\ declared' = declared
      /\ heap' = Collected(h, f, hd, o)
  BY DEF After
<1>2. ValueOK(h, f) /\ ValueOK(h, hd.j)
  BY HeldIsValue DEF FieldOK
<1>3. /\ HeapOK(heap') /\ ValueOK(heap', f) /\ ValueOK(heap', hd.j)
      /\ DOMAIN heap' \subseteq DOMAIN h /\ \A a \in DOMAIN heap' : heap'[a] = h[a]
  BY <1>1, <1>2, WhatIsCollected
<1>4. HeldOK(heap', hd)
  BY <1>3 DEF HeldOK, HandleOK
<1>q. QED BY <1>1, <1>3, <1>4 DEF IInv, FieldOK
-----------------------------------------------------------------------------
(***************************************************************************)
(* The Java types that the code derives are those of the type table.       *)
(***************************************************************************)

\* Descriptors and their element and array types.
LEMMA DescIsJavaType ==
  ASSUME NEW n \in Nat, NEW b
  PROVE  /\ IsJavaType(Desc(n, b)) /\ ArrayType(Desc(n, b)) = Desc(n + 1, b)
         /\ n > 0 => Element(Desc(n, b)) = Desc(n - 1, b)
         /\ Desc(n, b).dims = n /\ Desc(n, b).base = b
BY DEF IsJavaType, Desc, ArrayType, Element

\* The element type of an array type.
LEMMA ArrayTypeElement ==
  ASSUME NEW d, IsJavaType(d)
  PROVE  /\ IsJavaType(ArrayType(d)) /\ ArrayType(d).dims = d.dims + 1
         /\ ArrayType(d).dims > 0 /\ Element(ArrayType(d)) = d
<1>1. PICK n, b : n \in Nat /\ d = Desc(n, b)
  BY DEF IsJavaType
<1>q. QED BY <1>1, n + 1 \in Nat, (n + 1) - 1 = n, DescIsJavaType

\* The descriptors the conversions write are those the crate documents, but for
\* the element of Vec<JArray<JObject>>.
LEMMA SingleTypes ==
  ASSUME NEW t \in Singles
  PROVE  /\ ReturnType(t) = JavaType(t) /\ SingleType(t) = JavaType(t)
         /\ t # JArrayOf(Ty("JObject")) => ElementSig(t) = JavaType(t)
         /\ JavaType(t) =
              IF t.c = "JArray"
              THEN Desc(1, IF Arg(t) = Ty("JObject") THEN "Object" ELSE Letter(Arg(t)))
              ELSE Desc(0, IF IsPrimitive(t) THEN Letter(t)
                           ELSE IF t.c = "String" THEN "String"
                           ELSE IF t.c = "JObject" THEN "Object" ELSE "Class")
         /\ IsPrimitive(t) => Letter(t) \in Letters
         /\ t.c = "JArray" /\ Arg(t) # Ty("JObject") => Letter(Arg(t)) \in Letters
<1>1. Bare(t) = t /\ t.c # "Vec" /\ t.c # "Option"
  BY SingleShape
<1>2. CASE t \in Scalars /\ t.c # "JArray"
  BY <1>1, <1>2, ScalarShape
     DEF ReturnType, JavaType, SingleType, ScalarType, ElementSig, IsPrimitive,
         Letter, Letters, Object, String, Class
<1>3. CASE t.c = "JArray" /\ Arg(t) \in ArrayElements /\ t = JArrayOf(Arg(t))
  <2>1. /\ Arg(t).c \in {"i32", "i8", "char", "JObject"}
        /\ (Arg(t).c = "JObject") = (Arg(t) = Ty("JObject"))
    BY <1>3, ArrayElementShape DEF Ty
  <2>2. ScalarType(Arg(t)) = IF Arg(t).c = "JObject" THEN Desc(0, "Object")
                                                     ELSE Desc(0, Letter(Arg(t)))
    BY <2>1 DEF ScalarType, IsPrimitive, Object
  <2>3. SingleType(t) = IF Arg(t).c = "JObject" THEN Desc(1, "Object")
                                                ELSE Desc(1, Letter(Arg(t)))
    BY <1>1, <1>3, <2>2, DescIsJavaType DEF SingleType
  <2>4. JavaType(t) = SingleType(t)
    BY <1>1 DEF JavaType
  <2>5. ReturnType(t) = SingleType(t)
    BY <1>1, <1>3, <2>3 DEF ReturnType, IsPrimitive
  <2>6. ElementSig(t) = IF Arg(t).c = "JObject" THEN Desc(2, "Object")
                                                ELSE Desc(1, Letter(Arg(t)))
    BY <1>1, <1>3 DEF ElementSig, IsPrimitive
  <2>7. Letter(Arg(t)) \in Letters \/ Arg(t).c = "JObject"
    BY <2>1 DEF Letter, Letters
  <2>q. QED BY <1>3, <2>1, <2>3, <2>4, <2>5, <2>6, <2>7 DEF IsPrimitive
<1>q. QED BY <1>2, <1>3, SingleShape

\* The same for the types that wrap one of these.
LEMMA DerivedTypes ==
  ASSUME NEW t \in RustTypes
  PROVE  /\ ~IsVec(t) => ReturnType(t) = JavaType(Bare(t)) /\ JavaType(t) = JavaType(Bare(t))
         /\ IsVec(t) => /\ ReturnType(t) = ArrayType(ElementSig(Arg(Bare(t))))
                        /\ JavaType(t) = ArrayType(JavaType(Bare(Arg(Bare(t)))))
                        /\ ElementSig(Arg(Bare(t))) = ElementSig(Bare(Arg(Bare(t))))
         /\ IsVec(t) /\ ~OfObjectArrays(t) => ReturnType(t) = JavaType(t)
<1> DEFINE u == Bare(t)
           e == Arg(u)
<1>1. /\ u.c # "Option" /\ Bare(u) = u
      /\ ReturnType(t) = ReturnType(u) /\ JavaType(t) = JavaType(u)
  BY TypeShape DEF Bare, ReturnType, JavaType, SingleType
<1>2. CASE ~IsVec(t)
  BY <1>1, <1>2, TypeShape, SingleTypes
<1>3. CASE IsVec(t)
  <2>1. u.c = "Vec" /\ e \in OrOption(Singles)
    BY <1>3, TypeShape DEF IsVec
  <2>2. Bare(e) \in Singles /\ Bare(Bare(e)) = Bare(e)
    BY <2>1, ElementShape, SingleShape
  <2>3. SingleType(e) = SingleType(Bare(e)) /\ ElementSig(e) = ElementSig(Bare(e))
    BY <2>2 DEF SingleType, ElementSig
  <2>4. ReturnType(u) = ArrayType(ElementSig(e))
    BY <1>1, <2>1 DEF ReturnType, IsPrimitive
  <2>5. JavaType(u) = ArrayType(SingleType(e))
    BY <1>1, <2>1 DEF JavaType
  <2>6. SingleType(e) = JavaType(Bare(e))
    BY <2>2, <2>3, SingleTypes
  <2>7. ~OfObjectArrays(t) => ElementSig(e) = JavaType(Bare(e))
    BY <1>3, <2>2, <2>3, SingleTypes DEF OfObjectArrays
  <2>q. QED BY <1>1, <1>3, <2>3, <2>4, <2>5, <2>6, <2>7
<1>q. QED BY <1>2, <1>3

-----------------------------------------------------------------------------
(***************************************************************************)
(* One value on its way to Java is refused if Java has none for it, and    *)
(* else it denotes the Rust value and is of the type it was looked up by.  *)
(***************************************************************************)

\* A byte as a u8 has the same bits.
LEMMA ByteRoundTrip ==
  ASSUME NEW b \in JavaBytes
  PROVE  /\ ByteFromJava(b) \in RustBytes
         /\ ByteFromJava(b) \in {b, b + 2 * HalfByte}
<1>1. HalfByte \in Nat \ {0}
  BY TypesAssumption
<1>2. b \in (-HalfByte)..(HalfByte - 1)
  BY DEF JavaBytes
<1>3. ByteFromJava(b) = IF b < 0 THEN b + 2 * HalfByte ELSE b
  BY <1>1, <1>2, NegativeMod DEF ByteFromJava
<1>q. QED BY <1>1, <1>2, <1>3 DEF RustBytes

\* A value converts to one that denotes it and that its Java type allows; only a
\* char above the units is refused.
LEMMA SingleConverts ==
  ASSUME HeldOK(heap, held), NEW t \in Singles, NEW x \in SingleValues(t)
  PROVE  LET r == SingleToJava(t, x)
         IN  \/ r = <<>> /\ t.c = "char" /\ x \notin Units
             \/ /\ r = <<r[1]>> /\ r # <<>>
                /\ ValueOK(heap, r[1]) /\ r[1] # Null
                /\ InstanceOf(r[1], JavaType(t))
                /\ SingleDenotes(t, x, r[1])
                /\ ~IsPrimitive(t) /\ t.c # "String" => r[1] = x
<1>1. Bare(t) = t /\ t.c # "Vec" /\ t.c # "Option" /\ ReturnType(t) = JavaType(t)
  BY SingleShape, SingleTypes
<1> DEFINE Fine(r) == /\ r = <<r[1]>> /\ r # <<>>
                      /\ ValueOK(heap, r[1]) /\ r[1] # Null
                      /\ InstanceOf(r[1], JavaType(t))
                      /\ SingleDenotes(t, x, r[1])
                      /\ ~IsPrimitive(t) /\ t.c # "String" => r[1] = x
<1>2. ASSUME NEW b \in {"I", "B", "C", "String", "Class"}, NEW v,
             b = "B" => v \in JavaBytes
      PROVE  /\ ValueOK(heap, JavaValue(Desc(0, b), v))
             /\ JavaValue(Desc(0, b), v) # Null
             /\ InstanceOf(JavaValue(Desc(0, b), v), Desc(0, b))
  <2> DEFINE d == Desc(0, b)
             j == JavaValue(d, v)
  <2>1. j.d = d /\ j.v = v
    BY DEF JavaValue
  <2>2. IsJavaType(d) /\ d.dims = 0 /\ d.base = b
    BY DescIsJavaType
  <2>3. d = Desc(0, "B") => b = "B"
    BY <2>2, DescIsJavaType
  <2>4. ValueOK(heap, j)
    <3> HIDE DEF d
    <3>q. QED BY <1>2, <2>1, <2>2, <2>3 DEF ValueOK, IsArray
  <2>5. j # Null
    BY <2>1, <2>2 DEF Null, Desc
  <2>6. InstanceOf(j, d)
    BY <2>1 DEF InstanceOf, SubType
  <2>q. QED BY <2>4, <2>5, <2>6
<1>3. CASE t.c \in {"i32", "i8"}
  <2>1. JavaType(t) = Desc(0, Letter(t)) /\ Letter(t) \in {"I", "B"} /\ (Letter(t) = "B" => t.c = "i8")
    BY <1>3, SingleTypes DEF Letter, IsPrimitive
  <2>2. t.c = "i8" => x \in JavaBytes
    BY DEF SingleValues
  <2>3. SingleToJava(t, x) = <<JavaValue(JavaType(t), x)>>
    BY <1>1, <1>3 DEF SingleToJava
  <2>4. SingleDenotes(t, x, JavaValue(JavaType(t), x))
    BY <1>3 DEF SingleDenotes
  <2>5. IsPrimitive(t)
    BY <1>3 DEF IsPrimitive
  <2>q. QED BY <1>2, <2>1, <2>2, <2>3, <2>4, <2>5
<1>4. CASE t.c = "u8"
  <2>1. JavaType(t) = Desc(0, "B") /\ IsPrimitive(t)
    BY <1>4, SingleTypes DEF Letter, IsPrimitive
  <2>2. x \in RustBytes
    BY <1>4 DEF SingleValues
  <2>3. SingleToJava(t, x) = <<JavaValue(JavaType(t), ByteToJava(x))>>
    BY <1>1, <1>4 DEF SingleToJava
  <2>4. /\ ByteToJava(x) \in JavaBytes
        /\ x \in {ByteToJava(x), ByteToJava(x) + 2 * HalfByte}
    BY <2>2, TypesAssumption DEF ByteToJava, JavaBytes, RustBytes
  <2>5. SingleDenotes(t, x, JavaValue(JavaType(t), ByteToJava(x)))
    BY <1>4, <2>2, <2>4 DEF SingleDenotes, JavaValue
  <2>q. QED BY <1>2, <2>1, <2>3, <2>4, <2>5
<1>5. CASE t.c = "char"
  <2>1. JavaType(t) = Desc(0, "C") /\ IsPrimitive(t)
    BY <1>5, SingleTypes DEF Letter, IsPrimitive
  <2>2. SingleToJava(t, x) = [i \in DOMAIN CharToJava(x) |->
                                 JavaValue(JavaType(t), CharToJava(x)[i])]
    BY <1>1, <1>5 DEF SingleToJava
  <2>3. CASE x \in Units
    <3>1. SingleToJava(t, x) = <<JavaValue(JavaType(t), x)>>
      BY <2>2, <2>3 DEF CharToJava
    <3>2. SingleDenotes(t, x, JavaValue(JavaType(t), x))
      BY <1>5 DEF SingleDenotes
    <3>q. QED BY <1>2, <2>1, <3>1, <3>2
  <2>4. CASE x \notin Units
    BY <1>5, <2>2, <2>4 DEF CharToJava
  <2>q. QED BY <2>3, <2>4
<1>6. CASE t.c = "String"
  <2>1. JavaType(t) = Desc(0, "String") /\ ~IsPrimitive(t)
    BY <1>6, SingleTypes DEF IsPrimitive
  <2>2. SingleToJava(t, x) = <<JavaValue(String, x)>>
    BY <1>6 DEF SingleToJava
  <2>3. SingleDenotes(t, x, JavaValue(String, x))
    BY <1>6 DEF SingleDenotes
  <2>q. QED BY <1>2, <1>6, <2>1, <2>2, <2>3 DEF String
<1>7. CASE t.c = "JClass"
  <2>1. JavaType(t) = Desc(0, "Class") /\ x = JavaValue(Desc(0, "Class"), 0)
    BY <1>7, SingleTypes DEF IsPrimitive, SingleValues, Class
  <2>2. SingleToJava(t, x) = <<x>>
    BY <1>7 DEF SingleToJava
  <2>3. SingleDenotes(t, x, x)
    BY <1>7, <2>1 DEF SingleDenotes, SubType, JavaValue
  <2>q. QED BY <1>2, <2>1, <2>2, <2>3
<1>8. CASE t.c = "JObject"
  <2>1. JavaType(t) = Object
    BY <1>8, SingleTypes DEF IsPrimitive, Object
  <2>2. SingleToJava(t, x) = <<x>>
    BY <1>8 DEF SingleToJava
  <2>3. ValueOK(heap, x) /\ x # Null /\ IsReference(x.d) /\ SubType(x.d, Object)
    <3>1. CASE \E v \in Texts : x = JavaValue(String, v)
      BY <1>2, <3>1 DEF String, JavaValue, Desc, IsReference, SubType, Object, Letters
    <3>2. CASE x = held.j /\ x # Null
      <4>1. HandleOK(heap, held.t, x)
        BY <3>2 DEF HeldOK, NoHandle
      <4>q. QED BY <3>2, <4>1, DescIsJavaType
                DEF HandleOK, IsArray, IsReference, SubType, Object, Desc, ValueOK, IsJavaType
    <3>q. QED BY <1>8, <3>1, <3>2 DEF SingleValues
  <2>4. InstanceOf(x, JavaType(t))
    BY <2>1, <2>3 DEF InstanceOf, IsReference, Object, Desc, Letters
  <2>5. SingleDenotes(t, x, x)
    BY <1>8, <2>3 DEF SingleDenotes
  <2>q. QED BY <2>2, <2>3, <2>4, <2>5
<1>9. CASE t.c = "JArray"
  <2>1. held.t = Arg(t) /\ x = held.j
    BY <1>9 DEF SingleValues
  <2>2. Arg(t) \in ArrayElements
    BY <1>9, SingleShape, ScalarShape
  <2>3. HandleOK(heap, Arg(t), x)
    BY <2>1, <2>2, ArrayElementShape DEF HeldOK, NoHandle, Ty
  <2>4. SingleToJava(t, x) = <<x>>
    BY <1>9 DEF SingleToJava
  <2>5. SubType(x.d, JavaType(t)) /\ IsReference(JavaType(t))
    BY <1>9, <2>3, SingleTypes, DescIsJavaType DEF HandleOK, SubType, IsReference
  <2>6. InstanceOf(x, JavaType(t)) /\ SingleDenotes(t, x, x)
    BY <1>9, <2>5 DEF InstanceOf, SingleDenotes
  <2>7. ValueOK(heap, x) /\ x # Null
    BY <2>3 DEF HandleOK, IsArray, Null, Desc
  <2>q. QED BY <2>4, <2>6, <2>7
<1>q. QED BY <1>3, <1>4, <1>5, <1>6, <1>7, <1>8, <1>9, SingleShape, ScalarShape
-----------------------------------------------------------------------------
(***************************************************************************)
(* The same of an element, of a whole value that is no Vec, and of a Vec.  *)
(***************************************************************************)

\* So does an Option, as null or as what it holds.
LEMMA ElementConverts ==
  ASSUME HeldOK(heap, held), NEW t \in OrOption(Singles), NEW x \in ElementValues(t)
  PROVE  LET r == ToJava(t, x)
         IN  \/ r = <<>> /\ ~ElementHasJavaValue(t, x)
             \/ /\ r = <<r[1]>> /\ r # <<>>
                /\ ValueOK(heap, r[1]) /\ ElementDenotes(t, x, r[1])
                /\ IF t.c = "Option" /\ x = <<>> THEN r[1] = Null
                   ELSE r[1] # Null /\ InstanceOf(r[1], JavaType(Bare(t)))
                /\ t.c = "JObject" => r[1] = x
<1>1. CASE t.c # "Option"
  <2>1. Bare(t) = t /\ t \in Singles
    BY <1>1, ElementShape
  <2>2. x \in SingleValues(t) /\ ToJava(t, x) = SingleToJava(t, x)
    BY <1>1, <2>1 DEF ElementValues, Optional, ToJava
  <2>3. t.c = "char" /\ x \notin Units => ~ElementHasJavaValue(t, x)
    BY <1>1, <2>1 DEF ElementHasJavaValue, VecOfOption
  <2>4. \A j : ElementDenotes(t, x, j) = SingleDenotes(t, x, j)
    BY <1>1 DEF ElementDenotes
  <2>5. t.c = "JObject" => ~IsPrimitive(t)
    BY DEF IsPrimitive
  <2>q. QED BY <1>1, <2>1, <2>2, <2>3, <2>4, <2>5, SingleConverts
<1>2. CASE t.c = "Option" /\ x = <<>>
  BY <1>2, NullIsValue DEF ToJava, ElementDenotes
<1>3. CASE t.c = "Option" /\ x # <<>>
  <2>1. Bare(t) \in Singles /\ Arg(t) = Bare(t)
    BY <1>3, ElementShape
  <2>2. /\ x[1] \in SingleValues(Bare(t)) /\ ToJava(t, x) = SingleToJava(Bare(t), x[1])
    BY <1>3, <2>1 DEF ElementValues, Optional, ToJava
  <2>3. Bare(t).c = "char" /\ x[1] \notin Units => ~ElementHasJavaValue(t, x)
    BY <1>3 DEF ElementHasJavaValue, VecOfOption
  <2>4. \A j : ElementDenotes(t, x, j) = (j # Null /\ SingleDenotes(Bare(t), x[1], j))
    BY <1>3, <2>1 DEF ElementDenotes
  <2>q. QED BY <1>3, <2>1, <2>2, <2>3, <2>4, SingleConverts
<1>q. QED BY <1>1, <1>2, <1>3

\* A Vec is a function on 1..n for a length the JVM allows.
LEMMA VecLength ==
  ASSUME NEW e \in OrOption(Singles), NEW xs \in VecValues(e)
  PROVE  \E n \in 0..(HalfJint - 1) : xs \in [1..n -> ElementValues(e)]
<1>1. PICK n \in 0..MaxLen(JavaType(Bare(e))) : xs \in [1..n -> ElementValues(e)]
  BY DEF VecValues
<1>2. MaxLen(JavaType(Bare(e))) \in 0..(HalfJint - 1)
  BY ElementShape, ArraysAssumption
<1>3. n \in 0..(HalfJint - 1)
  BY <1>2, TypesAssumption
<1>q. QED BY <1>1, <1>3

\* Why an element of a Vec may be refused.
Refused(e, x) ==
  \/ ~ElementHasJavaValue(e, x)
  \/ IsPrimitive(Bare(e)) /\ e.c = "Option" /\ x = <<>>

\* A Vec converts to an array that may be allocated, whose elements denote the
\* elements of the Vec, unless one of them is refused.
LEMMA VecConverts ==
  ASSUME HeldOK(heap, held), NEW e \in OrOption(Singles), NEW xs \in VecValues(e)
  PROVE  LET a == VecToJava(e, xs)
         IN  \/ /\ a = <<>>
                /\ \/ \E i \in DOMAIN xs : Refused(e, xs[i])
                   \/ Bare(e) = JArrayOf(Ty("JObject"))
             \/ /\ a = <<a[1]>> /\ a # <<>>
                /\ ArrayOK(heap, a[1]) /\ a[1].d = ArrayType(ElementSig(e))
                /\ Len(xs) = Len(a[1].elems) /\ DOMAIN xs = DOMAIN a[1].elems
                /\ \A i \in DOMAIN xs : ElementDenotes(e, xs[i], a[1].elems[i])
<1> DEFINE js == [i \in DOMAIN xs |-> ElementToJava(e, xs[i])]
           ok == \A i \in DOMAIN xs :
                    js[i] # <<>> /\ InstanceOf(js[i][1], ElementClass(e))
           a == [d |-> ArrayType(ElementClass(e)), elems |-> [i \in DOMAIN xs |-> js[i][1]]]
<1>1. VecToJava(e, xs) = IF ok THEN <<a>> ELSE <<>>
  BY DEF VecToJava
<1>2. PICK n \in 0..(HalfJint - 1) : xs \in [1..n -> ElementValues(e)]
  BY VecLength
<1>3. n \in Nat
  BY <1>2, TypesAssumption
<1>4. ASSUME NEW i \in DOMAIN xs
      PROVE  \/ js[i] = <<>> /\ Refused(e, xs[i])
             \/ /\ js[i] = <<js[i][1]>> /\ js[i] # <<>>
                /\ ValueOK(heap, js[i][1]) /\ ElementDenotes(e, xs[i], js[i][1])
                /\ \/ js[i][1] = Null /\ ~IsPrimitive(Bare(e))
                   \/ InstanceOf(js[i][1], JavaType(Bare(e)))
  <2>1. xs[i] \in ElementValues(e)
    BY <1>2
  <2>2. js[i] = IF IsPrimitive(Bare(e)) /\ ToJava(e, xs[i]) = <<Null>>
                THEN <<>> ELSE ToJava(e, xs[i])
    BY DEF ElementToJava
  <2> HIDE DEF js
  <2>q. QED BY <2>1, <2>2, ElementConverts DEF Refused
<1>5. Bare(e) \in Singles /\ Bare(Bare(e)) = Bare(e) /\ ElementSig(e) = ElementSig(Bare(e))
  BY ElementShape, SingleShape DEF ElementSig
<1>6. Bare(e) # JArrayOf(Ty("JObject")) => ElementClass(e) = JavaType(Bare(e))
  BY <1>5, SingleTypes DEF ElementClass
<1>7. IsJavaType(ElementClass(e)) /\ (~IsPrimitive(Bare(e)) => IsReference(ElementClass(e)))
  <2>1. CASE Bare(e) = JArrayOf(Ty("JObject"))
    <3>1. ElementClass(e) = Desc(2, "Object")
      BY <1>5, <2>1 DEF ElementClass, ElementSig, IsPrimitive, JArrayOf, Ty, Arg
    <3>q. QED BY <3>1, DescIsJavaType DEF IsReference
  <2>2. CASE Bare(e) # JArrayOf(Ty("JObject"))
    <3>1. ElementClass(e) = JavaType(Bare(e))
      BY <1>6, <2>2
    <3>q. QED BY <3>1, <1>5, SingleTypes, DescIsJavaType DEF IsReference, Letters
  <2>q. QED BY <2>1, <2>2
<1>8. CASE ~ok
  <2>1. PICK i \in DOMAIN xs : js[i] = <<>> \/ ~InstanceOf(js[i][1], ElementClass(e))
    BY <1>8
  <2> HIDE DEF js
  <2>2. Refused(e, xs[i]) \/ Bare(e) = JArrayOf(Ty("JObject"))
    BY <2>1, <1>4, <1>6, <1>7 DEF InstanceOf
  <2>q. QED BY <2>2, <1>1, <1>8
<1>9. CASE ok
  <2>1. DOMAIN xs = 1..n /\ Len(xs) = n
    <3>1. xs = [i \in 1..n |-> xs[i]] BY <1>2
    <3>q. QED BY <1>3, <3>1, LenOfFunction
  <2>2. /\ a.d = ArrayType(ElementClass(e)) /\ a.elems = [i \in 1..n |-> js[i][1]]
        /\ a = [d |-> a.d, elems |-> a.elems]
    BY <2>1
  <2>3. \A i \in 1..n : /\ ValueOK(heap, js[i][1]) /\ ElementDenotes(e, xs[i], js[i][1])
                        /\ InstanceOf(js[i][1], ElementClass(e))
    BY <1>4, <1>9, <2>1
  <2>4. IsJavaType(a.d) /\ a.d.dims > 0 /\ Element(a.d) = ElementClass(e)
    BY <2>2, <1>7, ArrayTypeElement
  <2> HIDE DEF js
  <2>5. a.elems = [i \in 1..n |-> a.elems[i]] /\ DOMAIN a.elems = 1..n
        /\ \A i \in 1..n : a.elems[i] = js[i][1]
    BY <2>2
  <2>6. Len(a.elems) = n
    BY <2>5, <1>3, LenOfFunction
  <2> HIDE DEF a
  <2>7. ArrayOK(heap, a)
    BY <1>2, <2>2, <2>3, <2>4, <2>5 DEF ArrayOK
  <2>8. VecToJava(e, xs) = <<a>>
    BY <1>1, <1>9 DEF a
  <2>9. a.d = ArrayType(ElementSig(e))
    BY <2>2 DEF ElementClass
  <2>10. \A i \in DOMAIN xs : ElementDenotes(e, xs[i], a.elems[i])
    BY <2>1, <2>3, <2>5
  <2>q. QED BY <2>1, <2>5, <2>6, <2>7, <2>8, <2>9, <2>10
<1>q. QED BY <1>8, <1>9
-----------------------------------------------------------------------------
(***************************************************************************)
(* One value on its way to Rust is refused if no Rust value of the type    *)
(* denotes it, and else the result does.                                   *)
(***************************************************************************)

\* A Java value is read as one it denotes, and refused only if there is none.
LEMMA SingleReads ==
  ASSUME NEW h, NEW j, ValueOK(h, j), NEW t \in Singles
  PROVE  LET r == SingleFromJava(t, j)
         IN  \/ r = <<>> /\ ~Denotable(t, j)
             \/ /\ r = <<r[1]>> /\ r # <<>> /\ SingleDenotes(t, r[1], j)
                /\ t.c = "JArray" => HandleOK(h, Arg(t), r[1])
<1>1. /\ Bare(t) = t /\ t.c # "Vec" /\ t.c # "Option" /\ ReturnType(t) = JavaType(t)
      /\ j = JavaValue(j.d, j.v)
  BY SingleShape, SingleTypes DEF ValueOK
<1>2. CASE t.c \in {"i32", "i8"}
  BY <1>1, <1>2 DEF SingleFromJava, SingleDenotes, Denotable, JavaValue
<1>3. CASE t.c = "u8"
  <2>1. JavaType(t) = Desc(0, "B")
    BY <1>3, SingleTypes DEF Letter, IsPrimitive
  <2>2. CASE j.d = JavaType(t)
    <3>1. j.v \in JavaBytes
      BY <2>1, <2>2 DEF ValueOK
    <3>2. SingleFromJava(t, j) = <<ByteFromJava(j.v)>>
      BY <1>1, <1>3, <2>2 DEF SingleFromJava
    <3>3. SingleDenotes(t, ByteFromJava(j.v), j)
      BY <1>3, <2>2, <3>1, ByteRoundTrip DEF SingleDenotes
    <3>q. QED BY <1>3, <3>2, <3>3
  <2>3. CASE j.d # JavaType(t)
    BY <1>1, <1>3, <2>3 DEF SingleFromJava, Denotable
  <2>q. QED BY <2>2, <2>3
<1>4. CASE t.c = "char"
  <2>1. j.v \in Surrogates => j.v \notin Chars
    BY TypesAssumption
  <2>q. QED BY <1>1, <1>4, <2>1 DEF SingleFromJava, SingleDenotes, Denotable
<1>5. CASE t.c = "String"
  BY <1>1, <1>5 DEF SingleFromJava, SingleDenotes, Denotable
<1>6. CASE t.c = "JObject"
  BY <1>1, <1>6 DEF SingleFromJava, SingleDenotes, Denotable
<1>7. CASE t.c = "JClass"
  <2>1. JavaType(t) = Class /\ Class.base # "Object"
    BY <1>7, SingleTypes DEF IsPrimitive, Class, Desc
  <2>2. SubType(j.d, Class) <=> j.d = Class
    BY <2>1 DEF SubType
  <2>q. QED BY <1>1, <1>7, <2>1, <2>2 DEF SingleFromJava, SingleDenotes, Denotable
<1>8. CASE t.c = "JArray"
  <2>1. Arg(t) \in ArrayElements /\ (Arg(t).c = "JObject") = (Arg(t) = Ty("JObject"))
    BY <1>8, SingleShape, ScalarShape, ArrayElementShape DEF Ty
  <2>2. SingleFromJava(t, j) =
          IF /\ IsArray(j)
             /\ IF Arg(t).c = "JObject" THEN SubType(j.d, Desc(1, "Object"))
                                        ELSE j.d = JavaType(t)
          THEN <<j>> ELSE <<>>
    BY <1>1, <1>8 DEF SingleFromJava
  <2>3. SubType(j.d, JavaType(t)) <=>
          /\ IsArray(j)
          /\ IF Arg(t).c = "JObject" THEN SubType(j.d, Desc(1, "Object"))
                                     ELSE j.d = JavaType(t)
    <3>1. j.d.dims \in Nat
      BY DEF ValueOK, IsJavaType
    <3>2. CASE Arg(t).c = "JObject"
      <4>1. JavaType(t) = Desc(1, "Object")
        BY <1>8, <2>1, <3>2, SingleTypes
      <4>q. QED BY <3>1, <3>2, <4>1, DescIsJavaType DEF SubType, IsArray
    <3>3. CASE Arg(t).c # "JObject"
      <4>1. /\ JavaType(t) = Desc(1, Letter(Arg(t)))
            /\ JavaType(t).dims = 1 /\ JavaType(t).base # "Object"
        BY <1>8, <2>1, <3>3, SingleTypes, DescIsJavaType DEF Letters
      <4>q. QED BY <3>3, <4>1 DEF SubType, IsArray
    <3>q. QED BY <3>2, <3>3
  <2>4. Denotable(t, j) <=> SubType(j.d, JavaType(t))
    BY <1>1, <1>8 DEF Denotable
  <2>5. SingleDenotes(t, j, j) <=> SubType(j.d, JavaType(t))
    BY <1>8 DEF SingleDenotes
  <2>6. SubType(j.d, JavaType(t)) => HandleOK(h, Arg(t), j)
    <3>1. Arg(t).c # "JObject" => JavaType(t) = Desc(1, Letter(Arg(t)))
      BY <1>8, <2>1, SingleTypes
    <3>q. QED BY <2>1, <2>3, <3>1 DEF HandleOK
  <2>q. QED BY <2>2, <2>3, <2>4, <2>5, <2>6
<1>q. QED BY <1>2, <1>3, <1>4, <1>5, <1>6, <1>7, <1>8, SingleShape, ScalarShape

\* So it is as an Option.
LEMMA ElementReads ==
  ASSUME NEW h, NEW j, ValueOK(h, j), NEW t \in OrOption(Singles)
  PROVE  LET r == FromJava(t, j)
         IN  \/ r = <<>> /\ ~Denotable(t, j)
             \/ /\ r = <<r[1]>> /\ r # <<>> /\ ElementDenotes(t, r[1], j)
                /\ t.c = "JArray" => HandleOK(h, Arg(t), r[1])
<1>1. Bare(t) \in Singles
  BY ElementShape
<1>2. CASE t.c # "Option"
  <2>1. t = Bare(t) /\ FromJava(t, j) = SingleFromJava(t, j)
    BY <1>2, ElementShape DEF FromJava
  <2>2. \A x : ElementDenotes(t, x, j) = SingleDenotes(t, x, j)
    BY <1>2 DEF ElementDenotes
  <2>q. QED BY <1>1, <2>1, <2>2, SingleReads
<1>3. CASE t.c = "Option" /\ j = Null
  <2>1. FromJava(t, j) = <<<<>>>> /\ ElementDenotes(t, <<>>, j)
    BY <1>3 DEF FromJava, ElementDenotes
  <2>q. QED BY <1>3, <2>1
<1>4. CASE t.c = "Option" /\ j # Null
  <2> DEFINE r == SingleFromJava(Bare(t), j)
  <2>1. Arg(t) = Bare(t) /\ FromJava(t, j) = IF r = <<>> THEN <<>> ELSE <<r>>
    BY <1>4, ElementShape DEF FromJava
  <2>2. Denotable(t, j) = Denotable(Bare(t), j)
    BY <1>1, <1>4, SingleShape DEF Denotable
  <2>3. r # <<>> /\ SingleDenotes(Bare(t), r[1], j) => ElementDenotes(t, r, j)
    BY <1>4, <2>1 DEF ElementDenotes
  <2>q. QED BY <1>1, <1>4, <2>1, <2>2, <2>3, SingleReads
<1>q. QED BY <1>2, <1>3, <1>4

\* An array that is refused has another type than the one asked for.
LEMMA CastCovers ==
  ASSUME NEW h, NEW j, ValueOK(h, j), NEW t \in RustTypes, IsVec(t),
         ~CastToArray(Arg(Bare(t)), j), ~OfObjectArrays(t)
  PROVE  ~(IsArray(j) /\ InstanceOf(j, JavaType(Bare(t))))
<1> DEFINE e == Arg(Bare(t))
           u == Bare(e)
<1>1. e \in OrOption(Singles) /\ u \in Singles /\ u # JArrayOf(Ty("JObject"))
  BY TypeShape, ElementShape DEF OfObjectArrays
<1>2. JavaType(Bare(t)) = ArrayType(JavaType(u))
  <2>1. Bare(t).c = "Vec" /\ Bare(Bare(t)) = Bare(t)
    BY DEF IsVec, Bare
  <2>2. JavaType(Bare(t)) = ArrayType(SingleType(e))
    BY <2>1 DEF JavaType
  <2>3. SingleType(e) = SingleType(u)
    BY <1>1, SingleShape DEF SingleType
  <2>q. QED BY <2>2, <2>3, <1>1, SingleTypes
<1> SUFFICES ASSUME IsArray(j), InstanceOf(j, JavaType(Bare(t))) PROVE CastToArray(e, j)
  OBVIOUS
<1>3. j # Null /\ j.d.dims \in Nat /\ j.d = Desc(j.d.dims, j.d.base)
  BY NullIsValue, DescIsJavaType DEF IsArray, Null, ValueOK, IsJavaType
<1>4. CASE IsPrimitive(u)
  <2>1. /\ JavaType(u) = Desc(0, Letter(u)) /\ Letter(u) \in Letters
        /\ JavaType(Bare(t)) = Desc(1, Letter(u))
    BY <1>1, <1>2, <1>4, SingleTypes, DescIsJavaType DEF IsPrimitive
  <2>2. SubType(j.d, Desc(1, Letter(u)))
    BY <1>3, <2>1, DescIsJavaType DEF InstanceOf, IsReference
  <2>3. j.d = Desc(1, Letter(u))
    BY <2>1, <2>2, DescIsJavaType DEF SubType, Letters
  <2>q. QED BY <1>4, <2>3 DEF CastToArray
<1>5. CASE ~IsPrimitive(u)
  <2>1. \E n, b : /\ n \in {0, 1}
                  /\ JavaType(u) = Desc(n, b) /\ JavaType(Bare(t)) = Desc(n + 1, b)
                  /\ n = 1 \/ b \notin Letters
    <3>1. PICK n, b : n \in {0, 1} /\ JavaType(u) = Desc(n, b) /\ (n = 1 \/ b \notin Letters)
      BY <1>1, <1>5, SingleTypes DEF Letters
    <3>2. ArrayType(Desc(n, b)) = Desc(n + 1, b)
      BY <3>1, DescIsJavaType
    <3>q. QED BY <1>2, <3>1, <3>2
  <2>2. PICK n, b : /\ n \in {0, 1} /\ JavaType(Bare(t)) = Desc(n + 1, b)
                    /\ n = 1 \/ b \notin Letters
    BY <2>1
  <2>3. SubType(j.d, Desc(n + 1, b))
    BY <1>3, <2>2, DescIsJavaType DEF InstanceOf, IsReference
  <2>4. SubType(j.d, Desc(1, "Object"))
    BY <1>3, <2>2, <2>3, DescIsJavaType DEF SubType
  <2>q. QED BY <1>5, <2>4 DEF CastToArray
<1>q. QED BY <1>4, <1>5

\* A value that was read becomes a Rust value that it denotes, an error that
\* is justified, or a copy that is about to start.
LEMMA ReceiveIsTrue ==
  ASSUME NEW h, NEW j, ValueOK(h, j), NEW t \in RustTypes, NEW from
  PROVE  LET o == Receive(t, from, j)
         IN  /\ OpOK(h, o) /\ o.k \in {"got", "vec"}
             /\ o.k = "got" =>
                  /\ o = Got(t, from, o.res)
                  /\ IF o.res # <<>> THEN \A g : Denotes(t, o.res[1], j, g)
                     ELSE OfObjectArrays(t) \/ ~Denotable(t, j)
             /\ o.k = "vec" => CopyOK(h, o)
             /\ t.c = "Vec" => o.k = "vec" \/ o.res = <<>>
<1> DEFINE o == Receive(t, from, j)
<1>1. CASE ~IsVec(t)
  <2>1. o = Got(t, from, FromJava(t, j)) /\ t \in OrOption(Singles)
    BY <1>1, TypeShape DEF Receive
  <2>2. \A x, g : Denotes(t, x, j, g) = ElementDenotes(t, x, j)
    BY <1>1 DEF Denotes, IsVec
  <2>3. o.k = "got" /\ o.t = t /\ o.res = FromJava(t, j)
    BY <2>1 DEF Got
  <2>4. t.c # "Vec"
    BY <1>1, TypeShape DEF IsVec, Bare
  <2> HIDE DEF o
  <2>5. OpOK(h, o)
    BY <2>1, <2>3, ElementReads DEF OpOK
  <2>q. QED BY <2>1, <2>2, <2>3, <2>4, <2>5, ElementReads DEF o
<1>2. CASE IsVec(t) /\ t.c = "Option" /\ j = Null
  <2>1. o = Got(t, from, <<<<>>>>)
    BY <1>2 DEF Receive
  <2>2. \A g : Denotes(t, <<>>, j, g)
    BY <1>2 DEF Denotes, IsVec
  <2>3. o.k = "got" /\ o.t = t /\ o.res = <<<<>>>>
    BY <2>1 DEF Got
  <2>q. QED BY <1>2, <2>1, <2>2, <2>3 DEF OpOK
<1>3. CASE IsVec(t) /\ ~(t.c = "Option" /\ j = Null) /\ CastToArray(Arg(Bare(t)), j)
  <2>1. o = [k |-> "vec", t |-> t, j |-> j, out |-> <<>>]
    BY <1>3 DEF Receive
  <2>2. <<>> \in Seq({})
    OBVIOUS
  <2>3. CopyOK(h, o)
    BY <1>3, <2>1, <2>2 DEF CopyOK
  <2>q. QED BY <2>1, <2>3 DEF OpOK
<1>4. CASE IsVec(t) /\ ~(t.c = "Option" /\ j = Null) /\ ~CastToArray(Arg(Bare(t)), j)
  <2>1. o = Got(t, from, <<>>)
    BY <1>4 DEF Receive
  <2>2. o.k = "got" /\ o.res = <<>>
    BY <2>1 DEF Got
  <2>3. Denotable(t, j) => IsArray(j) /\ InstanceOf(j, JavaType(Bare(t)))
    BY <1>4 DEF Denotable, IsVec
  <2>4. OfObjectArrays(t) \/ ~Denotable(t, j)
    BY <1>4, <2>3, CastCovers
  <2>q. QED BY <2>1, <2>2, <2>4 DEF OpOK
<1>q. QED BY <1>1, <1>2, <1>3, <1>4
-----------------------------------------------------------------------------
(***************************************************************************)
(* What a step leaves.                                                     *)
(***************************************************************************)

\* What a reader of the state after a step sees of the heap before it.
LEMMA AfterLeaves ==
  ASSUME IInv, NEW h, HeapOK(h), NEW f, ValueOK(h, f), NEW hd, HeldOK(h, hd),
         NEW o, After(h, f, hd, o)
  PROVE  /\ field' = f /\ held' = hd /\ op' = o /\ declared' = declared
         /\ ValueOK(heap', f) /\ ValueOK(heap', hd.j)
         /\ \A a \in DOMAIN heap' : heap'[a] = h[a]
         /\ \A a \in DOMAIN heap' : \A i \in DOMAIN h[a].elems :
               ValueOK(heap', h[a].elems[i])
         /\ o.k = "vec" => heap' = h
<1>1. /\ field' = f /\ held' = hd /\ op' = o /\ declared' = declared
      /\ heap' = Collected(h, f, hd, o)
  BY DEF After
<1>2. ValueOK(h, hd.j)
  BY HeldIsValue
<1>3. /\ HeapOK(heap') /\ ValueOK(heap', f) /\ ValueOK(heap', hd.j)
      /\ \A a \in DOMAIN heap' : heap'[a] = h[a]
      /\ o.k = "vec" => heap' = h
  BY <1>1, <1>2, WhatIsCollected
<1>4. ASSUME NEW a \in DOMAIN heap', NEW i \in DOMAIN h[a].elems
      PROVE  ValueOK(heap', h[a].elems[i])
  BY <1>3, <1>4 DEF HeapOK, ArrayOK
<1>q. QED BY <1>1, <1>3, <1>4

\* A call that ends and changes nothing keeps the invariant.
LEMMA FailsKeeps ==
  ASSUME IInv, NEW o, Fails(o), o.k \in {"idle", "put", "made"}
  PROVE  /\ IInv' /\ op' = o
<1>1. After(heap, field, held, o) /\ HeapOK(heap) /\ FieldOK(heap, field) /\ HeldOK(heap, held)
  BY DEF Fails, IInv
<1>2. OpOK(heap', o)
  BY DEF OpOK
<1>3. op' = o
  BY <1>1 DEF After
<1>q. QED BY <1>1, <1>2, <1>3, AfterKeeps

\* A value that was read is kept while Rust has it.
LEMMA ReceiveKeeps ==
  ASSUME IInv, NEW t \in RustTypes, NEW from, NEW j, Fails(Receive(t, from, j)),
         \/ j \in {field, held.j}
         \/ held # NoHandle /\ \E i \in DOMAIN HeldElems : j = HeldElems[i]
  PROVE  /\ IInv' /\ ValueOK(heap, j) /\ op' = Receive(t, from, j)
<1> DEFINE o == Receive(t, from, j)
<1>1. /\ After(heap, field, held, o) /\ HeapOK(heap) /\ FieldOK(heap, field)
      /\ HeldOK(heap, held) /\ ValueOK(heap, field) /\ ValueOK(heap, held.j)
  BY HeldIsValue DEF Fails, IInv, FieldOK
<1>2. /\ op' = o /\ ValueOK(heap', field) /\ ValueOK(heap', held.j)
      /\ \A a \in DOMAIN heap' : heap'[a] = heap[a]
      /\ \A a \in DOMAIN heap' : \A i \in DOMAIN heap[a].elems :
            ValueOK(heap', heap[a].elems[i])
  BY <1>1, AfterLeaves
<1>3. held # NoHandle => IsArray(held.j)
  BY <1>1 DEF HeldOK, HandleOK
<1>4. held # NoHandle => held.j.v \in DOMAIN heap /\ held.j.v \in DOMAIN heap'
  BY <1>1, <1>2, <1>3 DEF ValueOK
<1>5. ValueOK(heap', j)
  BY <1>2, <1>4 DEF HeldElems
<1>6. ValueOK(heap, j)
  BY <1>1, <1>4 DEF HeldElems, HeapOK, ArrayOK
<1> HIDE DEF o
<1>7. OpOK(heap', o)
  BY <1>5, ReceiveIsTrue DEF o
<1>q. QED BY <1>1, <1>2, <1>6, <1>7, AfterKeeps DEF o

\* A new array keeps the heap sound.
LEMMA Allocates ==
  ASSUME IInv, Room, NEW a, ArrayOK(heap, a)
  PROVE  LET h == WithArray(a)
             j == Allocated(a)
         IN  /\ HeapOK(h) /\ ValueOK(h, j) /\ IsArray(j) /\ j.d = a.d
             /\ j.v \in DOMAIN h /\ h[j.v] = a
             /\ \A k : ValueOK(heap, k) => ValueOK(h, k)
             /\ FieldOK(h, field) /\ HeldOK(h, held)
<1> DEFINE h == WithArray(a)
           j == Allocated(a)
<1>1. NewPlace \notin DOMAIN heap
  BY DEF Room, NewPlace
<1>2. /\ DOMAIN h = DOMAIN heap \cup {NewPlace} /\ h[NewPlace] = a
      /\ \A b \in DOMAIN heap : h[b] = heap[b]
      /\ h = [b \in DOMAIN h |-> h[b]]
  BY <1>1 DEF WithArray
<1>3. j.d = a.d /\ j.v = NewPlace /\ j = JavaValue(j.d, j.v) /\ j # Null
  BY DEF Allocated, JavaValue, ArrayOK, Null, Desc
<1> HIDE DEF h, j
<1>4. ASSUME NEW k, ValueOK(heap, k) PROVE ValueOK(h, k)
  BY <1>2, <1>4 DEF ValueOK
<1>5. IsJavaType(a.d) /\ a.d.dims > 0 /\ a.d # Desc(0, "B")
  BY DescIsJavaType DEF ArrayOK
<1>6. ValueOK(h, j) /\ IsArray(j)
  BY <1>2, <1>3, <1>5 DEF ValueOK, IsArray
<1>7. ASSUME NEW b \in DOMAIN h PROVE ArrayOK(h, h[b])
  <2>1. ArrayOK(heap, h[b])
    BY <1>2 DEF IInv, HeapOK
  <2>q. QED BY <1>4, <2>1 DEF ArrayOK
<1>8. HeapOK(h)
  BY <1>2, <1>7 DEF HeapOK
<1>9. FieldOK(h, field)
  BY <1>4 DEF IInv, FieldOK
<1>10. HeldOK(h, held)
  BY <1>4 DEF IInv, HeldOK, HandleOK
<1>q. QED BY <1>2, <1>3, <1>4, <1>6, <1>8, <1>9, <1>10 DEF h, j

-----------------------------------------------------------------------------
(***************************************************************************)
(* Every step keeps the invariant, lands what it writes and reads what is  *)
(* there.                                                                  *)
(***************************************************************************)

\* What every step does, besides keeping the invariant.
Good == WriteLands /\ ArrayIsMade /\ ReadIsTrue /\ CopyIsTrue

\* The program uses Rust types that the conversions exist for.
LEMMA TypesAreRust ==
  ASSUME NEW d, NEW t \in TypesFor(d) PROVE t \in RustTypes
BY ArraysAssumption DEF TypesFor

\* A field of the right type is not found in the two documented cases only.
LEMMA JavaArgsIsType ==
  ASSUME NEW t \in RustTypes, NEW x, declared = JavaType(t) /\ declared # JavaArgs(t, x)
  PROVE  OfObjectArrays(t) \/ (t.c = "Option" /\ x = <<>> /\ declared # Object)
<1>1. CASE t.c = "Option" /\ x = <<>>
  BY <1>1 DEF JavaArgs
<1>2. CASE ~(t.c = "Option" /\ x = <<>>)
  <2>1. JavaArgs(t, x) = ReturnType(t)
    BY <1>2 DEF JavaArgs
  <2>2. ReturnType(t) = JavaType(t) \/ OfObjectArrays(t)
    BY DerivedTypes
  <2>q. QED BY <2>1, <2>2
<1>q. QED BY <1>1, <1>2

\* set_field
LEMMA SetFieldStep ==
  ASSUME IInv, NEW t \in RustTypes, NEW x \in Values(t), SetField(t, x)
  PROVE  IInv' /\ Good
<1> DEFINE ok == Put(t, x, TheField, TRUE)
           bad == Put(t, x, TheField, FALSE)
           e == Arg(Bare(t))
           xs == VecOfOption(t, x)
           whole == IsVec(t) /\ (t.c = "Vec" \/ x # <<>>)
<1>0. op = Idle /\ op.k = "idle"
  BY DEF SetField, Idle
<1>1. /\ ok.k = "put" /\ ok.t = t /\ ok.x = x /\ ok.to.c = "field" /\ ok.ok = TRUE
      /\ bad.k = "put" /\ bad.t = t /\ bad.x = x /\ bad.to.c = "field" /\ bad.ok = FALSE
  BY DEF Put, TheField
<1>2. t.c = "Vec" => IsVec(t) /\ t.c # "Option"
  BY DEF IsVec, Bare
<1> HIDE DEF ok, bad
<1>3. ASSUME op' = bad, \/ declared # JavaType(t) \/ ~HasJavaValue(t, x)
                        \/ OfObjectArrays(t)
                        \/ t.c = "Option" /\ x = <<>> /\ declared # Object
      PROVE  Good
  BY <1>0, <1>1, <1>3 DEF Good, WriteLands, ArrayIsMade, ReadIsTrue, CopyIsTrue, NoneInField
<1>4. ASSUME op' = ok, Denotes(t, x, field', heap')
      PROVE  Good
  BY <1>0, <1>1, <1>4 DEF Good, WriteLands, ArrayIsMade, ReadIsTrue, CopyIsTrue
<1>5. CASE declared # JavaArgs(t, x)
  <2>1. Fails(bad)
    BY <1>5 DEF SetField, bad
  <2>2. IInv' /\ op' = bad
    BY <1>1, <2>1, FailsKeeps
  <2>3. declared = JavaType(t)
           => OfObjectArrays(t) \/ (t.c = "Option" /\ x = <<>> /\ declared # Object)
    BY <1>5, JavaArgsIsType
  <2>q. QED BY <1>3, <2>2, <2>3
<1>6. CASE declared = JavaArgs(t, x) /\ whole
  <2>1. /\ Room
        /\ IF VecToJava(e, xs) = <<>> THEN Fails(bad)
           ELSE After(WithArray(VecToJava(e, xs)[1]), Allocated(VecToJava(e, xs)[1]),
                      held, ok)
    BY <1>6 DEF SetField, ok, bad
  <2>2. e \in OrOption(Singles) /\ (t.c # "Option" => t = Bare(t))
    BY <1>6, TypeShape
  <2>3. xs \in VecValues(e)
    BY <1>2, <1>6 DEF Values, Optional, VecOfOption
  <2>4. HeldOK(heap, held)
    BY DEF IInv
  <2>5. /\ declared = ArrayType(ElementSig(e))
    <3>1. JavaArgs(t, x) = ReturnType(t)
      BY <1>2, <1>6 DEF JavaArgs
    <3>q. QED BY <1>6, <3>1, DerivedTypes
  <2>6. CASE VecToJava(e, xs) = <<>>
    <3>1. Fails(bad)
      BY <2>1, <2>6
    <3>2. IInv' /\ op' = bad
      BY <1>1, <3>1, FailsKeeps
    <3>3. (\E i \in DOMAIN xs : Refused(e, xs[i])) \/ Bare(e) = JArrayOf(Ty("JObject"))
      BY <2>2, <2>3, <2>4, <2>6, VecConverts
    <3>4. (\E i \in DOMAIN xs : Refused(e, xs[i])) => ~HasJavaValue(t, x)
      BY <1>2, <1>6 DEF HasJavaValue, Refused
    <3>5. Bare(e) = JArrayOf(Ty("JObject")) => OfObjectArrays(t)
      BY <1>6 DEF OfObjectArrays
    <3>q. QED BY <1>3, <3>2, <3>3, <3>4, <3>5
  <2>7. CASE VecToJava(e, xs) # <<>>
    <3>1. PICK a : /\ VecToJava(e, xs)[1] = a
                   /\ ArrayOK(heap, a) /\ a.d = ArrayType(ElementSig(e))
                   /\ Len(xs) = Len(a.elems)
                   /\ \A i \in DOMAIN xs : ElementDenotes(e, xs[i], a.elems[i])
      BY <2>2, <2>3, <2>4, <2>7, VecConverts
    <3>2. PICK h, j : h = WithArray(a) /\ j = Allocated(a)
      OBVIOUS
    <3>3. After(h, j, held, ok)
      BY <2>1, <2>7, <3>1, <3>2
    <3>4. /\ HeapOK(h) /\ ValueOK(h, j) /\ IsArray(j) /\ j.d = a.d
          /\ j.v \in DOMAIN h /\ h[j.v] = a /\ HeldOK(h, held)
      BY <2>1, <3>1, <3>2, Allocates
    <3>5. FieldOK(h, j)
      BY <2>5, <3>1, <3>4 DEF FieldOK, InstanceOf, SubType, IsReference, IsArray
    <3>6. OpOK(heap', ok)
      BY <1>1 DEF OpOK
    <3>7. IInv'
      BY <3>3, <3>4, <3>5, <3>6, AfterKeeps
    <3>8. /\ op' = ok /\ field' = j /\ ValueOK(heap', j)
          /\ \A b \in DOMAIN heap' : heap'[b] = h[b]
      BY <3>3, <3>4, AfterLeaves
    <3>9. heap'[j.v] = a
      BY <3>4, <3>8 DEF ValueOK
    <3>10. VecDenotes(e, xs, j, heap')
      BY <3>1, <3>4, <3>9 DEF VecDenotes
    <3>11. Denotes(t, x, field', heap')
      BY <1>2, <1>6, <3>8, <3>10 DEF Denotes, IsVec, VecOfOption
    <3>q. QED BY <1>4, <3>7, <3>8, <3>11
  <2>q. QED BY <2>6, <2>7
<1>7. CASE declared = JavaArgs(t, x) /\ ~whole
  <2> DEFINE r == ToJava(t, x)
  <2>1. IF r = <<>> THEN Fails(bad) ELSE After(heap, r[1], held, ok)
    BY <1>7 DEF SetField, ok, bad
  <2>2. \/ r = <<>> /\ ~HasJavaValue(t, x)
        \/ /\ r # <<>> /\ FieldOK(heap, r[1])
           /\ \A g : Denotes(t, x, r[1], g)
    <3>1. CASE IsVec(t)
      <4>1. t.c = "Option" /\ x = <<>>
        BY <1>7, <3>1, TypeShape DEF IsVec
      <4>2. r = <<Null>> /\ declared = Object
        BY <1>7, <4>1 DEF ToJava, JavaArgs
      <4>3. FieldOK(heap, Null)
        BY <4>2, NullIsValue, DescIsJavaType DEF FieldOK, InstanceOf, IsReference, Object, Letters
      <4>4. \A g : Denotes(t, x, Null, g)
        BY <3>1, <4>1 DEF Denotes, IsVec
      <4>q. QED BY <4>2, <4>3, <4>4
    <3>2. CASE ~IsVec(t)
      <4>1. t \in OrOption(Singles) /\ Bare(t) \in Singles
        BY <3>2, TypeShape
      <4>2. x \in ElementValues(t)
        BY <3>2 DEF Values, ElementValues
      <4>3. HasJavaValue(t, x) = ElementHasJavaValue(t, x)
        BY <3>2 DEF HasJavaValue
      <4>4. \A j, g : Denotes(t, x, j, g) = ElementDenotes(t, x, j)
        BY <3>2 DEF Denotes, IsVec
      <4>5. HeldOK(heap, held)
        BY DEF IInv
      <4>6. declared = IF t.c = "Option" /\ x = <<>> THEN Object ELSE JavaType(Bare(t))
        BY <1>7, <3>2, DerivedTypes DEF JavaArgs
      <4>7. InstanceOf(Null, Object)
        BY DescIsJavaType DEF InstanceOf, IsReference, Object, Letters
      <4> HIDE DEF r
      <4>8. \/ r = <<>> /\ ~ElementHasJavaValue(t, x)
            \/ /\ r # <<>> /\ ValueOK(heap, r[1]) /\ ElementDenotes(t, x, r[1])
               /\ IF t.c = "Option" /\ x = <<>> THEN r[1] = Null
                  ELSE InstanceOf(r[1], JavaType(Bare(t)))
        BY <4>1, <4>2, <4>5, ElementConverts DEF r
      <4>q. QED BY <4>3, <4>4, <4>6, <4>7, <4>8 DEF FieldOK
    <3>q. QED BY <3>1, <3>2
  <2> HIDE DEF r
  <2>3. CASE r = <<>>
    <3>1. IInv' /\ op' = bad
      BY <1>1, <2>1, <2>3, FailsKeeps
    <3>q. QED BY <1>3, <2>2, <2>3, <3>1
  <2>4. CASE r # <<>>
    <3>1. After(heap, r[1], held, ok) /\ HeapOK(heap) /\ HeldOK(heap, held)
      BY <2>1, <2>4 DEF IInv
    <3>2. OpOK(heap', ok)
      BY <1>1 DEF OpOK
    <3>3. FieldOK(heap, r[1]) /\ \A g : Denotes(t, x, r[1], g)
      BY <2>2, <2>4
    <3>4. IInv'
      BY <3>1, <3>2, <3>3, AfterKeeps
    <3>5. op' = ok /\ field' = r[1]
      BY <3>1 DEF After
    <3>6. Denotes(t, x, field', heap')
      BY <3>3, <3>5
    <3>q. QED BY <1>4, <3>4, <3>5, <3>6
  <2>q. QED BY <2>3, <2>4
<1>q. QED BY <1>5, <1>6, <1>7

\* Steps that neither write nor read.
LEMMA QuietIsGood ==
  ASSUME NEW o, op' = o, o.k \in {"idle"} \/ (o = op /\ o.k # "got")
  PROVE  Good
<1>1. CASE o.k = "idle"
  BY <1>1 DEF Good, WriteLands, ArrayIsMade, ReadIsTrue, CopyIsTrue
<1>2. CASE o = op /\ o.k # "got"
  BY <1>2 DEF Good, WriteLands, ArrayIsMade, ReadIsTrue, CopyIsTrue
<1>q. QED BY <1>1, <1>2

\* A read from a place where `asked` is the value, if there is one.
LEMMA ReadingIsGood ==
  ASSUME IInv, op = Idle, NEW t \in RustTypes, NEW from, NEW j,
         j \in Asked(from) \/ t.c = "Vec", \A k \in Asked(from) : k = j,
         op' = Receive(t, from, j), ValueOK(heap, j)
  PROVE  Good
<1> DEFINE o == Receive(t, from, j)
<1>1. op.k = "idle"
  BY DEF Idle
<1>2. /\ o.k \in {"got", "vec"}
      /\ o.k = "got" => /\ o = Got(t, from, o.res)
                        /\ IF o.res # <<>> THEN \A g : Denotes(t, o.res[1], j, g)
                           ELSE OfObjectArrays(t) \/ ~Denotable(t, j)
      /\ t.c = "Vec" => o.k = "vec" \/ o.res = <<>>
  BY ReceiveIsTrue
<1> HIDE DEF o
<1>3. op' = o
  BY DEF o
<1>4. o.k = "got" => o.from = from /\ o.t = t
  BY <1>2 DEF Got
<1>5. WriteLands /\ ArrayIsMade /\ CopyIsTrue
  BY <1>1, <1>2, <1>3 DEF WriteLands, ArrayIsMade, CopyIsTrue
<1>6. ReadIsTrue
  <2>1. CASE o.k = "got" /\ o.res # <<>>
    <3>1. j \in Asked(from) /\ Denotes(t, o.res[1], j, heap)
      BY <1>2, <2>1
    <3>q. QED BY <1>1, <1>3, <1>4, <2>1, <3>1 DEF ReadIsTrue
  <2>2. CASE o.k = "got" /\ o.res = <<>>
    <3>1. OfObjectArrays(t) \/ ~Denotable(t, j)
      BY <1>2, <2>2
    <3>q. QED BY <1>3, <1>4, <2>2, <3>1 DEF ReadIsTrue
  <2>3. CASE o.k = "vec"
    BY <1>3, <2>3 DEF ReadIsTrue
  <2>q. QED BY <1>2, <2>1, <2>2, <2>3
<1>q. QED BY <1>5, <1>6 DEF Good

\* A read that fails before it gets at a value.
LEMMA NothingReadIsGood ==
  ASSUME IInv, op = Idle, NEW t, NEW from, Fails(Got(t, from, <<>>)),
         \A j \in Asked(from) : (from.c = "field" /\ declared # JavaType(t)) \/ OfObjectArrays(t)
  PROVE  IInv' /\ Good
<1> DEFINE o == Got(t, from, <<>>)
<1>1. o.k = "got" /\ o.t = t /\ o.from = from /\ o.res = <<>>
  BY DEF Got
<1>2. After(heap, field, held, o) /\ HeapOK(heap) /\ FieldOK(heap, field) /\ HeldOK(heap, held)
  BY DEF Fails, IInv
<1> HIDE DEF o
<1>3. OpOK(heap', o)
  BY <1>1 DEF OpOK
<1>4. IInv'
  BY <1>2, <1>3, AfterKeeps
<1>5. op' = o /\ op.k = "idle"
  BY <1>2 DEF After, Idle
<1>6. Good
  BY <1>1, <1>5 DEF Good, WriteLands, ArrayIsMade, ReadIsTrue, CopyIsTrue
<1>q. QED BY <1>4, <1>6

\* get_field
LEMMA GetFieldStep ==
  ASSUME IInv, NEW t \in RustTypes, GetField(t)
  PROVE  IInv' /\ Good
<1>1. op = Idle
  BY DEF GetField
<1>2. TheField.c = "field" /\ Asked(TheField) = {field}
  BY DEF TheField, Asked
<1>3. CASE declared = ReturnType(t)
  <2>1. Fails(Receive(t, TheField, field))
    BY <1>3 DEF GetField
  <2>2. IInv' /\ ValueOK(heap, field) /\ op' = Receive(t, TheField, field)
    BY <2>1, ReceiveKeeps
  <2>q. QED BY <1>1, <1>2, <2>2, ReadingIsGood
<1>4. CASE declared # ReturnType(t)
  <2>1. Fails(Got(t, TheField, <<>>))
    BY <1>4 DEF GetField
  <2>2. declared # JavaType(t) \/ OfObjectArrays(t)
    BY <1>4, DerivedTypes
  <2>q. QED BY <1>1, <1>2, <2>1, <2>2, NothingReadIsGood
<1>q. QED BY <1>3, <1>4

\* The elements of an array in the heap, counted.
LEMMA Lengths ==
  ASSUME IInv, NEW a \in DOMAIN heap
  PROVE  /\ Len(heap[a].elems) \in 0..(HalfJint - 1)
         /\ DOMAIN heap[a].elems = 1..Len(heap[a].elems)
         /\ heap[a].elems = [i \in 1..Len(heap[a].elems) |-> heap[a].elems[i]]
<1>1. PICK n \in 0..(HalfJint - 1) : heap[a].elems = [i \in 1..n |-> heap[a].elems[i]]
  BY DEF IInv, HeapOK, ArrayOK
<1>2. n \in Nat
  BY <1>1, TypesAssumption
<1>q. QED BY <1>1, <1>2, LenOfFunction

\* The array that Rust holds is in the heap.
LEMMA HeldIsThere ==
  ASSUME IInv, held # NoHandle
  PROVE  /\ held.t \in ArrayElements /\ ValueOK(heap, held.j) /\ IsArray(held.j)
         /\ held.j.v \in DOMAIN heap /\ heap[held.j.v].d = held.j.d
         /\ held = [t |-> held.t, j |-> held.j]
         /\ IF held.t = Ty("JObject") THEN SubType(held.j.d, Desc(1, "Object"))
                                      ELSE held.j.d = Desc(1, Letter(held.t))
BY DEF IInv, HeldOK, HandleOK, ValueOK

\* The index that the JVM is given is the one that was meant, or out of bounds.
LEMMA IndexIsMeant ==
  ASSUME IInv, held # NoHandle, NEW i \in Sizes, NEW n \in JvmIndices(i)
  PROVE  /\ i \in Nat /\ (InBounds(n) => n + 1 \in DOMAIN HeldElems)
         /\ ~Wraps(i) => (InBounds(n) <=> i < Len(HeldElems)) /\ (InBounds(n) => n = i)
         /\ n \in Int
<1>1. i \in Nat /\ HalfJint \in Nat \ {0}
  BY ArraysAssumption, TypesAssumption
<1>2. /\ Len(HeldElems) \in 0..(HalfJint - 1) /\ DOMAIN HeldElems = 1..Len(HeldElems)
  BY HeldIsThere, Lengths DEF HeldElems
<1>3. AsJint(i) \in Int
  BY <1>1 DEF AsJint
<1>4. n \in {i, AsJint(i), -1} /\ (i >= HalfJint => n \in {AsJint(i), -1})
  BY <1>1 DEF JvmIndices, JniSize
<1>5. n \in Int
  BY <1>1, <1>3, <1>4
<1>6. InBounds(n) => n + 1 \in DOMAIN HeldElems
  BY <1>2, <1>5 DEF InBounds
<1>7. CASE ~Wraps(i)
  <2>1. AsJint(i) = IF i < HalfJint THEN i ELSE i - 2 * HalfJint
    BY <1>1, <1>7, JintCast DEF Wraps
  <2>2. i < 2 * HalfJint
    BY <1>1, <1>7 DEF Wraps
  <2>3. i < HalfJint => n = i
    BY <2>1 DEF JvmIndices, JniSize
  <2>q. QED BY <1>1, <1>2, <1>4, <1>5, <1>6, <2>1, <2>2, <2>3 DEF InBounds
<1>q. QED BY <1>1, <1>5, <1>6, <1>7

\* JArray::get
LEMMA ArrayGetStep ==
  ASSUME IInv, NEW t \in RustTypes, NEW i \in Sizes, ArrayGet(t, i)
  PROVE  IInv' /\ Good
<1>1. op = Idle /\ held # NoHandle
  BY DEF ArrayGet
<1> DEFINE from == Slot(held.j, i)
<1>2. PICK n \in JvmIndices(i) :
         Fails(IF InBounds(n) THEN Receive(t, from, HeldElems[n + 1])
                              ELSE Got(t, from, <<>>))
  BY DEF ArrayGet
<1>3. from.c = "slot" /\ from.j = held.j /\ from.i = i
  BY DEF Slot
<1>4. Asked(from) = {HeldElems[k] : k \in DOMAIN HeldElems \cap {i + 1}}
  BY <1>3 DEF Asked, HeldElems
<1>5. /\ i \in Nat /\ n \in Int /\ (InBounds(n) => n + 1 \in DOMAIN HeldElems)
      /\ ~Wraps(i) => (InBounds(n) <=> i < Len(HeldElems)) /\ (InBounds(n) => n = i)
  BY <1>1, IndexIsMeant
<1>6. DOMAIN HeldElems = 1..Len(HeldElems) /\ Len(HeldElems) \in Nat
  BY <1>1, HeldIsThere, Lengths, TypesAssumption DEF HeldElems
<1> HIDE DEF from
<1>7. CASE InBounds(n)
  <2>1. PICK j : j = HeldElems[n + 1]
    OBVIOUS
  <2>2. Fails(Receive(t, from, j))
    BY <1>2, <1>7, <2>1
  <2>3. IInv' /\ ValueOK(heap, j) /\ op' = Receive(t, from, j)
    BY <1>1, <1>5, <1>7, <2>1, <2>2, ReceiveKeeps
  <2>4. CASE ~Wraps(i)
    <3>1. Asked(from) = {j}
      BY <1>4, <1>5, <1>7, <2>1, <2>4
    <3>q. QED BY <1>1, <2>3, <3>1, ReadingIsGood
  <2>5. CASE Wraps(i)
    <3>1. /\ op'.k \in {"got", "vec"} /\ (op'.k = "got" => op'.from = from)
          /\ op.k = "idle"
      BY <1>1, <2>3, ReceiveIsTrue DEF Got, Idle
    <3>2. Good
      BY <1>3, <2>5, <3>1 DEF Good, WriteLands, ArrayIsMade, ReadIsTrue, CopyIsTrue
    <3>q. QED BY <2>3, <3>2
  <2>q. QED BY <2>4, <2>5
<1>8. CASE ~InBounds(n) /\ ~Wraps(i)
  <2>1. Fails(Got(t, from, <<>>))
    BY <1>2, <1>8
  <2>2. Asked(from) = {}
    BY <1>4, <1>5, <1>6, <1>8
  <2>q. QED BY <1>1, <2>1, <2>2, NothingReadIsGood
<1>9. CASE ~InBounds(n) /\ Wraps(i)
  <2> DEFINE o == Got(t, from, <<>>)
  <2>1. After(heap, field, held, o) /\ HeapOK(heap) /\ FieldOK(heap, field) /\ HeldOK(heap, held)
    BY <1>2, <1>9 DEF Fails, IInv
  <2>2. o.k = "got" /\ o.from = from /\ o.res = <<>>
    BY DEF Got
  <2> HIDE DEF o
  <2>3. OpOK(heap', o) /\ op' = o /\ op.k = "idle"
    BY <1>1, <2>1, <2>2 DEF OpOK, After, Idle
  <2>4. Good
    BY <1>3, <1>9, <2>2, <2>3 DEF Good, WriteLands, ArrayIsMade, ReadIsTrue, CopyIsTrue
  <2>q. QED BY <2>1, <2>3, <2>4, AfterKeeps
<1>q. QED BY <1>7, <1>8, <1>9

\* JArray::to_vec and to_vec_options
LEMMA ArrayToVecStep ==
  ASSUME IInv, NEW t \in {held.t, OptionOf(held.t)}, ArrayToVec(t)
  PROVE  IInv' /\ Good
<1>1. op = Idle /\ held # NoHandle /\ Fails(Receive(VecOf(t), TheHandle, held.j))
  BY DEF ArrayToVec
<1>2. held.t \in Singles
  BY <1>1, HeldIsThere, ArrayElementShape DEF Singles
<1>3. t \in OrOption(Singles)
  BY <1>2 DEF OrOption
<1>4. VecOf(t) \in RustTypes /\ VecOf(t).c = "Vec"
  BY <1>3 DEF RustTypes, OrOption, Vecs, VecOf
<1>5. IInv' /\ ValueOK(heap, held.j) /\ op' = Receive(VecOf(t), TheHandle, held.j)
  BY <1>1, <1>4, ReceiveKeeps
<1>6. Asked(TheHandle) = {}
  BY DEF Asked, TheHandle
<1>q. QED BY <1>1, <1>4, <1>5, <1>6, ReadingIsGood

\* The initial value of a place may be there.
LEMMA ZeroIsValue ==
  ASSUME NEW h, NEW d, IsJavaType(d)
  PROVE  ValueOK(h, Zero(d)) /\ InstanceOf(Zero(d), d)
<1>1. CASE IsReference(d)
  BY <1>1, NullIsValue DEF Zero, InstanceOf
<1>2. CASE ~IsReference(d)
  <2>1. Zero(d) = JavaValue(d, 0) /\ JavaValue(d, 0).d = d /\ JavaValue(d, 0).v = 0
    BY <1>2 DEF Zero, JavaValue
  <2>2. ~IsArray(JavaValue(d, 0))
    BY <1>2, <2>1 DEF IsArray, IsReference
  <2>3. 0 \in JavaBytes
    BY TypesAssumption DEF JavaBytes
  <2>q. QED BY <1>2, <2>1, <2>2, <2>3 DEF ValueOK, InstanceOf
<1>q. QED BY <1>1, <1>2

\* A blank array is an array of its class.
LEMMA BlankIsArray ==
  ASSUME NEW d, IsJavaType(d), NEW n \in 0..(HalfJint - 1)
  PROVE  /\ ArrayOK(heap, Blank(d, n)) /\ Blank(d, n).d = ArrayType(d)
         /\ Len(Blank(d, n).elems) = n
<1> DEFINE a == Blank(d, n)
<1>1. n \in Nat
  BY TypesAssumption
<1>2. /\ a = [d |-> a.d, elems |-> a.elems] /\ a.d = ArrayType(d)
      /\ a.elems = [i \in 1..n |-> Zero(d)]
  BY DEF Blank
<1>3. IsJavaType(a.d) /\ a.d.dims > 0 /\ Element(a.d) = d
  BY <1>2, ArrayTypeElement
<1>4. ValueOK(heap, Zero(d)) /\ InstanceOf(Zero(d), d)
  BY ZeroIsValue
<1>5. DOMAIN a.elems = 1..n /\ (\A i \in 1..n : a.elems[i] = Zero(d))
      /\ a.elems = [i \in 1..n |-> a.elems[i]]
  BY <1>2
<1> HIDE DEF a
<1>6. Len(a.elems) = n
  BY <1>1, <1>5, LenOfFunction
<1>7. ArrayOK(heap, a)
  BY <1>2, <1>3, <1>4, <1>5 DEF ArrayOK
<1>q. QED BY <1>2, <1>6, <1>7 DEF a

\* A new array, and the handle Rust has to it.
LEMMA NewHandle ==
  ASSUME IInv, op = Idle, Room, NEW t, NEW a, ArrayOK(heap, a), NEW o,
         o.k \in {"put", "made"},
         After(WithArray(a), field, [t |-> t, j |-> Allocated(a)], o),
         t \in ArrayElements,
         IF t = Ty("JObject") THEN SubType(a.d, Desc(1, "Object"))
                              ELSE a.d = Desc(1, Letter(t))
  PROVE  /\ IInv' /\ op' = o /\ held'.j = Allocated(a) /\ IsArray(held'.j)
         /\ heap'[held'.j.v] = a
<1>1. PICK h, j, hd : h = WithArray(a) /\ j = Allocated(a) /\ hd = [t |-> t, j |-> j]
  OBVIOUS
<1>2. After(h, field, hd, o)
  BY <1>1
<1>3. /\ HeapOK(h) /\ ValueOK(h, j) /\ IsArray(j) /\ j.d = a.d
      /\ j.v \in DOMAIN h /\ h[j.v] = a /\ FieldOK(h, field)
  BY <1>1, Allocates
<1>4. HandleOK(h, t, j)
  BY <1>3 DEF HandleOK
<1>5. HeldOK(h, hd) /\ hd.j = j
  BY <1>1, <1>4 DEF HeldOK
<1>6. OpOK(heap', o)
  BY DEF OpOK
<1>7. IInv'
  BY <1>2, <1>3, <1>5, <1>6, AfterKeeps
<1>8. /\ op' = o /\ held' = hd /\ ValueOK(heap', hd.j)
      /\ \A b \in DOMAIN heap' : heap'[b] = h[b]
  BY <1>2, <1>3, <1>5, AfterLeaves DEF FieldOK
<1>9. heap'[j.v] = a
  BY <1>3, <1>5, <1>8 DEF ValueOK
<1>q. QED BY <1>1, <1>3, <1>5, <1>7, <1>8, <1>9

\* JArray::from_vec
LEMMA FromVecStep ==
  ASSUME IInv, NEW t \in ArrayElements, NEW xs \in VecValues(t), FromVec(t, xs)
  PROVE  IInv' /\ Good
<1> DEFINE bad == Put(VecOf(t), xs, TheHandle, FALSE)
           ok == Put(VecOf(t), xs, TheHandle, TRUE)
<1>1. /\ op = Idle /\ op.k = "idle" /\ Room
      /\ IF VecToJava(t, xs) = <<>> THEN Fails(bad)
         ELSE After(WithArray(VecToJava(t, xs)[1]), field,
                    [t |-> t, j |-> Allocated(VecToJava(t, xs)[1])], ok)
  BY DEF FromVec, Idle
<1>2. /\ ok.k = "put" /\ ok.t = VecOf(t) /\ ok.x = xs /\ ok.to.c = "handle" /\ ok.ok = TRUE
      /\ bad.k = "put" /\ bad.t = VecOf(t) /\ bad.x = xs /\ bad.to.c = "handle" /\ bad.ok = FALSE
  BY DEF Put, TheHandle
<1>3. t \in Scalars /\ t \in Singles /\ t \in OrOption(Singles)
  BY ArrayElementShape DEF Singles, OrOption
<1>4. /\ Bare(t) = t /\ t.c # "Option" /\ t # JArrayOf(Ty("JObject"))
      /\ VecOf(t).c = "Vec" /\ Bare(VecOf(t)) = VecOf(t) /\ Arg(VecOf(t)) = t
      /\ IsVec(VecOf(t))
  BY <1>3, ScalarShape DEF Bare, VecOf, IsVec, Arg, JArrayOf
<1>5. HeldOK(heap, held)
  BY DEF IInv
<1> HIDE DEF ok, bad
<1>6. CASE VecToJava(t, xs) = <<>>
  <2>1. IInv' /\ op' = bad
    BY <1>1, <1>2, <1>6, FailsKeeps
  <2>2. PICK i \in DOMAIN xs : Refused(t, xs[i])
    BY <1>3, <1>4, <1>5, <1>6, VecConverts
  <2>3. ~HasJavaValue(VecOf(t), xs)
    BY <1>4, <2>2 DEF HasJavaValue, Refused, VecOfOption
  <2>4. Good
    BY <1>1, <1>2, <2>1, <2>3 DEF Good, WriteLands, ArrayIsMade, ReadIsTrue, CopyIsTrue
  <2>q. QED BY <2>1, <2>4
<1>7. CASE VecToJava(t, xs) # <<>>
  <2>1. PICK a : /\ VecToJava(t, xs)[1] = a
                 /\ ArrayOK(heap, a) /\ a.d = ArrayType(ElementSig(t))
                 /\ Len(xs) = Len(a.elems)
                 /\ \A i \in DOMAIN xs : ElementDenotes(t, xs[i], a.elems[i])
    BY <1>3, <1>5, <1>7, VecConverts
  <2>2. After(WithArray(a), field, [t |-> t, j |-> Allocated(a)], ok)
    BY <1>1, <1>7, <2>1
  <2>3. IF t = Ty("JObject") THEN SubType(a.d, Desc(1, "Object"))
                             ELSE a.d = Desc(1, Letter(t))
    <3>1. ElementSig(t) = IF t = Ty("JObject") THEN Desc(0, "Object") ELSE Desc(0, Letter(t))
      BY <1>4, ArrayElementShape DEF ElementSig, IsPrimitive, Object, Ty
    <3>q. QED BY <2>1, <3>1, DescIsJavaType DEF SubType
  <2>4. /\ IInv' /\ op' = ok /\ held'.j = Allocated(a) /\ IsArray(held'.j)
        /\ heap'[held'.j.v] = a
    BY <1>1, <1>2, <2>1, <2>2, <2>3, NewHandle
  <2>5. Denotes(VecOf(t), xs, held'.j, heap')
    BY <1>4, <2>1, <2>4 DEF Denotes, VecDenotes
  <2>6. Good
    BY <1>1, <1>2, <2>4, <2>5 DEF Good, WriteLands, ArrayIsMade, ReadIsTrue, CopyIsTrue
  <2>q. QED BY <2>4, <2>6
<1>q. QED BY <1>6, <1>7

\* An array that is made has the length that was asked for.
LEMMA MadeIsGood ==
  ASSUME op = Idle, NEW size, NEW ok \in BOOLEAN, op' = Made(size, ok),
         ~Wraps(size) => IF ok THEN Len(heap'[held'.j.v].elems) = size
                               ELSE size >= HalfJint
  PROVE  Good
<1>1. op'.k = "made" /\ op'.size = size /\ op'.ok = ok
  BY DEF Made
<1>q. QED BY <1>1 DEF Good, WriteLands, ArrayIsMade, ReadIsTrue, CopyIsTrue

\* Java::new_array
LEMMA NewArrayStep ==
  ASSUME IInv, NEW t \in ArrayElements \ {Ty("JObject")}, NEW size \in Sizes, NewArray(t, size)
  PROVE  IInv' /\ Good
<1>1. PICK n \in JniSize(size) :
        /\ op = Idle /\ Room
        /\ IF n < 0 THEN Fails(Made(size, FALSE))
           ELSE /\ n <= MaxLen(Desc(0, Letter(t)))
                /\ After(WithArray(Blank(Desc(0, Letter(t)), n)), field,
                         [t |-> t, j |-> Allocated(Blank(Desc(0, Letter(t)), n))],
                         Made(size, TRUE))
  BY DEF NewArray
<1>2. size \in Nat /\ HalfJint \in Nat \ {0}
  BY ArraysAssumption, TypesAssumption
<1>3. n \in Int /\ (~Wraps(size) => IF n < 0 THEN size >= HalfJint ELSE n = size)
  <2>1. AsJint(size) \in Int
    BY <1>2 DEF AsJint
  <2>2. ~Wraps(size) => AsJint(size) = IF size < HalfJint THEN size ELSE size - 2 * HalfJint
    BY <1>2, JintCast DEF Wraps
  <2>q. QED BY <1>2, <2>1, <2>2 DEF JniSize, Wraps
<1>4. CASE n < 0
  <2>1. IInv' /\ op' = Made(size, FALSE)
    BY <1>1, <1>4, FailsKeeps DEF Made
  <2>q. QED BY <1>1, <1>3, <1>4, <2>1, MadeIsGood
<1>5. CASE ~(n < 0)
  <2>1. t \in Singles /\ JavaType(t) = Desc(0, Letter(t))
    BY ArrayElementShape, SingleTypes DEF Singles, IsPrimitive, Ty
  <2>2. n \in 0..(HalfJint - 1)
    <3>1. MaxLen(Desc(0, Letter(t))) \in 0..(HalfJint - 1)
      BY <2>1, ArraysAssumption
    <3>q. QED BY <1>1, <1>2, <1>3, <1>5, <3>1
  <2>3. PICK a : a = Blank(Desc(0, Letter(t)), n)
    OBVIOUS
  <2>4. /\ ArrayOK(heap, a) /\ a.d = Desc(1, Letter(t)) /\ Len(a.elems) = n
    BY <2>2, <2>3, BlankIsArray, DescIsJavaType
  <2>5. Made(size, TRUE).k = "made"
    BY DEF Made
  <2>6. After(WithArray(a), field, [t |-> t, j |-> Allocated(a)], Made(size, TRUE))
    BY <1>1, <1>5, <2>3
  <2>7. IInv' /\ op' = Made(size, TRUE) /\ heap'[held'.j.v] = a
    <3>1. PICK o : o = Made(size, TRUE)
      OBVIOUS
    <3>2. /\ o.k \in {"put", "made"} /\ op = Idle /\ Room
          /\ After(WithArray(a), field, [t |-> t, j |-> Allocated(a)], o)
          /\ t \in ArrayElements
          /\ IF t = Ty("JObject") THEN SubType(a.d, Desc(1, "Object"))
                                  ELSE a.d = Desc(1, Letter(t))
      BY <1>1, <2>4, <2>5, <2>6, <3>1
    <3>3. ArrayOK(heap, a)
      BY <2>4
    <3>4. IInv' /\ op' = o /\ heap'[held'.j.v] = a
      BY <3>2, <3>3, NewHandle
    <3>q. QED BY <3>1, <3>4
  <2>q. QED BY <1>1, <1>3, <1>5, <2>4, <2>7, MadeIsGood
<1>q. QED BY <1>4, <1>5

\* Java::new_object_array: the cast of a length below twice the half range is
\* that length or negative.
LEMMA NewObjectArrayStep ==
  ASSUME IInv, NEW d \in Classes, NEW size \in Sizes, NewObjectArray(d, size)
  PROVE  IInv' /\ Good
<1>1. PICK n : n = AsJint(size)
  OBVIOUS
<1>2. /\ op = Idle /\ Room
      /\ IF n < 0 THEN Fails(Made(size, FALSE))
         ELSE /\ n <= MaxLen(d)
              /\ After(WithArray(Blank(d, n)), field,
                       [t |-> Ty("JObject"), j |-> Allocated(Blank(d, n))],
                       Made(size, TRUE))
  BY <1>1 DEF NewObjectArray
<1>3. size \in Nat /\ HalfJint \in Nat \ {0}
  BY ArraysAssumption, TypesAssumption
<1>4. n \in Int /\ (~Wraps(size) => IF n < 0 THEN size >= HalfJint ELSE n = size)
  <2>1. AsJint(size) \in Int
    BY <1>3 DEF AsJint
  <2>2. ~Wraps(size) => AsJint(size) = IF size < HalfJint THEN size ELSE size - 2 * HalfJint
    BY <1>3, JintCast DEF Wraps
  <2>q. QED BY <1>1, <1>3, <2>1, <2>2 DEF Wraps
<1>5. CASE n < 0
  <2>1. IInv' /\ op' = Made(size, FALSE)
    BY <1>2, <1>5, FailsKeeps DEF Made
  <2>q. QED BY <1>2, <1>4, <1>5, <2>1, MadeIsGood
<1>6. CASE ~(n < 0)
  <2>1. IsJavaType(d) /\ IsReference(d) /\ MaxLen(d) \in 0..(HalfJint - 1)
    BY ArraysAssumption
  <2>2. n \in 0..(HalfJint - 1)
    BY <1>2, <1>3, <1>4, <1>6, <2>1
  <2>3. PICK a : a = Blank(d, n)
    OBVIOUS
  <2>4. ArrayOK(heap, a) /\ a.d = ArrayType(d) /\ Len(a.elems) = n
    BY <2>1, <2>2, <2>3, BlankIsArray
  <2>5. SubType(a.d, Desc(1, "Object"))
    <3>1. PICK m, b : m \in Nat /\ d = Desc(m, b)
      BY <2>1 DEF IsJavaType
    <3>2. a.d = Desc(m + 1, b) /\ (m > 0 \/ b \notin Letters)
      BY <2>1, <2>4, <3>1, DescIsJavaType DEF IsReference
    <3>3. m + 1 \in Nat /\ a.d.dims = m + 1 /\ a.d.base = b
      <4>1. m + 1 \in Nat
        BY <3>1
      <4>2. Desc(m + 1, b).dims = m + 1 /\ Desc(m + 1, b).base = b
        BY <4>1, DescIsJavaType
      <4>q. QED BY <3>2, <4>1, <4>2
    <3>4. Desc(1, "Object").dims = 1 /\ Desc(1, "Object").base = "Object"
      BY DescIsJavaType
    <3>q. QED BY <3>1, <3>2, <3>3, <3>4 DEF SubType
  <2>6. Made(size, TRUE).k = "made" /\ Ty("JObject") \in ArrayElements
    BY DEF Made, ArrayElements
  <2>7. After(WithArray(a), field, [t |-> Ty("JObject"), j |-> Allocated(a)],
              Made(size, TRUE))
    BY <1>2, <1>6, <2>3
  <2>8. IInv' /\ op' = Made(size, TRUE) /\ heap'[held'.j.v] = a
    <3>1. PICK t, o : t = Ty("JObject") /\ o = Made(size, TRUE)
      OBVIOUS
    <3>2. /\ t \in ArrayElements /\ o.k \in {"put", "made"} /\ op = Idle /\ Room
          /\ After(WithArray(a), field, [t |-> t, j |-> Allocated(a)], o)
          /\ IF t = Ty("JObject") THEN SubType(a.d, Desc(1, "Object"))
                                  ELSE a.d = Desc(1, Letter(t))
      BY <1>2, <2>5, <2>6, <2>7, <3>1
    <3>3. ArrayOK(heap, a)
      BY <2>4
    <3>4. IInv' /\ op' = o /\ heap'[held'.j.v] = a
      BY <3>2, <3>3, NewHandle
    <3>q. QED BY <3>1, <3>4
  <2>q. QED BY <1>2, <1>4, <1>6, <2>4, <2>8, MadeIsGood
<1>q. QED BY <1>5, <1>6

\* A value that may be stored in an array keeps the heap sound.
LEMMA StoreKeeps ==
  ASSUME IInv, NEW a \in DOMAIN heap, NEW i \in DOMAIN heap[a].elems, NEW j,
         ValueOK(heap, j), InstanceOf(j, Element(heap[a].d))
  PROVE  LET h == [heap EXCEPT ![a].elems[i] = j]
         IN  /\ HeapOK(h) /\ DOMAIN h = DOMAIN heap
             /\ h[a].elems = [heap[a].elems EXCEPT ![i] = j]
             /\ \A k : ValueOK(heap, k) => ValueOK(h, k)
<1> DEFINE h == [heap EXCEPT ![a].elems[i] = j]
<1>1. /\ heap = [b \in DOMAIN heap |-> heap[b]]
      /\ \A b \in DOMAIN heap : ArrayOK(heap, heap[b])
  BY DEF IInv, HeapOK
<1>2. heap[a] = [d |-> heap[a].d, elems |-> heap[a].elems]
  BY <1>1 DEF ArrayOK
<1>3. /\ DOMAIN h = DOMAIN heap /\ h = [b \in DOMAIN h |-> h[b]]
      /\ h[a] = [d |-> heap[a].d, elems |-> [heap[a].elems EXCEPT ![i] = j]]
      /\ \A b \in DOMAIN heap : b # a => h[b] = heap[b]
  BY <1>1, <1>2
<1> HIDE DEF h
<1>4. \A b \in DOMAIN heap : h[b].d = heap[b].d
  BY <1>3
<1>5. ASSUME NEW k, ValueOK(heap, k) PROVE ValueOK(h, k)
  BY <1>3, <1>4, <1>5 DEF ValueOK
<1>6. PICK n \in 0..(HalfJint - 1) : heap[a].elems = [k \in 1..n |-> heap[a].elems[k]]
  BY <1>1 DEF ArrayOK
<1>7. /\ DOMAIN h[a].elems = 1..n /\ h[a].elems = [k \in 1..n |-> h[a].elems[k]]
      /\ \A k \in 1..n : h[a].elems[k] = IF k = i THEN j ELSE heap[a].elems[k]
  <2>1. heap[a].elems = [k \in 1..n |-> heap[a].elems[k]] /\ DOMAIN heap[a].elems = 1..n
    BY <1>6
  <2>2. h[a].elems = [heap[a].elems EXCEPT ![i] = j]
    BY <1>3
  <2>3. DOMAIN h[a].elems = 1..n
    BY <2>1, <2>2
  <2>4. h[a].elems = [k \in 1..n |-> IF k = i THEN j ELSE heap[a].elems[k]]
    BY <2>1, <2>2
  <2>q. QED BY <2>3, <2>4
<1>8. ArrayOK(h, h[a])
  <2>1. h[a] = [d |-> h[a].d, elems |-> h[a].elems]
    BY <1>3
  <2>2. DOMAIN heap[a].elems = 1..n
    BY <1>6
  <2>3. ASSUME NEW k \in DOMAIN h[a].elems
        PROVE  ValueOK(h, h[a].elems[k]) /\ InstanceOf(h[a].elems[k], Element(h[a].d))
    <3>1. ValueOK(heap, heap[a].elems[k]) /\ InstanceOf(heap[a].elems[k], Element(heap[a].d))
      BY <1>1, <1>7, <2>2 DEF ArrayOK
    <3>q. QED BY <3>1, <1>4, <1>5, <1>7
  <2>4. IsJavaType(h[a].d) /\ h[a].d.dims > 0
    BY <1>1, <1>4 DEF ArrayOK
  <2>q. QED BY <1>6, <1>7, <2>1, <2>3, <2>4 DEF ArrayOK
<1>9. ASSUME NEW b \in DOMAIN h PROVE ArrayOK(h, h[b])
  <2>1. CASE b = a
    BY <1>8, <2>1
  <2>2. CASE b # a
    <3>1. ArrayOK(heap, h[b])
      BY <1>1, <1>3, <2>2
    <3>q. QED BY <1>5, <3>1 DEF ArrayOK
  <2>q. QED BY <2>1, <2>2
<1>10. HeapOK(h)
  BY <1>3, <1>9 DEF HeapOK
<1>q. QED BY <1>3, <1>5, <1>10 DEF h

\* What an invariant of the old heap says of the new one.
LEMMA StillOK ==
  ASSUME IInv, NEW h, \A k : ValueOK(heap, k) => ValueOK(h, k)
  PROVE  /\ FieldOK(h, field) /\ HeldOK(h, held)
         /\ op.k \in {"idle", "vec"} => OpOK(h, op)
<1>1. FieldOK(h, field)
  BY DEF IInv, FieldOK
<1>2. HeldOK(h, held)
  BY DEF IInv, HeldOK, HandleOK
<1>3. op.k \in {"idle", "vec"} => OpOK(h, op)
  BY DEF IInv, OpOK, CopyOK
<1>q. QED BY <1>1, <1>2, <1>3

\* JArray::set
LEMMA ArraySetStep ==
  ASSUME IInv, held # NoHandle, NEW i \in Sizes, NEW x \in Values(held.t), ArraySet(i, x)
  PROVE  IInv' /\ Good
<1> DEFINE t == held.t
           r == ToJava(held.t, x)
           to == Slot(held.j, i)
           place == held.j.v
<1>1. /\ t \in ArrayElements /\ ValueOK(heap, held.j) /\ place \in DOMAIN heap
      /\ heap[place].d = held.j.d
      /\ IF t = Ty("JObject") THEN SubType(held.j.d, Desc(1, "Object"))
                              ELSE held.j.d = Desc(1, Letter(t))
  BY HeldIsThere
<1>2. t \in Singles /\ t \in OrOption(Singles) /\ t \in Scalars /\ t.c # "Option"
  BY <1>1, ArrayElementShape, SingleShape DEF Singles, OrOption
<1>3. ~IsVec(t) /\ Bare(t) = t
  BY <1>2, SingleShape DEF IsVec
<1>4. x \in ElementValues(t)
  BY <1>3 DEF Values, ElementValues
<1>5. PICK n, ok, o :
        /\ n \in JvmIndices(i) /\ ok \in BOOLEAN /\ op = Idle /\ ok = (r # <<>> /\ InBounds(n) /\ InstanceOf(r[1], Element(held.j.d)))
        /\ o = Put(t, x, to, ok)
        /\ IF ok THEN After([heap EXCEPT ![place].elems[n + 1] = r[1]], field, held, o)
                 ELSE Fails(o)
  BY DEF ArraySet
<1>6. /\ o.k = "put" /\ o.t = t /\ o.x = x /\ o.ok = ok
      /\ o.to.c = "slot" /\ o.to.j = held.j /\ o.to.i = i
  BY <1>5 DEF Put, Slot
<1>7. /\ i \in Nat /\ n \in Int /\ (InBounds(n) => n + 1 \in DOMAIN HeldElems)
      /\ ~Wraps(i) => (InBounds(n) <=> i < Len(HeldElems)) /\ (InBounds(n) => n = i)
  BY <1>5, IndexIsMeant
<1>8. HeldElems = heap[place].elems /\ Len(HeldElems) \in Nat
  BY <1>1, Lengths, TypesAssumption DEF HeldElems
<1>9. \/ r = <<>> /\ ~ElementHasJavaValue(t, x)
      \/ /\ r # <<>> /\ ValueOK(heap, r[1]) /\ ElementDenotes(t, x, r[1])
         /\ InstanceOf(r[1], JavaType(t)) /\ (t.c = "JObject" => r[1] = x)
  <2>1. HeldOK(heap, held)
    BY DEF IInv
  <2>q. QED BY <1>2, <1>3, <1>4, <2>1, ElementConverts
<1>10. op.k = "idle"
  BY <1>5 DEF Idle
<1> HIDE DEF t, r, to, place
<1>11. CASE ~ok
  <2>1. IInv' /\ op' = o
    BY <1>5, <1>6, <1>11, FailsKeeps
  <2>2. t.c # "JObject" => JavaType(t) = Element(held.j.d)
    <3>1. t = Ty("JObject") <=> t.c = "JObject"
      BY <1>1, ArrayElementShape DEF Ty
    <3>2. IsPrimitive(t) \/ t.c = "JObject"
      BY <1>1, ArrayElementShape DEF IsPrimitive
    <3>3. t.c # "JArray"
      BY <1>1, ArrayElementShape
    <3>q. QED BY <1>1, <1>2, <3>1, <3>2, <3>3, SingleTypes, DescIsJavaType
  <2>3. HasJavaValue(t, x) = ElementHasJavaValue(t, x)
    BY <1>3 DEF HasJavaValue
  <2>4. ~Wraps(i) => \/ i >= Len(HeldElems) \/ ~HasJavaValue(t, x)
                     \/ ~InstanceOf(x, Element(held.j.d))
    <3>1. CASE r = <<>>
      BY <1>9, <2>3, <3>1
    <3>2. CASE ~InBounds(n)
      BY <1>7, <1>8, <3>2
    <3>3. CASE r # <<>> /\ ~InstanceOf(r[1], Element(held.j.d))
      BY <1>9, <2>2, <3>3
    <3>q. QED BY <1>5, <1>11, <3>1, <3>2, <3>3
  <2>5. WriteLands
    BY <1>6, <1>8, <1>11, <2>1, <2>4 DEF WriteLands, place
  <2>q. QED BY <1>6, <1>10, <2>1, <2>5 DEF Good, ArrayIsMade, ReadIsTrue, CopyIsTrue
<1>12. CASE ok
  <2>1. PICK h : h = [heap EXCEPT ![place].elems[n + 1] = r[1]]
    OBVIOUS
  <2>2. /\ After(h, field, held, o) /\ InBounds(n) /\ n + 1 \in DOMAIN heap[place].elems
        /\ r # <<>> /\ ValueOK(heap, r[1]) /\ ElementDenotes(t, x, r[1])
        /\ InstanceOf(r[1], Element(heap[place].d))
    BY <1>1, <1>5, <1>7, <1>8, <1>9, <1>12, <2>1
  <2>3. /\ HeapOK(h) /\ h[place].elems = [heap[place].elems EXCEPT ![n + 1] = r[1]]
        /\ \A k : ValueOK(heap, k) => ValueOK(h, k)
    <3>1. PICK a, m, v : a = place /\ m = n + 1 /\ v = r[1]
      OBVIOUS
    <3>2. /\ a \in DOMAIN heap /\ m \in DOMAIN heap[a].elems /\ ValueOK(heap, v)
          /\ InstanceOf(v, Element(heap[a].d)) /\ h = [heap EXCEPT ![a].elems[m] = v]
      BY <1>1, <2>1, <2>2, <3>1
    <3>3. /\ HeapOK(h) /\ h[a].elems = [heap[a].elems EXCEPT ![m] = v]
          /\ \A k : ValueOK(heap, k) => ValueOK(h, k)
      BY <3>2, StoreKeeps
    <3>q. QED BY <3>1, <3>3
  <2>4. FieldOK(h, field) /\ HeldOK(h, held)
    BY <2>3, StillOK
  <2>5. OpOK(heap', o)
    BY <1>6 DEF OpOK
  <2>6. IInv'
    BY <2>2, <2>3, <2>4, <2>5, AfterKeeps
  <2>7. /\ op' = o /\ ValueOK(heap', held.j) /\ \A b \in DOMAIN heap' : heap'[b] = h[b]
    BY <2>2, <2>3, <2>4, AfterLeaves DEF FieldOK
  <2>8. IsArray(held.j)
    BY HeldIsThere
  <2>9. heap'[place].elems = [heap[place].elems EXCEPT ![n + 1] = r[1]]
    BY <2>3, <2>7, <2>8 DEF ValueOK, place
  <2>10. Denotes(t, x, r[1], heap')
    BY <1>2, <1>3, <2>2 DEF Denotes, IsVec
  <2>11. ~Wraps(i) => /\ i < Len(heap[place].elems)
                      /\ Denotes(t, x, heap'[place].elems[i + 1], heap')
                      /\ \A k \in DOMAIN heap[place].elems \ {i + 1} :
                            heap'[place].elems[k] = heap[place].elems[k]
    BY <1>7, <1>8, <2>2, <2>9, <2>10
  <2>12. WriteLands
    BY <1>6, <1>12, <2>7, <2>11 DEF WriteLands, place
  <2>q. QED BY <1>6, <1>10, <2>6, <2>7, <2>12 DEF Good, ArrayIsMade, ReadIsTrue, CopyIsTrue
<1>q. QED BY <1>11, <1>12

\* A step that starts nothing and ends nothing, with a heap as sound as before.
LEMMA QuietStep ==
  ASSUME IInv, NEW h, HeapOK(h), \A k : ValueOK(heap, k) => ValueOK(h, k),
         NEW f, FieldOK(h, f), NEW hd, HeldOK(h, hd),
         NEW o, After(h, f, hd, o), o.k = "idle" \/ (o = op /\ o.k = "vec")
  PROVE  IInv' /\ Good
<1>1. /\ op' = o /\ (o.k = "vec" => heap' = h)
  BY AfterLeaves DEF FieldOK
<1>2. OpOK(heap', o)
  <2>1. CASE o.k = "idle"
    BY <2>1 DEF OpOK
  <2>2. CASE o = op /\ o.k = "vec"
    BY <1>1, <2>2, StillOK
  <2>q. QED BY <2>1, <2>2
<1>3. IInv'
  BY <1>2, AfterKeeps
<1>4. o.k \in {"idle"} \/ (o = op /\ o.k # "got")
  OBVIOUS
<1>5. Good
  BY <1>1, <1>4, QuietIsGood
<1>q. QED BY <1>3, <1>5

\* The caller takes the result, and may keep an array.
LEMMA ReturnStep == ASSUME IInv, Return PROVE IInv' /\ Good
<1>0. Idle.k = "idle" /\ HeapOK(heap) /\ FieldOK(heap, field) /\ HeldOK(heap, held)
  BY DEF Idle, IInv
<1>1. CASE After(heap, field, held, Idle)
  BY <1>0, <1>1, QuietStep
<1>2. CASE /\ op.k = "got" /\ op.t.c = "JArray" /\ op.res # <<>>
           /\ After(heap, field, [t |-> Arg(op.t), j |-> op.res[1]], Idle)
  <2>1. PICK hd : hd = [t |-> Arg(op.t), j |-> op.res[1]]
    OBVIOUS
  <2>2. HandleOK(heap, Arg(op.t), op.res[1])
    BY <1>2 DEF IInv, OpOK
  <2>3. HeldOK(heap, hd)
    BY <2>1, <2>2 DEF HeldOK
  <2>q. QED BY <1>0, <1>2, <2>1, <2>3, QuietStep
<1>q. QED BY <1>1, <1>2 DEF Return

\* The program drops the handle.
LEMMA DropHandleStep == ASSUME IInv, DropHandle PROVE IInv' /\ Good
<1>1. /\ Idle.k = "idle" /\ HeapOK(heap) /\ FieldOK(heap, field)
      /\ HeldOK(heap, NoHandle) /\ After(heap, field, NoHandle, Idle)
  <2>1. HeapOK(heap) /\ FieldOK(heap, field)
    BY DEF IInv
  <2>2. After(heap, field, NoHandle, Idle)
    BY DEF DropHandle
  <2>3. Idle.k = "idle"
    BY DEF Idle
  <2>4. HeldOK(heap, NoHandle)
    BY DEF HeldOK
  <2>q. QED BY <2>1, <2>2, <2>3, <2>4
<1>q. QED BY <1>1, QuietStep

\* Java code has only values.
LEMMA SeenIsValue == ASSUME IInv, NEW j \in Seen PROVE ValueOK(heap, j)
<1>1. ASSUME NEW b \in {"String", "Class", "I", "C", "B"}, NEW v, b = "B" => v \in JavaBytes,
             j = JavaValue(Desc(0, b), v)
      PROVE  ValueOK(heap, j)
  <2>1. j.d = Desc(0, b) /\ j.v = v /\ j = JavaValue(j.d, j.v)
    BY <1>1 DEF JavaValue
  <2>2. IsJavaType(j.d) /\ ~IsArray(j) /\ (j.d = Desc(0, "B") => b = "B")
    BY <2>1, DescIsJavaType DEF IsArray
  <2>q. QED BY <1>1, <2>1, <2>2 DEF ValueOK
<1>2. ASSUME NEW a \in DOMAIN heap, j = JavaValue(heap[a].d, a)
      PROVE  ValueOK(heap, j)
  <2>1. IsJavaType(heap[a].d) /\ heap[a].d.dims > 0
    BY DEF IInv, HeapOK, ArrayOK
  <2>2. heap[a].d # Desc(0, "B")
    BY <2>1, DescIsJavaType
  <2>3. j.d = heap[a].d /\ j.v = a /\ j = JavaValue(j.d, j.v)
    BY <1>2 DEF JavaValue
  <2>q. QED BY <2>1, <2>2, <2>3 DEF ValueOK
<1>q. QED BY <1>1, <1>2, NullIsValue DEF Seen, String, Class

\* Java code writes the field.
LEMMA JavaSetsFieldStep == ASSUME IInv, JavaSetsField PROVE IInv' /\ Good
<1>1. PICK j \in MayStore(declared) : After(heap, j, held, op)
  BY DEF JavaSetsField
<1>2. ValueOK(heap, j) /\ InstanceOf(j, declared)
  BY SeenIsValue DEF MayStore
<1>3. FieldOK(heap, j) /\ HeapOK(heap) /\ HeldOK(heap, held)
  BY <1>2 DEF IInv, FieldOK
<1>4. op.k = "idle" \/ op.k = "vec"
  BY DEF JavaSetsField, JavaMayRun
<1>q. QED BY <1>1, <1>3, <1>4, QuietStep

\* Java code writes an element.
LEMMA JavaSetsElementStep == ASSUME IInv, JavaSetsElement PROVE IInv' /\ Good
<1>1. PICK a, i, j :
        /\ a \in DOMAIN heap /\ i \in DOMAIN heap[a].elems
        /\ j \in MayStore(Element(heap[a].d))
        /\ After([heap EXCEPT ![a].elems[i] = j], field, held, op)
  BY DEF JavaSetsElement
<1>2. ValueOK(heap, j) /\ InstanceOf(j, Element(heap[a].d))
  BY <1>1, SeenIsValue DEF MayStore
<1>3. PICK h : h = [heap EXCEPT ![a].elems[i] = j]
  OBVIOUS
<1>4. HeapOK(h) /\ \A k : ValueOK(heap, k) => ValueOK(h, k)
  BY <1>1, <1>2, <1>3, StoreKeeps
<1>5. FieldOK(h, field) /\ HeldOK(h, held)
  BY <1>4, StillOK
<1>6. op.k = "idle" \/ op.k = "vec"
  BY DEF JavaSetsElement, JavaMayRun
<1>q. QED BY <1>1, <1>3, <1>4, <1>5, <1>6, QuietStep

\* Java code stores a new array in the field.
LEMMA JavaAllocatesStep == ASSUME IInv, JavaAllocates PROVE IInv' /\ Good
<1>1. PICK d, a :
        /\ d \in Classes \cup {Desc(0, l) : l \in Letters}
        /\ op = Idle /\ Room /\ a = Blank(d, MaxLen(d))
        /\ InstanceOf(Allocated(a), declared)
        /\ After(WithArray(a), Allocated(a), held, op)
  BY DEF JavaAllocates
<1>2. IsJavaType(d) /\ MaxLen(d) \in 0..(HalfJint - 1)
  <2>1. CASE d \in Classes
    BY <2>1, ArraysAssumption
  <2>2. CASE d \in {Desc(0, l) : l \in Letters}
    <3>1. PICK t \in ArrayElements : d = Desc(0, Letter(t)) /\ IsPrimitive(t)
      <4>1. /\ Ty("i32") \in ArrayElements /\ Ty("i8") \in ArrayElements /\ Ty("char") \in ArrayElements
            /\ Letter(Ty("i32")) = "I" /\ Letter(Ty("i8")) = "B" /\ Letter(Ty("char")) = "C"
            /\ IsPrimitive(Ty("i32")) /\ IsPrimitive(Ty("i8")) /\ IsPrimitive(Ty("char"))
        BY DEF ArrayElements, Ty, Letter, IsPrimitive
      <4>q. QED BY <2>2, <4>1 DEF Letters
    <3>2. t \in Singles /\ t.c # "JArray"
      BY ArrayElementShape DEF Singles
    <3>3. d = JavaType(t)
      BY <3>1, <3>2, SingleTypes
    <3>q. QED BY <3>1, <3>2, <3>3, ArraysAssumption, DescIsJavaType
  <2>q. QED BY <1>1, <2>1, <2>2
<1>3. ArrayOK(heap, a)
  BY <1>1, <1>2, BlankIsArray
<1>4. PICK h, j : h = WithArray(a) /\ j = Allocated(a)
  OBVIOUS
<1>5. /\ HeapOK(h) /\ ValueOK(h, j) /\ HeldOK(h, held)
      /\ \A k : ValueOK(heap, k) => ValueOK(h, k)
  BY <1>1, <1>3, <1>4, Allocates
<1>6. FieldOK(h, j) /\ After(h, j, held, op) /\ op.k = "idle"
  BY <1>1, <1>4, <1>5 DEF FieldOK, Idle
<1>q. QED BY <1>5, <1>6, QuietStep

\* The copy in progress reads an array of the heap.
LEMMA CopyReads ==
  ASSUME IInv, op.k = "vec"
  PROVE  /\ op = [k |-> "vec", t |-> op.t, j |-> op.j, out |-> op.out]
         /\ op.t \in RustTypes /\ IsVec(op.t) /\ Arg(Bare(op.t)) \in OrOption(Singles)
         /\ op.j.v \in DOMAIN heap
         /\ Len(op.out) \in Nat /\ \E S : op.out \in Seq(S)
         /\ Len(heap[op.j.v].elems) \in Nat
         /\ \A i \in 1..Len(heap[op.j.v].elems) : ValueOK(heap, heap[op.j.v].elems[i])
<1>1. CopyOK(heap, op)
  BY DEF IInv, OpOK
<1>2. op.j.v \in DOMAIN heap
  BY <1>1 DEF CopyOK, CastToArray, ValueOK
<1>3. PICK S : op.out \in Seq(S)
  BY <1>1 DEF CopyOK
<1>4. Len(op.out) \in Nat
  BY <1>3
<1>5. /\ Len(heap[op.j.v].elems) \in 0..(HalfJint - 1)
      /\ DOMAIN heap[op.j.v].elems = 1..Len(heap[op.j.v].elems)
  BY <1>2, Lengths
<1>6. Len(heap[op.j.v].elems) \in Nat
  BY <1>5, TypesAssumption
<1>7. \A i \in 1..Len(heap[op.j.v].elems) : ValueOK(heap, heap[op.j.v].elems[i])
  BY <1>2, <1>5 DEF IInv, HeapOK, ArrayOK
<1>8. Arg(Bare(op.t)) \in OrOption(Singles)
  BY <1>1, TypeShape DEF CopyOK
<1>q. QED BY <1>1, <1>2, <1>3, <1>4, <1>6, <1>7, <1>8 DEF CopyOK

\* A copy in progress with another prefix.
LEMMA OutReplaced ==
  ASSUME NEW p, NEW t, NEW j, NEW a, NEW b,
         p = [k |-> "vec", t |-> t, j |-> j, out |-> a]
  PROVE  [p EXCEPT !.out = b] = [k |-> "vec", t |-> t, j |-> j, out |-> b]
OBVIOUS

\* A sequence with one more element.
LEMMA Appended ==
  ASSUME NEW S, NEW s \in Seq(S), NEW v \in S
  PROVE  /\ Append(s, v) \in Seq(S)
         /\ Len(Append(s, v)) = Len(s) + 1
         /\ Append(s, v)[Len(s) + 1] = v
OBVIOUS

\* One element of a copy.
LEMMA CopyElementStep == ASSUME IInv, CopyElement PROVE IInv' /\ Good
<1> DEFINE e == Arg(Bare(op.t))
<1>1. PICK n, j, r :
        /\ n = Len(op.out) /\ j = heap[op.j.v].elems[n + 1]
        /\ r = FromJava(e, j)
        /\ n < Len(heap[op.j.v].elems)
        /\ Fails(IF r = <<>> THEN Got(e, Slot(op.j, n), <<>>)
                             ELSE [op EXCEPT !.out = Append(@, r[1])])
  BY DEF CopyElement
<1>2. op.k = "vec"
  BY DEF CopyElement
<1>3. /\ op = [k |-> "vec", t |-> op.t, j |-> op.j, out |-> op.out]
      /\ op.t \in RustTypes /\ IsVec(op.t) /\ e \in OrOption(Singles)
      /\ op.j.v \in DOMAIN heap
      /\ n \in Nat /\ (\E S : op.out \in Seq(S))
      /\ Len(heap[op.j.v].elems) \in Nat
      /\ \A i \in 1..Len(heap[op.j.v].elems) : ValueOK(heap, heap[op.j.v].elems[i])
  BY <1>1, <1>2, CopyReads
<1>4. n + 1 \in 1..Len(heap[op.j.v].elems)
  BY <1>1, <1>3
<1>5. ValueOK(heap, j)
  BY <1>1, <1>3, <1>4
<1>6. \/ r = <<>> /\ ~Denotable(e, j)
      \/ r # <<>> /\ ElementDenotes(e, r[1], j)
  BY <1>1, <1>3, <1>5, ElementReads
<1>7. HeapOK(heap) /\ FieldOK(heap, field) /\ HeldOK(heap, held) /\ CopyOK(heap, op)
  BY <1>2 DEF IInv, OpOK
<1> HIDE DEF e
<1>8. CASE r = <<>>
  <2>1. PICK o : o = Got(e, Slot(op.j, n), <<>>)
    OBVIOUS
  <2>2. /\ o.k = "got" /\ o.t = e /\ o.res = <<>>
        /\ o.from.c = "slot" /\ o.from.j = op.j /\ o.from.i = n
    BY <2>1 DEF Got, Slot
  <2>3. After(heap, field, held, o)
    BY <1>1, <1>8, <2>1 DEF Fails
  <2>4. OpOK(heap', o)
    BY <2>2 DEF OpOK
  <2>5. IInv'
    BY <1>7, <2>3, <2>4, AfterKeeps
  <2>6. op' = o
    BY <2>3 DEF After
  <2>7. \A k \in Asked(o.from) : k = j
    BY <1>1, <2>2 DEF Asked
  <2>8. ReadIsTrue
    BY <1>6, <1>8, <2>2, <2>6, <2>7 DEF ReadIsTrue
  <2>9. WriteLands /\ ArrayIsMade /\ CopyIsTrue
    BY <2>2, <2>6 DEF WriteLands, ArrayIsMade, CopyIsTrue
  <2>q. QED BY <2>5, <2>8, <2>9 DEF Good
<1>9. CASE r # <<>>
  <2>1. PICK o, out : o = [op EXCEPT !.out = out] /\ out = Append(op.out, r[1])
    OBVIOUS
  <2>2. o = [k |-> "vec", t |-> op.t, j |-> op.j, out |-> out]
    <3>1. PICK t, k, a : t = op.t /\ k = op.j /\ a = op.out
      OBVIOUS
    <3>2. op = [k |-> "vec", t |-> t, j |-> k, out |-> a]
      BY <1>3, <3>1
    <3>3. [op EXCEPT !.out = out] = [k |-> "vec", t |-> t, j |-> k, out |-> out]
      BY <3>2, OutReplaced
    <3>q. QED BY <2>1, <3>1, <3>3
  <2>3. o.k = "vec" /\ o.t = op.t /\ o.j = op.j /\ o.out = out
    BY <2>2
  <2>4. PICK S : op.out \in Seq(S)
    BY <1>3
  <2>5. /\ out \in Seq(S \cup {r[1]}) /\ Len(out) = n + 1 /\ out[n + 1] = r[1]
    <3>1. op.out \in Seq(S \cup {r[1]})
      BY <2>4
    <3>2. r[1] \in S \cup {r[1]}
      OBVIOUS
    <3>3. n = Len(op.out)
      BY <1>1
    <3>q. QED BY <2>1, <3>1, <3>2, <3>3, Appended
  <2>6. After(heap, field, held, o)
    BY <1>1, <1>9, <2>1 DEF Fails
  <2>7. op' = o /\ heap' = heap
    BY <1>7, <2>3, <2>6, AfterLeaves DEF FieldOK
  <2>8. CopyOK(heap, o)
    BY <1>7, <2>2, <2>3, <2>5 DEF CopyOK
  <2>9. OpOK(heap', o)
    BY <2>3, <2>7, <2>8 DEF OpOK
  <2>10. IInv'
    BY <1>7, <2>6, <2>9, AfterKeeps
  <2>11. Denotes(e, r[1], j, heap)
    <3>1. ~IsVec(e) /\ Bare(e).c # "Vec"
      BY <1>3, ElementShape, SingleShape DEF IsVec
    <3>q. QED BY <1>6, <1>9, <3>1 DEF Denotes
  <2>12. CopyIsTrue
    BY <1>1, <2>3, <2>5, <2>7, <2>11 DEF CopyIsTrue, e
  <2>13. WriteLands /\ ArrayIsMade /\ ReadIsTrue
    BY <2>3, <2>7 DEF WriteLands, ArrayIsMade, ReadIsTrue
  <2>q. QED BY <2>10, <2>12, <2>13 DEF Good
<1>q. QED BY <1>8, <1>9

\* The last element has been copied.
LEMMA CopyEndsStep == ASSUME IInv, CopyEnds PROVE IInv' /\ Good
<1>1. PICK o, x : /\ x = IF op.t.c = "Option" THEN <<op.out>> ELSE op.out
                  /\ o = Got(op.t, TheHandle, <<x>>)
  OBVIOUS
<1>2. /\ op.k = "vec" /\ Len(op.out) = Len(heap[op.j.v].elems)
      /\ After(heap, field, held, o)
  BY <1>1 DEF CopyEnds, Fails
<1>3. o.k = "got" /\ o.t = op.t /\ o.res = <<x>> /\ o.from = TheHandle
  BY <1>1 DEF Got
<1>4. HeapOK(heap) /\ FieldOK(heap, field) /\ HeldOK(heap, held) /\ IsVec(op.t)
  BY <1>2, CopyReads DEF IInv
<1>5. op.t.c # "JArray"
  BY <1>4 DEF IsVec, Bare
<1>6. OpOK(heap', o)
  BY <1>3, <1>5 DEF OpOK
<1>7. IInv'
  BY <1>2, <1>4, <1>6, AfterKeeps
<1>8. op' = o
  BY <1>2 DEF After
<1>9. VecOfOption(op.t, x) = op.out
  BY <1>1 DEF VecOfOption
<1>10. ReadIsTrue
  BY <1>2, <1>3, <1>8, <1>9 DEF ReadIsTrue
<1>11. WriteLands /\ ArrayIsMade /\ CopyIsTrue
  BY <1>2, <1>3, <1>8 DEF WriteLands, ArrayIsMade, CopyIsTrue
<1>q. QED BY <1>7, <1>10, <1>11 DEF Good

-----------------------------------------------------------------------------

\* The program starts in the invariant.
LEMMA InitIsSound == Init => IInv
<1> SUFFICES ASSUME Init PROVE IInv
  OBVIOUS
<1>1. declared \in FieldTypes /\ field = Zero(declared) /\ heap = <<>> /\ held = NoHandle /\ op = Idle
  BY DEF Init
<1>2. IsJavaType(declared) /\ 0 \in 0..(HalfJint - 1)
  BY <1>1, ArraysAssumption, TypesAssumption
<1>3. DOMAIN heap = {} /\ heap = [a \in DOMAIN heap |-> heap[a]]
  BY <1>1
<1>4. ValueOK(heap, Zero(declared)) /\ InstanceOf(Zero(declared), declared)
  BY <1>2, ZeroIsValue
<1>5. HeldOK(heap, held)
  BY <1>1 DEF HeldOK
<1>6. OpOK(heap, op)
  BY <1>1 DEF OpOK, Idle
<1>q. QED BY <1>1, <1>3, <1>4, <1>5, <1>6 DEF IInv, HeapOK, FieldOK

\* Every step keeps the invariant and is a good one.
LEMMA StepIsSound == IInv /\ [Next]_vars => IInv' /\ [Good]_vars
<1> SUFFICES ASSUME IInv, [Next]_vars PROVE IInv' /\ [Good]_vars
  OBVIOUS
<1>1. CASE UNCHANGED vars
  BY <1>1 DEF vars, IInv, HeapOK, ArrayOK, FieldOK, HeldOK, OpOK, CopyOK
<1>2. CASE \E t \in TypesFor(declared) : \E x \in Values(t) : SetField(t, x)
  BY <1>2, TypesAreRust, SetFieldStep
<1>3. CASE \E t \in TypesFor(declared) : GetField(t)
  BY <1>3, TypesAreRust, GetFieldStep
<1>4. CASE \E t \in TypesFor(Element(held.j.d)), i \in Sizes : ArrayGet(t, i)
  BY <1>4, TypesAreRust, ArrayGetStep
<1>5. CASE \E t \in {held.t, OptionOf(held.t)} : ArrayToVec(t)
  BY <1>5, ArrayToVecStep
<1>6. CASE \E t \in ArrayElements : \E xs \in VecValues(t) : FromVec(t, xs)
  BY <1>6, FromVecStep
<1>7. CASE \E t \in ArrayElements \ {Ty("JObject")}, n \in Sizes : NewArray(t, n)
  BY <1>7, NewArrayStep
<1>8. CASE \E d \in Classes, n \in Sizes : NewObjectArray(d, n)
  BY <1>8, NewObjectArrayStep
<1>9. CASE held # NoHandle /\ \E i \in Sizes : \E x \in Values(held.t) : ArraySet(i, x)
  BY <1>9, ArraySetStep
<1>10. CASE CopyElement
  BY <1>10, CopyElementStep
<1>11. CASE CopyEnds
  BY <1>11, CopyEndsStep
<1>12. CASE Return
  BY <1>12, ReturnStep
<1>13. CASE DropHandle
  BY <1>13, DropHandleStep
<1>14. CASE JavaSetsField
  BY <1>14, JavaSetsFieldStep
<1>15. CASE JavaSetsElement
  BY <1>15, JavaSetsElementStep
<1>16. CASE JavaAllocates
  BY <1>16, JavaAllocatesStep
<1>q. QED BY <1>1, <1>2, <1>3, <1>4, <1>5, <1>6, <1>7, <1>8, <1>9, <1>10, <1>11,
             <1>12, <1>13, <1>14, <1>15, <1>16 DEF Next

\* Nothing ill-typed gets into the JVM, whatever Rust types the program uses
\* (java_args, element_class in convert.rs and array.rs).
THEOREM JvmStaysTyped == Spec => []HeapIsTyped
<1>1. Init => IInv
  BY InitIsSound
<1>2. IInv /\ [Next]_vars => IInv'
  BY StepIsSound
<1>3. IInv => HeapIsTyped
  BY SoundHeapIsTyped
<1>q. QED BY <1>1, <1>2, <1>3, PTL DEF Spec

\* A write that reports success left what it was given, where it was asked to,
\* and one that fails had a reason (set_field, JArray::set, from_vec).
THEOREM WriteLeavesItsValue == Spec => WritesLand
<1>1. Init => IInv
  BY InitIsSound
<1>2. IInv /\ [Next]_vars => IInv'
  BY StepIsSound
<1>3. IInv /\ [Next]_vars => [WriteLands /\ ArrayIsMade]_vars
  BY StepIsSound DEF Good
<1>q. QED BY <1>1, <1>2, <1>3, PTL DEF Spec, WritesLand

\* A read returns what denotes the value that is there, and so does every
\* element of a copy, while Java writes (get_field, JArray::get, to_vec).
THEOREM ReadReturnsWhatIsThere == Spec => ReadsAreTrue
<1>1. Init => IInv
  BY InitIsSound
<1>2. IInv /\ [Next]_vars => IInv'
  BY StepIsSound
<1>3. IInv /\ [Next]_vars => [ReadIsTrue /\ CopyIsTrue]_vars
  BY StepIsSound DEF Good
<1>q. QED BY <1>1, <1>2, <1>3, PTL DEF Spec, ReadsAreTrue
=============================================================================
