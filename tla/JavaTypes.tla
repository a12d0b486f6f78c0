----------------------------- MODULE JavaTypes -----------------------------
(* The mapping between Rust types and Java types, and the conversion of one *)
(* value: convert.rs (ToJava, FromJava), array.rs (JavaArrayElement,        *)
(* JavaVecElement) and the JObject conversions of handles.rs.               *)
(*                                                                          *)
(* A Java type is a descriptor [dims, base]: Desc(2, "I") is int[][].  A    *)
(* Rust type is a term [c, of]: VecOf(Ty("String")) is Vec<String>.  bool,  *)
(* i16, i64, f32 and f64 come from the macro that makes i32 and are         *)
(* represented by it.  An Option<Option<T>> has two values for one null and *)
(* is left out.                                                             *)
EXTENDS Integers, Sequences, FiniteSets

CONSTANTS HalfJint,   \* a jint, an index or a length, is one of
                      \* -HalfJint..(HalfJint - 1)
          HalfByte,   \* a Java byte is one of -HalfByte..(HalfByte - 1)
          Ints,       \* the int values
          Units,      \* the values of a Java char
          Surrogates, \* the Units that are surrogates
          Chars,      \* the Rust chars: the other units, and some above them
          Texts       \* the contents of a String

ASSUME TypesAssumption ==
    /\ HalfJint \in Nat \ {0} /\ HalfByte \in Nat \ {0}
    /\ Surrogates \subseteq Units /\ Units \subseteq Nat /\ Chars \subseteq Nat
    /\ Chars \cap Units = Units \ Surrogates

----------------------------------------------------------------------------
(* Java types and values *)

Desc(n, b) == [dims |-> n, base |-> b]
IsJavaType(d) == d.dims \in Nat /\ d = Desc(d.dims, d.base)
Letters == {"I", "B", "C"}
Object == Desc(0, "Object")
String == Desc(0, "String")
Class == Desc(0, "Class")

IsReference(d) == d.dims > 0 \/ d.base \notin Letters
Element(d) == [d EXCEPT !.dims = @ - 1]
ArrayType(d) == [d EXCEPT !.dims = @ + 1]

(* The JVM's assignability of reference types (IsInstanceOf, array stores). *)
SubType(d, e) ==
    \/ d = e
    \/ e.base = "Object" /\ d.dims > e.dims
    \/ e.base = "Object" /\ d.dims = e.dims /\ d.base \notin Letters

(* A value carries its own class; an array's payload is its place in the    *)
(* heap, a String's is its text.                                            *)
Null == [d |-> Desc(0, "null"), v |-> 0]
JavaValue(d, v) == [d |-> d, v |-> v]
IsArray(j) == j.d.dims > 0
InstanceOf(j, d) == IF IsReference(d) THEN j = Null \/ SubType(j.d, d)
                                      ELSE j.d = d

(* `x as i32` of a usize, at this model's width. *)
AsJint(x) ==
    LET m == x % (2 * HalfJint)
    IN  IF m >= HalfJint THEN m - 2 * HalfJint ELSE m

JavaBytes == (-HalfByte)..(HalfByte - 1)
RustBytes == 0..(2 * HalfByte - 1)

----------------------------------------------------------------------------
(* Rust types *)

Ty(c) == [c |-> c, of |-> <<>>]
VecOf(t) == [c |-> "Vec", of |-> <<t>>]
OptionOf(t) == [c |-> "Option", of |-> <<t>>]
JArrayOf(t) == [c |-> "JArray", of |-> <<t>>]
Arg(t) == t.of[1]
IsPrimitive(t) == t.c \in {"i32", "i8", "u8", "char"}
Letter(t) == CASE t.c = "i32" -> "I"
               [] t.c \in {"i8", "u8"} -> "B"
               [] t.c = "char" -> "C"

(* The types the conversions exist for: what a JArray holds, what a Vec     *)
(* holds, and all.                                                          *)
ArrayElements == {Ty("i32"), Ty("i8"), Ty("char"), Ty("JObject")}
Scalars == {Ty(c) : c \in {"i32", "i8", "u8", "char", "String", "JObject", "JClass"}}
Singles == Scalars \cup {JArrayOf(t) : t \in ArrayElements}
OrOption(types) == types \cup {OptionOf(t) : t \in types}
Vecs == {VecOf(t) : t \in OrOption(Singles)}
RustTypes == OrOption(Singles \cup Vecs)

(* An Option is the type it wraps, with null allowed. *)
Bare(t) == IF t.c = "Option" THEN Arg(t) ELSE t

(* JavaVecElement::element_sig: one `[` too many for JArray<JObject>. *)
ElementSig(t) ==
    LET u == Bare(t)
    IN  CASE IsPrimitive(u) -> Desc(0, Letter(u))
          [] u.c = "String" -> String
          [] u.c = "JObject" -> Object
          [] u.c = "JClass" -> Class
          [] u.c = "JArray" -> IF Arg(u).c = "JObject" THEN Desc(2, "Object")
                                                       ELSE Desc(1, Letter(Arg(u)))

(* (A bug would be to make every String[] an Object[].) *)
BugElementClass(t) == IF Bare(t).c = "String" THEN Object ELSE ElementSig(t)

(* JavaVecElement::element_class: what NewObjectArray is given. *)
ElementClass(t) == ElementSig(t)

(* FromJava::java_return_type: the type a field is looked up by. *)
ReturnType(t) ==
    LET u == Bare(t)
    IN  CASE IsPrimitive(u) -> Desc(0, Letter(u))
          [] u.c = "String" -> String
          [] u.c = "JObject" -> Object
          [] u.c = "JClass" -> Class
          [] u.c = "JArray" -> IF Arg(u).c = "JObject" THEN Desc(1, "Object")
                                                       ELSE Desc(1, Letter(Arg(u)))
          [] u.c = "Vec" -> ArrayType(ElementSig(Arg(u)))

(* ToJava::java_args: the same, but a None is an Object whatever its type. *)
JavaArgs(t, x) == IF t.c = "Option" /\ x = <<>> THEN Object ELSE ReturnType(t)

----------------------------------------------------------------------------
(* One value that is not a Vec.  A result is <<>> for an error, and <<v>>.  *)

(* u8 shares byte's bits, `as i8` one way and `as u8` the other. *)
ByteToJava(x) == IF x >= HalfByte THEN x - 2 * HalfByte ELSE x

(* (A bug would be to read the byte as a number.) *)
BugByteFromJava(b) == b

ByteFromJava(b) == b % (2 * HalfByte)

(* (A bug would be to send some replacement character.) *)
BugCharToJava(c) == <<CHOOSE u \in Units : TRUE>>

(* char_to_java: a char is one unit or it is refused. *)
CharToJava(c) == IF c \in Units THEN <<c>> ELSE <<>>

SingleToJava(t, x) ==
    CASE t.c \in {"i32", "i8"} -> <<JavaValue(ReturnType(t), x)>>
      [] t.c = "u8" -> <<JavaValue(ReturnType(t), ByteToJava(x))>>
      [] t.c = "char" -> [i \in DOMAIN CharToJava(x) |->
                            JavaValue(ReturnType(t), CharToJava(x)[i])]
      [] t.c = "String" -> <<JavaValue(String, x)>>
      [] t.c \in {"JObject", "JClass", "JArray"} -> <<x>>

ToJava(t, x) ==
    CASE t.c # "Option" -> SingleToJava(t, x)
      [] t.c = "Option" -> IF x = <<>> THEN <<Null>> ELSE SingleToJava(Arg(t), x[1])

(* A None is no element of a primitive array (__as_vec_element_arg). *)
ElementToJava(t, x) ==
    LET j == ToJava(t, x)
    IN  IF IsPrimitive(Bare(t)) /\ j = <<Null>> THEN <<>> ELSE j

(* The checks of from_java: the variant, null, the cast, the surrogate.     *)
(* (A String is its own text: an unpaired surrogate in one, which no Rust   *)
(* text has, is left to the decoding of the jni crate.)                     *)
SingleFromJava(t, j) ==
    CASE t.c \in {"i32", "i8"} -> IF j.d = ReturnType(t) THEN <<j.v>> ELSE <<>>
      [] t.c = "u8" -> IF j.d = ReturnType(t) THEN <<ByteFromJava(j.v)>> ELSE <<>>
      [] t.c = "char" -> IF j.d = ReturnType(t) /\ j.v \notin Surrogates
                         THEN <<j.v>> ELSE <<>>
      [] t.c = "String" -> IF j.d = String THEN <<j.v>> ELSE <<>>
      [] t.c = "JObject" -> IF j # Null /\ IsReference(j.d) THEN <<j>> ELSE <<>>
      [] t.c = "JClass" -> IF j.d = Class THEN <<j>> ELSE <<>>
      [] t.c = "JArray" -> IF /\ IsArray(j)
                              /\ IF Arg(t).c = "JObject"
                                 THEN SubType(j.d, Desc(1, "Object"))
                                 ELSE j.d = ReturnType(t)
                           THEN <<j>> ELSE <<>>

FromJava(t, j) ==
    CASE t.c # "Option" -> SingleFromJava(t, j)
      [] t.c = "Option" -> IF j = Null THEN <<<<>>>>
                           ELSE LET r == SingleFromJava(Arg(t), j)
                                IN  IF r = <<>> THEN <<>> ELSE <<r>>

(* The array a Vec<t> is read from: exactly byte[] for u8, int[] for i32,   *)
(* ..., and any array of references for the others.                         *)
CastToArray(t, j) ==
    /\ IsArray(j)
    /\ IF IsPrimitive(Bare(t)) THEN j.d = Desc(1, Letter(Bare(t)))
                               ELSE SubType(j.d, Desc(1, "Object"))

----------------------------------------------------------------------------
(* What the conversions promise, from the table in the crate's docs: the    *)
(* Java type a Rust type stands for, and the values that denote each other. *)

ScalarType(t) ==
    CASE IsPrimitive(t) -> Desc(0, Letter(t))
      [] t.c = "String" -> String
      [] t.c = "JObject" -> Object
      [] t.c = "JClass" -> Class

SingleType(t) ==
    LET u == Bare(t)
    IN  IF u.c = "JArray" THEN ArrayType(ScalarType(Arg(u))) ELSE ScalarType(u)

JavaType(t) ==
    LET u == Bare(t)
    IN  IF u.c = "Vec" THEN ArrayType(SingleType(Arg(u))) ELSE SingleType(u)

SingleDenotes(t, x, j) ==
    CASE t.c \in {"i32", "i8", "char"} -> j = JavaValue(JavaType(t), x)
      [] t.c = "u8" -> /\ j.d = JavaType(t) /\ x \in RustBytes
                       /\ x \in {j.v, j.v + 2 * HalfByte}
      [] t.c = "String" -> j = JavaValue(String, x)
      [] t.c = "JObject" -> j # Null /\ IsReference(j.d) /\ x = j
      [] t.c \in {"JClass", "JArray"} -> x = j /\ SubType(j.d, JavaType(t))

ElementDenotes(t, x, j) ==
    IF t.c = "Option"
    THEN IF x = <<>> THEN j = Null ELSE j # Null /\ SingleDenotes(Arg(t), x[1], j)
    ELSE SingleDenotes(t, x, j)

VecDenotes(t, xs, j, heap) ==
    /\ IsArray(j)
    /\ Len(xs) = Len(heap[j.v].elems)
    /\ \A i \in DOMAIN xs : ElementDenotes(t, xs[i], heap[j.v].elems[i])

Denotes(t, x, j, heap) ==
    LET u == Bare(t)
    IN  IF u.c # "Vec" THEN ElementDenotes(t, x, j)
        ELSE IF t.c = "Option" /\ x = <<>> THEN j = Null
        ELSE VecDenotes(Arg(u), IF t.c = "Option" THEN x[1] ELSE x, j, heap)

(* Whether some Rust value of the type denotes the Java value. *)
Denotable(t, j) ==
    LET u == Bare(t)
    IN  \/ t.c = "Option" /\ j = Null
        \/ CASE u.c \in {"i32", "i8", "u8"} -> j.d = JavaType(u)
             [] u.c = "char" -> j.d = JavaType(u) /\ j.v \in Chars
             [] u.c = "String" -> j.d = String
             [] u.c = "JObject" -> j # Null /\ IsReference(j.d)
             [] u.c \in {"JClass", "JArray"} -> SubType(j.d, JavaType(u))
             [] u.c = "Vec" -> IsArray(j) /\ InstanceOf(j, JavaType(u))
=============================================================================
