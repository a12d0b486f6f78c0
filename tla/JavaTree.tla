------------------------------ MODULE JavaTree ------------------------------
(***************************************************************************)
(* Rust values and the Java values that they are written to (serde.rs):    *)
(* wrappers, strings, lists and maps.                                      *)
(*                                                                         *)
(* A Rust type is a record with a kind k, a Rust or Java value a tuple of  *)
(* its kind or class and its contents; a struct holds the sequence of its  *)
(* fields, a map the set of its entries.  A Java primitive, which only an  *)
(* accessor returns, is read as its wrapper is and is not told from it.    *)
(*                                                                         *)
(* serde derives what a type does from what its parts do.  So does this    *)
(* module: F[t] is FOf(t, the F of the parts of t).                        *)
(***************************************************************************)
EXTENDS Integers, Sequences, FiniteSets

CONSTANTS
  Types,       \* the Rust types of the program that are mapped
  Depth,       \* how many types deep each of them is
  Deepest,     \* the most that one is
  Half,        \* half the number of values of each integer type
  Numbers,     \* the numbers, an infinity as a large one
  Cast,        \* Rust's "n as f32" and "n as f64"
  Texts,       \* the strings
  Characters,  \* the strings of one character
  Astral,      \* characters above U+FFFF
  Surrogates   \* Java chars that are half of one

Signed == {"i8", "i32", "i64"}
IntegerTypes == Signed \cup {"u8", "u32"}
FloatTypes == {"f32", "f64"}
ScalarTypes == IntegerTypes \cup FloatTypes \cup {"bool", "char", "str", "unit"}
Atomic == ScalarTypes \cup {"enum"}

\* The reserved keys of a nested JavaBean.
ClassKey == "__rjava_bean_class"
ValueKey == "value"

\* The fields that a struct serializes, and JavaBean<T> as the struct that its
\* Serialize makes of it.
Fields(t) ==
  IF t.k = "bean" THEN <<[name |-> ClassKey, type |-> [k |-> "str"]],
                         [name |-> ValueKey, type |-> t.of]>>
                  ELSE t.fields
FieldValues(t, v) ==
  IF t.k = "bean" THEN <<<<"str", t.class>>, v[2]>> ELSE v[2]

\* The types a type is made of.
Parts(t) ==
  CASE t.k \in {"option", "newtype", "seq"} -> {t.of}
    [] t.k = "tuple" -> {t.parts[i] : i \in DOMAIN t.parts}
    [] t.k = "map" -> {t.key, t.of}
    [] t.k \in {"struct", "bean"} -> {Fields(t)[i].type : i \in DOMAIN Fields(t)}
    [] OTHER -> {}

IsType(t) ==
  \/ t \in [k : Atomic]
  \/ t \in [k : {"option", "newtype", "seq"}, of : Types]
  \/ t \in [k : {"tuple"}, parts : Seq(Types)]
  \/ t \in [k : {"map"}, key : {p \in Types : p.k \in Atomic}, of : Types]
  \/ t \in [k : {"bean"}, of : Types, class : Texts]
  \/ /\ t \in [k : {"struct"}, fields : Seq([name : Texts, type : Types])]
     /\ \A i, j \in DOMAIN t.fields : t.fields[i].name = t.fields[j].name => i = j

ASSUME TypesAssumption ==
  /\ Deepest \in Nat
  /\ Depth \in [Types -> 0..Deepest]
  /\ \A t \in Types :
       /\ IsType(t)
       /\ t.k \in Atomic \/ Depth[t] > 0
       /\ \A p \in Parts(t) : p \in Types /\ Depth[p] < Depth[t]

ASSUME ScalarsAssumption ==
  /\ Half \in [IntegerTypes -> Nat \ {0}]
  /\ Half["u8"] = Half["i8"]
  /\ Characters \subseteq Texts
  /\ Characters \cap Surrogates = {}
  /\ {ClassKey, ValueKey} \subseteq Texts

\* The values of an integer type.
IntRange(k) == IF k \in Signed THEN -Half[k]..(Half[k] - 1) ELSE 0..(2 * Half[k] - 1)

\* The numbers that a float type has.
Floats(k) == {n \in Numbers : Cast[k][n] = n}

\* A cast rounds to one of the two floats about a number, or to the number
\* itself where it is a float; a double can be whatever a float can.
ASSUME FloatsAssumption ==
  /\ Numbers \subseteq Int
  /\ \A k \in IntegerTypes : IntRange(k) \subseteq Numbers
  /\ Cast \in [FloatTypes -> [Numbers -> Numbers]]
  /\ \A k \in FloatTypes : \A n \in Numbers :
       /\ Cast[k][n] \in Floats(k)
       /\ \A m \in Numbers : m <= n => Cast[k][m] <= Cast[k][n]
  /\ Floats("f32") \subseteq Floats("f64")

\* "as i8" of a u8, and back.
AsSigned(n) == IF n < Half["i8"] THEN n ELSE n - 2 * Half["i8"]
AsUnsigned(n) == IF n < 0 THEN n + 2 * Half["u8"] ELSE n

NoneValue == <<"none">>

\* The Rust values of n levels.
RustScalars ==
  {NoneValue, <<"unit">>, <<"variant">>} \cup ({"int", "float"} \X Numbers)
  \cup ({"bool"} \X BOOLEAN) \cup ({"char", "str"} \X Texts)
RustAt[n \in 0..Deepest] ==
  IF n = 0 THEN RustScalars
  ELSE LET below == RustAt[n - 1]
       IN below \cup ({"some", "newtype", "bean"} \X below) \cup ({"seq", "struct"} \X Seq(below))
          \cup ({"map"} \X SUBSET (below \X below))

\* The values of a type.
ValuesOf(t, values) ==
  CASE t.k \in IntegerTypes -> {"int"} \X IntRange(t.k)
    [] t.k \in FloatTypes -> {"float"} \X Floats(t.k)
    [] t.k = "bool" -> {"bool"} \X BOOLEAN
    [] t.k = "char" -> {"char"} \X Characters
    [] t.k = "str" -> {"str"} \X Texts
    [] t.k = "unit" -> {<<"unit">>}
    [] t.k = "enum" -> {<<"variant">>}
    [] t.k = "option" -> {NoneValue} \cup ({"some"} \X values[t.of])
    [] t.k \in {"newtype", "bean"} -> {t.k} \X values[t.of]
    [] t.k = "seq" -> {"seq"} \X Seq(values[t.of])
    [] t.k = "tuple" ->
         {"seq"} \X {s \in Seq(RustAt[Depth[t]]) :
                       /\ DOMAIN s = DOMAIN t.parts
                       /\ \A i \in DOMAIN s : s[i] \in values[t.parts[i]]}
    [] t.k = "map" ->
         {"map"} \X {m \in SUBSET (values[t.key] \X values[t.of]) :
                       \A e, f \in m : e[1] = f[1] => e = f}
    [] t.k = "struct" ->
         {"struct"} \X {s \in Seq(RustAt[Depth[t]]) :
                          /\ DOMAIN s = DOMAIN t.fields
                          /\ \A i \in DOMAIN s : s[i] \in values[t.fields[i].type]}

Values[t \in Types] == ValuesOf(t, [p \in Parts(t) |-> Values[p]])

WrapperClass ==
  [k \in ScalarTypes \ {"u32", "unit"} |->
     CASE k \in {"i8", "u8"} -> "Byte"
       [] k = "i32" -> "Integer"
       [] k = "i64" -> "Long"
       [] k = "f32" -> "Float"
       [] k = "f64" -> "Double"
       [] k = "bool" -> "Boolean"
       [] k = "char" -> "Character"
       [] k = "str" -> "String"]
NumberClasses == {"Byte", "Integer", "Long"}
FloatClasses == {"Float", "Double"}

Null == <<"null">>
JavaString(s) == <<"String", s>>

\* The Java values that hold no other.
JavaScalars ==
  {Null, <<"other">>} \cup ({"Byte"} \X IntRange("i8")) \cup ({"Integer"} \X IntRange("i32"))
  \cup ({"Long"} \X IntRange("i64")) \cup ({"Float"} \X Floats("f32"))
  \cup ({"Double"} \X Floats("f64")) \cup ({"Boolean"} \X BOOLEAN)
  \cup ({"Character"} \X ((Characters \ Astral) \cup Surrogates)) \cup ({"String"} \X Texts)

\* The lists and the maps of some values.
Collections(below) ==
  ({"ArrayList"} \X Seq(below)) \cup ({"HashMap"} \X SUBSET (below \X below))

Error(kind) == <<"error", kind>>
Failed(x) == x[1] = "error"

\* serialize_i8 and so on; u32 stands for every unsigned type but u8.
SerScalar(k, v) ==
  CASE k = "unit" -> Null
    [] k = "u32" \/ (k = "char" /\ v[2] \in Astral) -> Error("unsupported")
    [] k = "u8" -> <<"Byte", AsSigned(v[2])>>
    [] OTHER -> <<WrapperClass[k], v[2]>>

\* SeqBuilder, MapBuilder: nothing, if an element cannot be written.
ArrayList(s) ==
  IF \E i \in DOMAIN s : Failed(s[i]) THEN Error("unsupported") ELSE <<"ArrayList", s>>
HashMap(entries) ==
  IF \E e \in entries : Failed(e[1]) \/ Failed(e[2])
    THEN Error("unsupported")
    ELSE <<"HashMap", entries>>

\* JavaSerializer.
SerOf(t, ser, v) ==
  CASE t.k \in ScalarTypes -> SerScalar(t.k, v)
    [] t.k = "enum" -> Error("unsupported")
    [] t.k = "option" -> IF v = NoneValue THEN Null ELSE ser[t.of][v[2]]
    [] t.k = "newtype" -> ser[t.of][v[2]]
    [] t.k = "seq" -> ArrayList([i \in DOMAIN v[2] |-> ser[t.of][v[2][i]]])
    [] t.k = "tuple" -> ArrayList([i \in DOMAIN t.parts |-> ser[t.parts[i]][v[2][i]]])
    [] t.k = "map" -> HashMap({<<ser[t.key][e[1]], ser[t.of][e[2]]>> : e \in v[2]})
    [] t.k \in {"struct", "bean"} ->
         HashMap({<<JavaString(Fields(t)[i].name),
                    ser[Fields(t)[i].type][FieldValues(t, v)[i]]>> : i \in DOMAIN Fields(t)})

Ser[t \in Types] ==
  LET ser == [p \in Parts(t) |-> Ser[p]]
  IN [v \in Values[t] |-> SerOf(t, ser, v)]
=============================================================================
