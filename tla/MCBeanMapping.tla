--------------------------- MODULE MCBeanMapping ---------------------------
EXTENDS BeanMapping

MCHalf == [i8 |-> 2, u8 |-> 2, u32 |-> 4, i32 |-> 4, i64 |-> 8]

\* A float has one significant bit, or two; 16 is their infinity.  (Halfway cases
\* are rounded away from 0.)
MCNumbers == -16..16
Magnitudes == [f32 |-> {0, 1, 2, 4, 8, 16}, f64 |-> {0, 1, 2, 3, 4, 6, 8, 12, 16}]
Nearest(floats, n) ==
  CHOOSE f \in floats :
    \A g \in floats \ {f} : IF f < g THEN 2 * n < f + g ELSE 2 * n >= f + g
MCCast ==
  [k \in FloatTypes |->
     [n \in MCNumbers |->
        IF n < 0 THEN -Nearest(Magnitudes[k], -n) ELSE Nearest(Magnitudes[k], n)]]

T(k) == [k |-> k]
Of(k, t) == [k |-> k, of |-> t]
Struct(fields) == [k |-> "struct", fields |-> fields]
F(name, t) == [name |-> name, type |-> t]
Bean(t, class) == [k |-> "bean", of |-> t, class |-> class]

User == Struct(<<F("user_id", T("u8")), F("name", Of("option", T("str")))>>)
Point == Struct(<<F("x", T("i32")), F("y", T("i8"))>>)
Swapped == Struct(<<F("y", T("i8")), F("x", T("i32"))>>)
Shape == Struct(<<F("name", T("str")), F("origin", Bean(Point, "Point"))>>)
Sparse == Struct(<<F("name", T("str")),
                   F("origin", Of("option", Bean(Point, "Point")))>>)
Box(t) == Struct(<<F("item", t)>>)
Flag == Struct(<<F("active", T("bool")), F("user_id", T("u8"))>>)
Clash == Struct(<<F("user_id", T("u8")), F("userId", T("u8"))>>)

MCCamelCase ==
  [n \in {"user_id", "userId", "name", "x", "y", "origin", "item", "active",
          "value", "__rjava_bean_class"} |->
     CASE n \in {"user_id", "userId"} -> "UserId"
       [] n = "name" -> "Name"
       [] n = "x" -> "X"
       [] n = "y" -> "Y"
       [] n = "origin" -> "Origin"
       [] n = "item" -> "Item"
       [] n = "active" -> "Active"
       [] n = "value" -> "Value"
       [] OTHER -> "RjavaBeanClass"]

Set(camel, param, prop) == [name |-> camel, param |-> param, prop |-> prop, throws |-> FALSE]
Get(prefix, name, prop) == [name |-> <<prefix, name>>, prop |-> prop, throws |-> FALSE]
Record(components, getters) ==
  [record |-> TRUE, components |-> components, getters |-> getters, setters |-> {},
   throws |-> FALSE]
Plain(constructor, initial, setters, getters) ==
  [record |-> FALSE, constructor |-> constructor, initial |-> initial,
   setters |-> setters, getters |-> getters, throws |-> FALSE]

MCClasses ==
  [User |-> Plain(TRUE, [userId |-> <<"Byte", 0>>, name |-> Null],
                  {Set("UserId", "byte", "userId"), Set("Name", "String", "name")},
                  {Get("get", "UserId", "userId"), Get("get", "Name", "name")}),
   \* active is read by isActive, userId cannot be read, the setter may throw.
   Flag |-> Plain(TRUE, [active |-> <<"Boolean", FALSE>>, userId |-> Null],
                  {Set("Active", "boolean", "active"),
                   [Set("UserId", "Object", "userId") EXCEPT !.throws = TRUE]},
                  {Get("is", "Active", "active")}),
   \* A method x() and y() of a class that is no record are no accessors of it.
   Point |-> Record(<<[name |-> "x", param |-> "int"], [name |-> "y", param |-> "byte"]>>,
                    {Get("", "x", "x"), Get("", "y", "y"), Get("get", "X", "x")}),
   Mutable |-> Plain(TRUE, [x |-> <<"Integer", 0>>, y |-> <<"Byte", 0>>, z |-> <<"Byte", 1>>],
                     {Set("X", "int", "x"), Set("Y", "byte", "y")},
                     {Get("get", "X", "x"), Get("", "y", "z")}),
   Shape |-> Plain(TRUE, [name |-> Null, origin |-> Null],
                   {Set("Name", "String", "name"), Set("Origin", "Point", "origin")},
                   {Get("get", "Name", "name"), Get("get", "Origin", "origin")}),
   Box |-> Plain(TRUE, [item |-> Null], {Set("Item", "Object", "item")},
                 {Get("get", "Item", "item")}),
   Scale |-> Plain(TRUE, [item |-> <<"Float", 0>>], {Set("Item", "float", "item")},
                   {Get("get", "Item", "item")}),
   Picky |-> [Record(<<[name |-> "item", param |-> "Object"]>>, {Get("", "item", "item")})
                EXCEPT !.throws = TRUE],
   Rigid |-> Plain(FALSE, [item |-> Null], {Set("Item", "Object", "item")}, {}),
   Sour |-> Plain(TRUE, [item |-> Null], {Set("Item", "Object", "item")},
                  {[Get("get", "Item", "item") EXCEPT !.throws = TRUE]})]

\* Some values of each type.
RECURSIVE Samples(_)
Samples(t) ==
  CASE t.k \in {"i8", "u8", "i32", "i64", "u32"} ->
         {<<"int", n>> : n \in {-4, -1, 1, 3} \cap IntRange(t.k)}
    [] t.k \in FloatTypes -> {<<"float", n>> : n \in {-4, 3, 16} \cap Floats(t.k)}
    [] t.k = "bool" -> {<<"bool", TRUE>>, <<"bool", FALSE>>}
    [] t.k = "char" -> {<<"char", "a">>, <<"char", "astral">>}
    [] t.k = "str" -> {<<"str", "a">>, <<"str", "b">>}
    [] t.k = "unit" -> {<<"unit">>}
    [] t.k = "enum" -> {<<"variant">>}
    [] t.k = "option" -> {NoneValue} \cup {<<"some", x>> : x \in Samples(t.of)}
    [] t.k \in {"newtype", "bean"} -> {<<t.k, x>> : x \in Samples(t.of)}
    [] t.k = "seq" -> {<<"seq", <<>>>>} \cup {<<"seq", <<x, y>>>> : x, y \in Samples(t.of)}
    [] t.k = "tuple" ->
         {<<"seq", <<x, y>>>> : x \in Samples(t.parts[1]), y \in Samples(t.parts[2])}
    [] t.k = "map" ->
         {<<"map", {<<x, f[x]>> : x \in DOMAIN f}>> :
            f \in UNION {[d -> Samples(t.of)] : d \in {{}, {CHOOSE x \in Samples(t.key) : TRUE},
                                                         Samples(t.key)}}}
    [] t.k = "struct" ->
         {<<"struct", s>> :
            s \in {c \in [DOMAIN t.fields -> UNION {Samples(t.fields[i].type) : i \in DOMAIN t.fields}] :
                     \A i \in DOMAIN t.fields : c[i] \in Samples(t.fields[i].type)}}

Scalars == {T(k) : k \in ScalarTypes \cup {"enum"}}
Trees ==
  {Of("option", T("i32")), Of("option", Of("option", T("bool"))), Of("option", T("unit")),
   Of("newtype", T("i8")), Of("newtype", Of("seq", T("bool"))), Of("seq", T("u8")),
   Of("seq", Of("option", T("bool"))), Of("seq", T("char")), Of("seq", Of("seq", T("bool"))),
   Of("seq", Bean(Point, "Point")),
   [k |-> "tuple", parts |-> <<T("i8"), T("str")>>],
   [k |-> "tuple", parts |-> <<T("bool"), T("u32")>>],
   [k |-> "map", key |-> T("str"), of |-> T("u8")],
   [k |-> "map", key |-> T("bool"), of |-> T("bool")]}
Structs ==
  {User, Point, Swapped, Shape, Sparse, Flag, Clash, Of("newtype", User),
   Bean(Point, "Point"), Bean(Box(T("bool")), "Box")}
Boxes ==
  {Box(t) : t \in {T("bool"), T("i8"), T("char"), T("f32"), T("f64"),
                   Of("option", Point), Of("newtype", T("bool")), Of("seq", Bean(Point, "Point")), Of("newtype", Bean(Point, "Point")),
                   Bean(Of("newtype", Point), "Point"), Bean(Point, "Mutable"),
                   Bean(T("bool"), "Point"), Bean(Bean(Point, "Point"), "Point"),
                   Bean(Swapped, "Point"), Bean(Point, "Nowhere")}}
Asked == Scalars \cup Trees \cup Structs \cup Boxes

\* With the types they are made of.
RECURSIVE DepthOf(_)
DepthOf(t) ==
  IF t.k \in Atomic THEN 0
  ELSE LET depths == {0} \cup {DepthOf(p) : p \in Parts(t)}
       IN 1 + CHOOSE d \in depths : \A e \in depths : e <= d
RECURSIVE Closure(_)
Closure(types) ==
  LET parts == UNION {Parts(t) : t \in types}
  IN IF parts \subseteq types THEN types ELSE Closure(types \cup parts)
MCTypes == Closure(Asked)
MCDepth == [t \in MCTypes |-> DepthOf(t)]
MCTexts ==
  {"a", "b", "astral", "half", "other", ClassKey} \cup DOMAIN MCCamelCase
  \cup DOMAIN MCClasses \cup {"Nowhere"}

ClassesFor(t) ==
  CASE t \in {User, Clash, Of("newtype", User)} -> {"User"}
    [] t \in {Point, Swapped} -> {"Point", "Mutable"}
    [] t \in {Shape, Sparse} -> {"Shape"}
    [] t = Flag -> {"Flag"}
    [] t \in Boxes -> {"Box", "Scale", "Rigid", "Sour", "Picky"}
    [] OTHER -> {"Box"}

MCSubjects ==
  UNION {{[as |-> "value", type |-> t, value |-> v, class |-> "none"] : v \in Samples(t)} :
           t \in Asked}
  \cup UNION {{[as |-> "bean", type |-> t, value |-> v, class |-> c] :
                 v \in Samples(t), c \in ClassesFor(t)} : t \in Structs \cup Boxes}

MCReaders == [as : {"value", "bean"}, type : Asked]

List(s) == <<"ArrayList", s>>
Map(entries) == <<"HashMap", entries>>
Str(s) == JavaString(s)
Obj(class, has) ==
  <<"object", class, [p \in AllProperties |-> IF p \in DOMAIN has THEN has[p] ELSE Null]>>
TRUEValue == <<"Boolean", TRUE>>

MCJavaValues ==
  {Null, <<"Long", 5>>, <<"Long", -1>>, <<"Integer", 3>>, <<"Byte", -1>>,
   <<"Float", 2>>, <<"Double", 3>>, <<"Double", -12>>,
   <<"Character", "half">>, <<"other">>,
   List(<<<<"Byte", 1>>, Str("a"), TRUEValue>>), List(<<List(<<TRUEValue>>), List(<<>>)>>),
   List(<<<<"Long", 3>>>>),
   Map({<<Str("name"), Str("a")>>, <<Str("other"), List(<<Null, TRUEValue>>)>>}),
   Map({<<Str("name"), Str("a")>>, <<Str("other"), <<"other">>>>}),
   Map({<<Str("name"), Null>>, <<Str("user_id"), <<"Integer", 3>>>>}),
   Map({<<<<"Integer", 1>>, TRUEValue>>}),
   Map({<<Str(ClassKey), Str("Point")>>, <<Str(ValueKey), TRUEValue>>, <<Str("item"), TRUEValue>>}),
   Map({<<Str("item"), TRUEValue>>, <<Str(ValueKey), Map({<<Str("item"), <<"Boolean", FALSE>>>>})>>}),
   Obj("Flag", [active |-> TRUEValue, userId |-> <<"Byte", 1>>]),
   Obj("Mutable", [x |-> <<"Integer", 1>>, y |-> <<"Byte", 0>>, z |-> <<"Byte", 1>>]),
   Obj("Box", [item |-> Map({<<Str(ClassKey), Str("Point")>>,
                                     <<Str(ValueKey), Map({<<Str("x"), <<"Byte", 1>>>>,
                                                           <<Str("y"), <<"Byte", 1>>>>})>>})])}
=============================================================================
