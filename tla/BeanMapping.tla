---------------------------- MODULE BeanMapping ----------------------------
(***************************************************************************)
(* Rust values as Java beans, records and value trees, and back (bean.rs,  *)
(* serde.rs).  A JavaBean is built by one setter call per field, a record  *)
(* by its constructor; what is read is driven by what Java has.            *)
(***************************************************************************)
EXTENDS JavaTree

CONSTANTS
  Classes,     \* what reflection finds in each bean class
  CamelCase,   \* the camel-cased form of each field name
  Height,      \* how deep the values nest that Java code makes
  Subjects,    \* the Rust values that are written
  JavaValues,  \* values that Java code makes
  Readers      \* how a Java value is read, and as which type

VARIABLES
  subject,   \* what was written
  java,      \* the Java value, or the error
  reader,    \* how it was read
  back       \* and the Rust value, or the error

vars == <<subject, java, reader, back>>

Nothing == <<"nothing">>
Nobody == [as |-> "nobody"]
Primitive == [int |-> "Integer", long |-> "Long", byte |-> "Byte", float |-> "Float",
              double |-> "Double", boolean |-> "Boolean", char |-> "Character"]

\* The properties of the objects of a class, and of any; an object has null for
\* those of other classes.
Properties(class) ==
  IF Classes[class].record
    THEN {Classes[class].components[i].name : i \in DOMAIN Classes[class].components}
    ELSE DOMAIN Classes[class].initial
AllProperties == UNION {Properties(class) : class \in DOMAIN Classes}

\* The Java values of n levels: scalars, collections and objects of the classes.
JavaAt[n \in 0..(Height + Deepest)] ==
  IF n = 0 THEN JavaScalars
  ELSE LET below == JavaAt[n - 1]
       IN below \cup Collections(below)
          \cup ({"object"} \X (DOMAIN Classes) \X [AllProperties -> below])
Java == JavaAt[Height + Deepest]

-----------------------------------------------------------------------------
(***************************************************************************)
(* What is assumed of the bean classes, each of which is a record or has   *)
(* the accessors of a JavaBean.                                            *)
(***************************************************************************)

IsRecord(c) ==
  /\ c.record = TRUE
  /\ c.components \in Seq([name : DOMAIN CamelCase, param : STRING])
  /\ \A i, j \in DOMAIN c.components : c.components[i].name = c.components[j].name => i = j
  /\ c.setters = {}
  /\ \A i \in DOMAIN c.components : \E g \in c.getters : g.name = <<"", c.components[i].name>>

IsPlain(c) ==
  /\ c.record = FALSE
  /\ c.initial \in [DOMAIN c.initial -> JavaAt[Height]]
  /\ \A s \in c.setters : s.prop \in DOMAIN c.initial

\* set<Name>, get<Name> and is<Name> are of one property, and so are a
\* component of a record and its accessors; two names are two properties.  The
\* reserved key names none.
OneProperty(c) ==
  /\ \A s, u \in c.setters : s.prop = u.prop => s.name = u.name
  /\ \A s \in c.setters, g \in c.getters :
       g.name \in {"get", "is"} \X {s.name} => g.prop = s.prop
  /\ c.record => \A i \in DOMAIN c.components : \A g \in c.getters :
       LET n == c.components[i].name
       IN g.name \in ({"get", "is"} \X {CamelCase[n]}) \cup {<<"", n>>} => g.prop = n

ReservesKey(c) ==
  /\ \A s \in c.setters : s.name # CamelCase[ClassKey]
  /\ c.record => \A i \in DOMAIN c.components : c.components[i].name # ClassKey

ASSUME ClassesAssumption ==
  \A class \in DOMAIN Classes :
    LET c == Classes[class]
    IN /\ IsRecord(c) \/ IsPlain(c)
       /\ \A g \in c.getters : g.prop \in Properties(class)
       /\ OneProperty(c) /\ ReservesKey(c)

ASSUME MappingAssumption ==
  /\ Height \in Nat
  /\ {ClassKey, ValueKey} \subseteq DOMAIN CamelCase
  /\ \A t \in Types : t.k = "struct" =>
       \A i \in DOMAIN t.fields : t.fields[i].name \in DOMAIN CamelCase
  /\ \A s \in Subjects :
       s.as \in {"value", "bean"} /\ s.type \in Types /\ s.value \in Values[s.type]
  /\ JavaValues \subseteq JavaAt[Height]
  /\ Readers \subseteq [as : {"value", "bean"}, type : Types]

-----------------------------------------------------------------------------
(***************************************************************************)
(* Writing a bean.                                                         *)
(***************************************************************************)

ClassOf(j) == IF j[1] = "object" THEN j[2] ELSE j[1]

\* An object, as call_method_raw passes it, for a parameter of class p: the
\* exact wrapper unboxes.
Takes(p, j) ==
  IF p \in DOMAIN Primitive
    THEN j[1] = Primitive[p]
    ELSE \/ j = Null \/ p = "Object" \/ p = ClassOf(j)
         \/ <<p, j[1]>> \in {<<"Map", "HashMap">>, <<"List", "ArrayList">>}

Setters(class, pair) ==
  {s \in Classes[class].setters : s.name = CamelCase[pair.name] /\ Takes(s.param, pair.value)}
Setter(class, pair) == CHOOSE s \in Setters(class, pair) : TRUE

\* What is left in the object by setter calls at some positions.
AfterCalls(class, pairs, calls) ==
  <<"object", class,
    [p \in AllProperties |->
       LET ofProp == {i \in calls : Setter(class, pairs[i]).prop = p}
       IN IF p \notin Properties(class) THEN Null
          ELSE IF ofProp = {} THEN Classes[class].initial[p]
          ELSE pairs[CHOOSE i \in ofProp : \A k \in ofProp : k <= i].value]>>

\* (A bug would be to go on to the next field.)
BugSetAll(class, pairs) ==
  AfterCalls(class, pairs, {i \in DOMAIN pairs : Setters(class, pairs[i]) # {}})

\* build_bean: one setter call per field, in order, until one fails.
SetAll(class, pairs) ==
  LET missing == {i \in DOMAIN pairs : Setters(class, pairs[i]) = {}}
      throwing == {i \in DOMAIN pairs \ missing : Setter(class, pairs[i]).throws}
      first == CHOOSE i \in missing \cup throwing : \A k \in missing \cup throwing : i <= k
  IN IF missing \cup throwing = {} THEN AfterCalls(class, pairs, DOMAIN pairs)
     ELSE Error(IF first \in missing THEN "no setter" ELSE "exception")

\* build_record: by position, once the names are those of the components.
BuildRecord(class, pairs) ==
  LET components == Classes[class].components
      names == [i \in DOMAIN components |-> components[i].name]
  IN IF names # [i \in DOMAIN pairs |-> pairs[i].name] THEN Error("order")
     ELSE IF \E i \in DOMAIN pairs : ~Takes(components[i].param, pairs[i].value)
       THEN Error("no constructor")
     ELSE IF Classes[class].throws THEN Error("exception")
     ELSE <<"object", class,
            [n \in AllProperties |->
               IF n \notin Properties(class) THEN Null
               ELSE pairs[CHOOSE i \in DOMAIN names : names[i] = n].value]>>

\* The fields were serialized before the class is looked up.
Build(class, captured) ==
  LET pairs == captured[2]
      failed == {i \in DOMAIN pairs : Failed(pairs[i].value)}
  IN IF Failed(captured) THEN captured
     ELSE IF failed # {}
       THEN pairs[CHOOSE i \in failed : \A j \in failed : i <= j].value
     ELSE IF class \notin DOMAIN Classes THEN Error("no class")
     ELSE IF Classes[class].record THEN BuildRecord(class, pairs)
     ELSE IF ~Classes[class].constructor THEN Error("no constructor")
     ELSE IF Classes[class].throws THEN Error("exception")
     ELSE SetAll(class, pairs)

\* BeanBuilder: the name and the value of each field.
Pairs(t, writer, v) ==
  <<"pairs", [i \in DOMAIN Fields(t) |->
                [name |-> Fields(t)[i].name,
                 value |-> writer[Fields(t)[i].type].property[FieldValues(t, v)[i]]]]>>

\* BeanValueSerializer writes a property: as a value, but a JavaBean as a bean,
\* from what MarkerBuilder captures.
PropertyOf(t, writer, v) ==
  CASE t.k = "option" /\ v # NoneValue -> writer[t.of].property[v[2]]
    [] t.k = "newtype" -> writer[t.of].property[v[2]]
    [] t.k = "bean" -> Build(t.class, writer[t.of].nested[v[2]])
    [] OTHER -> Ser[t][v]

\* PairCaptureSerializer: what a nested JavaBean holds.
NestedOf(t, writer, v) ==
  CASE t.k = "struct" -> Pairs(t, writer, v)
    [] t.k = "newtype" -> writer[t.of].nested[v[2]]
    [] OTHER -> Error("not a struct")

\* BeanSerializer: a JavaBean directly in a JavaBean is a struct to it.
BeanOf(t, writer, v) ==
  CASE t.k \in {"struct", "bean"} -> Pairs(t, writer, v)
    [] t.k = "newtype" -> writer[t.of].bean[v[2]]
    [] OTHER -> Error("not a struct")

\* The three serializers of bean.rs.
Writer[t \in Types] ==
  LET writer == [p \in Parts(t) |-> Writer[p]]
  IN [property |-> [v \in Values[t] |-> PropertyOf(t, writer, v)],
      nested |-> [v \in Values[t] |-> NestedOf(t, writer, v)],
      bean |-> [v \in Values[t] |-> BeanOf(t, writer, v)]]

SerBean(t, v, class) == Build(class, Writer[t].bean[v])

-----------------------------------------------------------------------------
(***************************************************************************)
(* Reading.                                                                *)
(***************************************************************************)

\* The result of reading parts, in a sequence.
Made(k, parts) ==
  IF \E i \in DOMAIN parts : Failed(parts[i])
    THEN parts[CHOOSE i \in DOMAIN parts : Failed(parts[i])]
    ELSE <<k, parts>>
Wrap(k, v) == IF Failed(v) THEN v ELSE <<k, v>>

\* What serde's visitor of a scalar makes of a value that it visits: an integer
\* has to be in range, a float is cast to from any number.
VisitScalar(k, j) ==
  CASE k \in IntegerTypes /\ j[1] \in NumberClasses ->
         IF j[2] \in IntRange(k) THEN <<"int", j[2]>> ELSE Error("range")
    [] k \in FloatTypes /\ j[1] \in NumberClasses \cup FloatClasses -> <<"float", Cast[k][j[2]]>>
    [] k = "bool" /\ j[1] = "Boolean" -> <<"bool", j[2]>>
    [] k = "char" /\ j[1] \in {"Character", "String"} ->
         IF j[2] \in Characters THEN <<"char", j[2]>> ELSE Error("type")
    [] k = "str" /\ j[1] \in {"Character", "String"} -> <<"str", j[2]>>
    [] OTHER -> Error("type")

\* (A bug would be to read a byte as a number.)
BugReadScalar(k, j) ==
  IF k = "unit" THEN <<"unit">>
  ELSE IF j[1] = "Character" /\ j[2] \in Surrogates THEN Error("surrogate")
  ELSE VisitScalar(k, j)

\* deserialize_unit, deserialize_u8, visit_value, visit_object.
ReadScalar(k, j) ==
  IF k = "unit" THEN <<"unit">>
  ELSE IF k = "u8" /\ j[1] = "Byte" THEN <<"int", AsUnsigned(j[2])>>
  ELSE IF j[1] = "Character" /\ j[2] \in Surrogates THEN Error("surrogate")
  ELSE VisitScalar(k, j)

Entry(j, key) == CHOOSE e \in j[2] : e[1] = JavaString(key)
HasKey(j, key) == \E e \in j[2] : e[1] = JavaString(key)

\* is_bean_marker_map.
IsBeanMarkerMap(j) ==
  /\ j[1] = "HashMap"
  /\ HasKey(j, ClassKey) /\ HasKey(j, ValueKey)
  /\ j[2] = {Entry(j, ClassKey), Entry(j, ValueKey)}

\* The values of n levels that serde can visit all of, which it does with one
\* that is of no use to the struct it reads.
IgnorableAt[n \in 0..(Height + Deepest)] ==
  IF n = 0 THEN {j \in JavaScalars : j[1] # "other" /\ ~(j[1] = "Character" /\ j[2] \in Surrogates)}
  ELSE LET below == IgnorableAt[n - 1] IN below \cup Collections(below)
Ignorable(j) == j \in IgnorableAt[Height + Deepest]

\* A map's entries, of which the last one stays of those with the same key.
MapOf(t, de, j) ==
  IF \E e \in j[2] : Failed(de[t.key][e[1]]) \/ Failed(de[t.of][e[2]]) THEN Error("entry")
  ELSE LET last(x) == CHOOSE e \in j[2] : de[t.key][e[1]] = x
       IN <<"map", {<<x, de[t.of][last(x)[2]]>> : x \in {de[t.key][e[1]] : e \in j[2]}}>>

\* serde's derived visitor of a struct, given a map: an unknown key is passed
\* over, a missing Option is None.
StructOfMap(t, de, j) ==
  LET names == {t.fields[i].name : i \in DOMAIN t.fields}
  IN IF \E e \in j[2] : e[1][1] # "String" THEN Error("key")
     ELSE IF \E e \in j[2] : e[1][2] \notin names /\ ~Ignorable(e[2]) THEN Error("type")
     ELSE Made("struct",
               [i \in DOMAIN t.fields |->
                  CASE HasKey(j, t.fields[i].name) ->
                         de[t.fields[i].type][Entry(j, t.fields[i].name)[2]]
                    [] t.fields[i].type.k = "option" /\ ~HasKey(j, t.fields[i].name) -> NoneValue
                    [] OTHER -> Error("missing")])

\* deserialize_newtype_struct of the reserved name: a JavaBean<T>.
ReadNested(t, readers, j) ==
  CASE IsBeanMarkerMap(j) -> Wrap("bean", readers[t.of].de[Entry(j, ValueKey)[2]])
    [] j = Null -> Error("null")
    [] OTHER -> Wrap("bean", readers[t.of].bean[j])

\* JavaDeserializer.  Given a list, a struct takes the elements as its fields.
DeOf(t, readers, j) ==
  LET de == [p \in Parts(t) |-> readers[p].de]
  IN CASE t.k \in ScalarTypes -> ReadScalar(t.k, j)
       [] t.k = "option" -> IF j = Null THEN NoneValue ELSE Wrap("some", de[t.of][j])
       [] t.k = "bean" -> ReadNested(t, readers, j)
       [] t.k = "newtype" /\ j[1] = "ArrayList" /\ j[2] # <<>> ->
            Wrap("newtype", de[t.of][j[2][1]])
       [] t.k = "seq" /\ j[1] = "ArrayList" ->
            Made("seq", [i \in DOMAIN j[2] |-> de[t.of][j[2][i]]])
       [] t.k = "tuple" /\ j[1] = "ArrayList" /\ Len(j[2]) >= Len(t.parts) ->
            Made("seq", [i \in DOMAIN t.parts |-> de[t.parts[i]][j[2][i]]])
       [] t.k = "map" /\ j[1] = "HashMap" -> MapOf(t, de, j)
       [] t.k = "struct" /\ j[1] = "HashMap" -> StructOfMap(t, de, j)
       [] t.k = "struct" /\ j[1] = "ArrayList" /\ Len(j[2]) >= Len(t.fields) ->
            Made("struct", [i \in DOMAIN t.fields |-> de[t.fields[i].type][j[2][i]]])
       [] OTHER -> Error("type")

\* (A bug would be to probe every object for the bare name.)
BugAccessors(class, name) ==
  <<<<"get", CamelCase[name]>>, <<"is", CamelCase[name]>>, <<"", name>>>>

\* getter_value: the accessors that are tried, the bare name on a record only.
Accessors(class, name) ==
  <<<<"get", CamelCase[name]>>, <<"is", CamelCase[name]>>>> \o
  (IF Classes[class].record THEN <<<<"", name>>>> ELSE <<>>)

\* What the first of them that there is returns.
Getter(o, name) ==
  LET tried == Accessors(o[2], name)
      Is(i) == {g \in Classes[o[2]].getters : g.name = tried[i]}
      found == {i \in DOMAIN tried : Is(i) # {}}
      getter == CHOOSE g \in Is(CHOOSE i \in found : \A k \in found : i <= k) : TRUE
  IN IF found = {} THEN Error("no getter")
     ELSE IF getter.throws THEN Error("exception")
     ELSE o[3][getter.prop]

\* BeanFieldAccess.  A value of a JDK class has none of these accessors.
ReadField(f, readers, j) ==
  LET got == IF j[1] = "object" THEN Getter(j, f.name) ELSE Error("no getter")
  IN IF Failed(got) THEN got ELSE readers[f.type].de[got]

\* BeanDeserializer.
ReadBeanOf(t, readers, j) ==
  CASE t.k \in {"newtype", "bean"} -> Wrap(t.k, readers[t.of].bean[j])
    [] t.k = "struct" ->
         Made("struct", [i \in DOMAIN t.fields |-> ReadField(t.fields[i], readers, j)])
    [] OTHER -> Error("not a struct")

Reader[t \in Types] ==
  LET readers == [p \in Parts(t) |-> Reader[p]]
  IN [de |-> [j \in Java |-> DeOf(t, readers, j)],
      bean |-> [j \in Java |-> ReadBeanOf(t, readers, j)]]

De(t, j) == Reader[t].de[j]
ReadBean(t, j) == Reader[t].bean[j]

-----------------------------------------------------------------------------
Init ==
  /\ subject = Nobody /\ java = Nothing
  /\ reader = Nobody /\ back = Nothing

\* JavaMap::to_java and JavaBean::to_java.
Write ==
  /\ java = Nothing
  /\ \E s \in Subjects :
       /\ subject' = s
       /\ java' = IF s.as = "value" THEN Ser[s.type][s.value]
                  ELSE SerBean(s.type, s.value, s.class)
  /\ UNCHANGED <<reader, back>>

JavaMakes ==
  /\ java = Nothing
  /\ java' \in JavaValues
  /\ UNCHANGED <<subject, reader, back>>

\* from_object and JavaMap::from_java; those of JavaBean.
Read ==
  /\ java # Nothing /\ ~Failed(java) /\ back = Nothing
  /\ \E r \in Readers :
       /\ reader' = r
       /\ back' = CASE r.as = "value" -> De(r.type, java)
                    [] r.as = "bean" /\ java = Null -> Error("null")
                    [] OTHER -> ReadBean(r.type, java)
  /\ UNCHANGED <<subject, java>>

Next == Write \/ JavaMakes \/ Read

Spec == Init /\ [][Next]_vars
-----------------------------------------------------------------------------
(***************************************************************************)
(* Properties.                                                             *)
(***************************************************************************)

\* The properties that a name may mean on an object.
Property(j, name) ==
  LET class == Classes[j[2]]
      named == {g \in class.getters : \/ g.name \in {"get", "is"} \X {CamelCase[name]}
                                      \/ class.record /\ g.name = <<"", name>>}
               \cup {s \in class.setters : s.name = CamelCase[name]}
  IN {j[3][a.prop] : a \in named}

\* shows is how a value of the field's type shows in a Java value.
ShowsField(f, shows, v, j) ==
  CASE j[1] = "HashMap" -> IF HasKey(j, f.name) THEN shows[v][Entry(j, f.name)[2]]
                                                ELSE v = NoneValue
    [] j[1] = "object" -> \E value \in Property(j, f.name) : shows[v][value]

\* No float lies between a number and the one it is rounded to.  The number
\* itself is one that does, if it is a float.
RoundsTo(k, n, float) ==
  \A f \in Floats(k) : ~(n <= f /\ f < float) /\ ~(float < f /\ f <= n)

ShowsOf(t, shows, v, j) ==
  CASE t.k = "unit" -> TRUE
    [] t.k \in IntegerTypes ->
         /\ j[1] \in NumberClasses
         /\ j[2] = v[2] \/ (t.k = "u8" /\ j[1] = "Byte" /\ v[2] - j[2] = 2 * Half["u8"])
    [] t.k \in FloatTypes -> j[1] \in NumberClasses \cup FloatClasses /\ RoundsTo(t.k, j[2], v[2])
    [] t.k = "bool" -> j = <<"Boolean", v[2]>>
    [] t.k \in {"char", "str"} -> j[1] \in {"Character", "String"} /\ j[2] = v[2]
    [] t.k = "option" -> IF v = NoneValue THEN j = Null ELSE shows[t.of][v[2]][j]
    [] t.k = "newtype" ->
         \/ shows[t.of][v[2]][j]
         \/ j[1] = "ArrayList" /\ j[2] # <<>> /\ shows[t.of][v[2]][j[2][1]]
    [] t.k = "seq" ->
         /\ j[1] = "ArrayList" /\ Len(j[2]) = Len(v[2])
         /\ \A i \in DOMAIN v[2] : shows[t.of][v[2][i]][j[2][i]]
    [] t.k = "tuple" ->
         /\ j[1] = "ArrayList" /\ Len(j[2]) >= Len(t.parts)
         /\ \A i \in DOMAIN t.parts : shows[t.parts[i]][v[2][i]][j[2][i]]
    [] t.k = "map" ->
         /\ j[1] = "HashMap"
         /\ \A e \in v[2] : \E d \in j[2] : shows[t.key][e[1]][d[1]] /\ shows[t.of][e[2]][d[2]]
         /\ \A d \in j[2] : \E e \in v[2] : shows[t.key][e[1]][d[1]]
    [] t.k = "bean" ->
         IF IsBeanMarkerMap(j) THEN shows[t.of][v[2]][Entry(j, ValueKey)[2]]
                               ELSE shows[t.of][v[2]][j]
    [] t.k = "struct" /\ j[1] # "ArrayList" ->
         \A i \in DOMAIN t.fields : ShowsField(t.fields[i], shows[t.fields[i].type], v[2][i], j)
    [] t.k = "struct" /\ j[1] = "ArrayList" ->
         /\ Len(j[2]) >= Len(t.fields)
         /\ \A i \in DOMAIN t.fields : shows[t.fields[i].type][v[2][i]][j[2][i]]
    [] OTHER -> FALSE

\* The Java value j stands for the Rust value v of type t: the reference that
\* writing and reading are held against, by the type table of serde.rs and by
\* the contract of bean.rs, whatever the order of the fields and whichever
\* numeric class, though as a float a number may be rounded.  A unit may be
\* anything.  serde's own visitors let a tuple, a struct or a newtype be read
\* from the head of a list, and a struct from a map with other keys.
Shows[t \in Types] ==
  LET shows == [p \in Parts(t) |-> Shows[p]]
  IN [v \in Values[t] |-> [j \in Java |-> ShowsOf(t, shows, v, j)]]

Written == subject # Nobody /\ java # Nothing

\* A type and the types that it is made of.
Within[t \in Types] ==
  LET within == [p \in Parts(t) |-> Within[p]]
  IN {t} \cup UNION {within[p] : p \in Parts(t)}

\* Two fields of one property: the second setter call replaces the first.
OneFieldPerProperty(t) ==
  \A s \in Within[t] : s.k = "struct" =>
    \A i, j \in DOMAIN s.fields :
      CamelCase[s.fields[i].name] = CamelCase[s.fields[j].name] => i = j

\* What a read yields is a value of the type asked for, and what Java has: no
\* field gets the value of another property, no number is read as another one,
\* unless there is no such float, and then as the next one up or down, and no
\* element is made up.
ReadIsThere ==
  back # Nothing /\ ~Failed(back) =>
    back \in Values[reader.type] /\ Shows[reader.type][back][java]

\* An Option, or nothing, within an Option is written as a null itself, and a
\* newtype is written as what it holds but not read so.
Reversible(t) ==
  \A s \in Within[t] : /\ s.k # "newtype"
                       /\ s.k = "option" => s.of.k \notin {"option", "unit"}

\* "every u8 round-trips", "struct -> object -> struct must round-trip": what
\* is written as a value or as a bean is read back as it was, or, where a class
\* lacks the accessor or it throws, refused.
RoundTrip ==
  /\ Written /\ back # Nothing
  /\ reader = [as |-> subject.as, type |-> subject.type]
  /\ Reversible(subject.type) /\ OneFieldPerProperty(subject.type)
  => \/ back = subject.value
     \/ subject.as = "bean" /\ back \in {Error("no getter"), Error("exception")}

\* The scalars a value is made of.
LeavesOf(t, leaves, v) ==
  CASE t.k \in Atomic -> {<<t.k, v>>}
    [] t.k = "option" -> IF v = NoneValue THEN {} ELSE leaves[t.of][v[2]]
    [] t.k \in {"newtype", "bean"} -> leaves[t.of][v[2]]
    [] t.k = "seq" -> UNION {leaves[t.of][v[2][i]] : i \in DOMAIN v[2]}
    [] t.k = "tuple" -> UNION {leaves[t.parts[i]][v[2][i]] : i \in DOMAIN t.parts}
    [] t.k = "map" -> UNION {leaves[t.key][e[1]] \cup leaves[t.of][e[2]] : e \in v[2]}
    [] t.k = "struct" -> UNION {leaves[t.fields[i].type][v[2][i]] : i \in DOMAIN t.fields}

Leaves[t \in Types] ==
  LET leaves == [p \in Parts(t) |-> Leaves[p]]
  IN [v \in Values[t] |-> LeavesOf(t, leaves, v)]

\* "Serialization errors on" unsigned integers, enums and, by the type table,
\* characters above U+FFFF.
Unsupported(t, v) ==
  \E leaf \in Leaves[t][v] : \/ leaf[1] \in {"u32", "enum"}
                             \/ leaf[1] = "char" /\ leaf[2][2] \in Astral

\* "The mapping never silently skips a field", "they fail rather than partially
\* filling an object": what Java gets is all of the value, or an error; and a
\* value tree is refused for nothing but what is unsupported, wherever it is.
WrittenIsWhole ==
  Written =>
    IF Failed(java)
      THEN subject.as = "value" => Unsupported(subject.type, subject.value)
      ELSE /\ ~Unsupported(subject.type, subject.value)
           /\ OneFieldPerProperty(subject.type) =>
                Shows[subject.type][subject.value][java]
           /\ subject.as = "bean" => ClassOf(java) = subject.class
=============================================================================
