-------------------------- MODULE BeanMapping_proofs --------------------------
(***************************************************************************)
(* Proofs about the bean mapping, for all types, values, classes and       *)
(* widths: what is written is whole, what is read is there, and what is    *)
(* written is read back.                                                   *)
(***************************************************************************)
EXTENDS BeanMapping, SequenceTheorems, WellFoundedInduction, TLAPS

-----------------------------------------------------------------------------
(***************************************************************************)
(* Induction.  A claim is the set of what it holds for.                    *)
(***************************************************************************)

Less == {p \in Nat \X Nat : p[1] < p[2]}

\* A set of numbers with 0 and every successor of its members has all of Nat.
LEMMA NatSetInduction ==
  ASSUME NEW S, 0 \in S, \A n \in Nat : n \in S => n + 1 \in S
  PROVE  Nat \subseteq S
<1> DEFINE bad == Nat \ S
<1> SUFFICES ASSUME bad # {} PROVE FALSE
  OBVIOUS
<1>1. IsWellFoundedOn(Less, Nat)
  BY NatLessThanWellFounded, Zenon DEF OpToRel, Less
<1>2. PICK m \in bad : \A k \in bad : <<k, m>> \notin Less
  <2>1. bad \subseteq Nat
    OBVIOUS
  <2> HIDE DEF bad
  <2> QED
    BY <1>1, <2>1, WFMin
<1>3. m \in Nat \ {0}
  OBVIOUS
<1>4. m - 1 \notin bad
  <2>1. m - 1 \in Nat /\ <<m - 1, m>> \in Less
    BY <1>3 DEF Less
  <2> QED
    BY <1>2, <2>1
<1>5. m - 1 \in S /\ m - 1 \in Nat /\ (m - 1) + 1 = m
  BY <1>3, <1>4
<1> QED
  BY <1>5

\* A type is a record of one of the kinds, and is made of types.
LEMMA PartsAreTypes ==
  ASSUME NEW t \in Types
  PROVE  /\ Depth[t] \in 0..Deepest
         /\ Parts(t) \subseteq Types
         /\ \A p \in Parts(t) : p \in Types /\ Depth[p] \in 0..Deepest /\ Depth[p] < Depth[t]
BY TypesAssumption

\* A set of types that has every type whose parts it has, has all types.
LEMMA TypeInduction ==
  ASSUME NEW Good, \A t \in Types : (\A p \in Parts(t) : p \in Good) => t \in Good
  PROVE  Types \subseteq Good
<1> DEFINE S == {n \in Nat : \A t \in Types : Depth[t] < n => t \in Good}
<1>1. 0 \in S
  BY PartsAreTypes
<1>2. ASSUME NEW n \in Nat, n \in S PROVE n + 1 \in S
  <2> SUFFICES ASSUME NEW t \in Types, Depth[t] < n + 1 PROVE t \in Good
    OBVIOUS
  <2>1. \A p \in Parts(t) : p \in Types /\ Depth[p] < n
    BY PartsAreTypes
  <2> QED
    BY <1>2, <2>1
<1>3. Nat \subseteq S
  <2> HIDE DEF S
  <2> QED
    BY <1>1, <1>2, NatSetInduction
<1> SUFFICES ASSUME NEW t \in Types PROVE t \in Good
  OBVIOUS
<1>4. Depth[t] + 1 \in S /\ Depth[t] < Depth[t] + 1
  BY <1>3, PartsAreTypes
<1> QED
  BY <1>4

-----------------------------------------------------------------------------
(***************************************************************************)
(* The recursive definitions define what they say.                         *)
(***************************************************************************)

\* What each of the others makes of the functions of the parts.
SerFrom(t, ser) == [v \in Values[t] |-> SerOf(t, ser, v)]
WriterFrom(t, writer) ==
  [property |-> [v \in Values[t] |-> PropertyOf(t, writer, v)],
   nested |-> [v \in Values[t] |-> NestedOf(t, writer, v)],
   bean |-> [v \in Values[t] |-> BeanOf(t, writer, v)]]
ReaderFrom(t, readers) ==
  [de |-> [j \in Java |-> DeOf(t, readers, j)],
   bean |-> [j \in Java |-> ReadBeanOf(t, readers, j)]]
ShowsFrom(t, shows) == [v \in Values[t] |-> [j \in Java |-> ShowsOf(t, shows, v, j)]]
LeavesFrom(t, leaves) == [v \in Values[t] |-> LeavesOf(t, leaves, v)]
WithinFrom(t, within) == {t} \cup UNION {within[p] : p \in Parts(t)}

\* The values of a type are made of those of its parts.
LEMMA ValuesIs == \A t \in Types : Values[t] = ValuesOf(t, [p \in Parts(t) |-> Values[p]])
<1> DEFINE Fits(g, t) == g[t] = ValuesOf(t, [p \in Parts(t) |-> g[p]])
           S == {n \in Nat : \E g : \A t \in Types : Depth[t] < n => Fits(g, t)}
<1>1. 0 \in S
  BY PartsAreTypes
<1>2. ASSUME NEW n \in Nat, n \in S PROVE n + 1 \in S
  <2>1. PICK g : \A t \in Types : Depth[t] < n => Fits(g, t)
    BY <1>2
  <2> DEFINE h == [t \in Types |-> ValuesOf(t, [p \in Parts(t) |-> g[p]])]
  <2>2. ASSUME NEW t \in Types, Depth[t] < n + 1 PROVE Fits(h, t)
    <3>1. \A p \in Parts(t) : h[p] = g[p]
      BY <2>1, <2>2, PartsAreTypes
    <3>2. [p \in Parts(t) |-> g[p]] = [p \in Parts(t) |-> h[p]]
      BY <3>1
    <3> QED
      BY <3>2
  <2>3. \E f : \A t \in Types : Depth[t] < n + 1 => Fits(f, t)
    <3> HIDE DEF h, Fits
    <3> QED
      BY <2>2
  <2> QED
    BY <2>3
<1>3. Deepest + 1 \in S
  <2> HIDE DEF S
  <2> QED
    BY <1>1, <1>2, NatSetInduction, TypesAssumption
<1>4. PICK g : \A t \in Types : Fits(g, t)
  <2>1. PICK g : \A t \in Types : Depth[t] < Deepest + 1 => Fits(g, t)
    BY <1>3
  <2>2. \A t \in Types : Depth[t] < Deepest + 1
    BY TypesAssumption
  <2> HIDE DEF Fits
  <2> QED
    BY <2>1, <2>2
<1> DEFINE f == [t \in Types |-> g[t]]
<1>5. ASSUME NEW t \in Types PROVE Fits(f, t)
  <2>1. [p \in Parts(t) |-> g[p]] = [p \in Parts(t) |-> f[p]]
    BY PartsAreTypes
  <2> QED
    BY <1>4, <2>1
<1>6. f = [t \in Types |-> ValuesOf(t, [p \in Parts(t) |-> f[p]])]
  BY <1>5
<1>7. Values = [t \in Types |-> ValuesOf(t, [p \in Parts(t) |-> Values[p]])]
  BY <1>6 DEF Values
<1> QED
  BY <1>7

\* A serializer of a type is made of those of its parts.
LEMMA SerIs == \A t \in Types : Ser[t] = SerFrom(t, [p \in Parts(t) |-> Ser[p]])
<1> DEFINE Fits(g, t) == g[t] = SerFrom(t, [p \in Parts(t) |-> g[p]])
           S == {n \in Nat : \E g : \A t \in Types : Depth[t] < n => Fits(g, t)}
<1>1. 0 \in S
  BY PartsAreTypes
<1>2. ASSUME NEW n \in Nat, n \in S PROVE n + 1 \in S
  <2>1. PICK g : \A t \in Types : Depth[t] < n => Fits(g, t)
    BY <1>2
  <2> DEFINE h == [t \in Types |-> SerFrom(t, [p \in Parts(t) |-> g[p]])]
  <2>2. ASSUME NEW t \in Types, Depth[t] < n + 1 PROVE Fits(h, t)
    <3>1. \A p \in Parts(t) : h[p] = g[p]
      BY <2>1, <2>2, PartsAreTypes
    <3>2. [p \in Parts(t) |-> g[p]] = [p \in Parts(t) |-> h[p]]
      BY <3>1
    <3> QED
      BY <3>2
  <2>3. \E f : \A t \in Types : Depth[t] < n + 1 => Fits(f, t)
    <3> HIDE DEF h, Fits
    <3> QED
      BY <2>2
  <2> QED
    BY <2>3
<1>3. Deepest + 1 \in S
  <2> HIDE DEF S
  <2> QED
    BY <1>1, <1>2, NatSetInduction, TypesAssumption
<1>4. PICK g : \A t \in Types : Fits(g, t)
  <2>1. PICK g : \A t \in Types : Depth[t] < Deepest + 1 => Fits(g, t)
    BY <1>3
  <2>2. \A t \in Types : Depth[t] < Deepest + 1
    BY TypesAssumption
  <2> HIDE DEF Fits
  <2> QED
    BY <2>1, <2>2
<1> DEFINE f == [t \in Types |-> g[t]]
<1>5. ASSUME NEW t \in Types PROVE Fits(f, t)
  <2>1. [p \in Parts(t) |-> g[p]] = [p \in Parts(t) |-> f[p]]
    BY PartsAreTypes
  <2> QED
    BY <1>4, <2>1
<1>6. f = [t \in Types |-> SerFrom(t, [p \in Parts(t) |-> f[p]])]
  BY <1>5
<1>7. Ser = [t \in Types |-> SerFrom(t, [p \in Parts(t) |-> Ser[p]])]
  BY <1>6 DEF Ser, SerFrom
<1> QED
  BY <1>7

\* So are the bean serializers,
LEMMA WriterIs == \A t \in Types : Writer[t] = WriterFrom(t, [p \in Parts(t) |-> Writer[p]])
<1> DEFINE Fits(g, t) == g[t] = WriterFrom(t, [p \in Parts(t) |-> g[p]])
           S == {n \in Nat : \E g : \A t \in Types : Depth[t] < n => Fits(g, t)}
<1>1. 0 \in S
  BY PartsAreTypes
<1>2. ASSUME NEW n \in Nat, n \in S PROVE n + 1 \in S
  <2>1. PICK g : \A t \in Types : Depth[t] < n => Fits(g, t)
    BY <1>2
  <2> DEFINE h == [t \in Types |-> WriterFrom(t, [p \in Parts(t) |-> g[p]])]
  <2>2. ASSUME NEW t \in Types, Depth[t] < n + 1 PROVE Fits(h, t)
    <3>1. \A p \in Parts(t) : h[p] = g[p]
      BY <2>1, <2>2, PartsAreTypes
    <3>2. [p \in Parts(t) |-> g[p]] = [p \in Parts(t) |-> h[p]]
      BY <3>1
    <3> QED
      BY <3>2
  <2>3. \E f : \A t \in Types : Depth[t] < n + 1 => Fits(f, t)
    <3> HIDE DEF h, Fits
    <3> QED
      BY <2>2
  <2> QED
    BY <2>3
<1>3. Deepest + 1 \in S
  <2> HIDE DEF S
  <2> QED
    BY <1>1, <1>2, NatSetInduction, TypesAssumption
<1>4. PICK g : \A t \in Types : Fits(g, t)
  <2>1. PICK g : \A t \in Types : Depth[t] < Deepest + 1 => Fits(g, t)
    BY <1>3
  <2>2. \A t \in Types : Depth[t] < Deepest + 1
    BY TypesAssumption
  <2> HIDE DEF Fits
  <2> QED
    BY <2>1, <2>2
<1> DEFINE f == [t \in Types |-> g[t]]
<1>5. ASSUME NEW t \in Types PROVE Fits(f, t)
  <2>1. [p \in Parts(t) |-> g[p]] = [p \in Parts(t) |-> f[p]]
    BY PartsAreTypes
  <2> QED
    BY <1>4, <2>1
<1>6. f = [t \in Types |-> WriterFrom(t, [p \in Parts(t) |-> f[p]])]
  BY <1>5
<1>7. Writer = [t \in Types |-> WriterFrom(t, [p \in Parts(t) |-> Writer[p]])]
  BY <1>6 DEF Writer, WriterFrom
<1> QED
  BY <1>7

\* the deserializers,
LEMMA ReaderIs == \A t \in Types : Reader[t] = ReaderFrom(t, [p \in Parts(t) |-> Reader[p]])
<1> DEFINE Fits(g, t) == g[t] = ReaderFrom(t, [p \in Parts(t) |-> g[p]])
           S == {n \in Nat : \E g : \A t \in Types : Depth[t] < n => Fits(g, t)}
<1>1. 0 \in S
  BY PartsAreTypes
<1>2. ASSUME NEW n \in Nat, n \in S PROVE n + 1 \in S
  <2>1. PICK g : \A t \in Types : Depth[t] < n => Fits(g, t)
    BY <1>2
  <2> DEFINE h == [t \in Types |-> ReaderFrom(t, [p \in Parts(t) |-> g[p]])]
  <2>2. ASSUME NEW t \in Types, Depth[t] < n + 1 PROVE Fits(h, t)
    <3>1. \A p \in Parts(t) : h[p] = g[p]
      BY <2>1, <2>2, PartsAreTypes
    <3>2. [p \in Parts(t) |-> g[p]] = [p \in Parts(t) |-> h[p]]
      BY <3>1
    <3> QED
      BY <3>2
  <2>3. \E f : \A t \in Types : Depth[t] < n + 1 => Fits(f, t)
    <3> HIDE DEF h, Fits
    <3> QED
      BY <2>2
  <2> QED
    BY <2>3
<1>3. Deepest + 1 \in S
  <2> HIDE DEF S
  <2> QED
    BY <1>1, <1>2, NatSetInduction, TypesAssumption
<1>4. PICK g : \A t \in Types : Fits(g, t)
  <2>1. PICK g : \A t \in Types : Depth[t] < Deepest + 1 => Fits(g, t)
    BY <1>3
  <2>2. \A t \in Types : Depth[t] < Deepest + 1
    BY TypesAssumption
  <2> HIDE DEF Fits
  <2> QED
    BY <2>1, <2>2
<1> DEFINE f == [t \in Types |-> g[t]]
<1>5. ASSUME NEW t \in Types PROVE Fits(f, t)
  <2>1. [p \in Parts(t) |-> g[p]] = [p \in Parts(t) |-> f[p]]
    BY PartsAreTypes
  <2> QED
    BY <1>4, <2>1
<1>6. f = [t \in Types |-> ReaderFrom(t, [p \in Parts(t) |-> f[p]])]
  BY <1>5
<1>7. Reader = [t \in Types |-> ReaderFrom(t, [p \in Parts(t) |-> Reader[p]])]
  BY <1>6 DEF Reader, ReaderFrom
<1> QED
  BY <1>7

\* the reference,
LEMMA ShowsIs == \A t \in Types : Shows[t] = ShowsFrom(t, [p \in Parts(t) |-> Shows[p]])
<1> DEFINE Fits(g, t) == g[t] = ShowsFrom(t, [p \in Parts(t) |-> g[p]])
           S == {n \in Nat : \E g : \A t \in Types : Depth[t] < n => Fits(g, t)}
<1>1. 0 \in S
  BY PartsAreTypes
<1>2. ASSUME NEW n \in Nat, n \in S PROVE n + 1 \in S
  <2>1. PICK g : \A t \in Types : Depth[t] < n => Fits(g, t)
    BY <1>2
  <2> DEFINE h == [t \in Types |-> ShowsFrom(t, [p \in Parts(t) |-> g[p]])]
  <2>2. ASSUME NEW t \in Types, Depth[t] < n + 1 PROVE Fits(h, t)
    <3>1. \A p \in Parts(t) : h[p] = g[p]
      BY <2>1, <2>2, PartsAreTypes
    <3>2. [p \in Parts(t) |-> g[p]] = [p \in Parts(t) |-> h[p]]
      BY <3>1
    <3> QED
      BY <3>2
  <2>3. \E f : \A t \in Types : Depth[t] < n + 1 => Fits(f, t)
    <3> HIDE DEF h, Fits
    <3> QED
      BY <2>2
  <2> QED
    BY <2>3
<1>3. Deepest + 1 \in S
  <2> HIDE DEF S
  <2> QED
    BY <1>1, <1>2, NatSetInduction, TypesAssumption
<1>4. PICK g : \A t \in Types : Fits(g, t)
  <2>1. PICK g : \A t \in Types : Depth[t] < Deepest + 1 => Fits(g, t)
    BY <1>3
  <2>2. \A t \in Types : Depth[t] < Deepest + 1
    BY TypesAssumption
  <2> HIDE DEF Fits
  <2> QED
    BY <2>1, <2>2
<1> DEFINE f == [t \in Types |-> g[t]]
<1>5. ASSUME NEW t \in Types PROVE Fits(f, t)
  <2>1. [p \in Parts(t) |-> g[p]] = [p \in Parts(t) |-> f[p]]
    BY PartsAreTypes
  <2> QED
    BY <1>4, <2>1
<1>6. f = [t \in Types |-> ShowsFrom(t, [p \in Parts(t) |-> f[p]])]
  BY <1>5
<1>7. Shows = [t \in Types |-> ShowsFrom(t, [p \in Parts(t) |-> Shows[p]])]
  BY <1>6 DEF Shows, ShowsFrom
<1> QED
  BY <1>7

\* the leaves of a value
LEMMA LeavesIs == \A t \in Types : Leaves[t] = LeavesFrom(t, [p \in Parts(t) |-> Leaves[p]])
<1> DEFINE Fits(g, t) == g[t] = LeavesFrom(t, [p \in Parts(t) |-> g[p]])
           S == {n \in Nat : \E g : \A t \in Types : Depth[t] < n => Fits(g, t)}
<1>1. 0 \in S
  BY PartsAreTypes
<1>2. ASSUME NEW n \in Nat, n \in S PROVE n + 1 \in S
  <2>1. PICK g : \A t \in Types : Depth[t] < n => Fits(g, t)
    BY <1>2
  <2> DEFINE h == [t \in Types |-> LeavesFrom(t, [p \in Parts(t) |-> g[p]])]
  <2>2. ASSUME NEW t \in Types, Depth[t] < n + 1 PROVE Fits(h, t)
    <3>1. \A p \in Parts(t) : h[p] = g[p]
      BY <2>1, <2>2, PartsAreTypes
    <3>2. [p \in Parts(t) |-> g[p]] = [p \in Parts(t) |-> h[p]]
      BY <3>1
    <3> QED
      BY <3>2
  <2>3. \E f : \A t \in Types : Depth[t] < n + 1 => Fits(f, t)
    <3> HIDE DEF h, Fits
    <3> QED
      BY <2>2
  <2> QED
    BY <2>3
<1>3. Deepest + 1 \in S
  <2> HIDE DEF S
  <2> QED
    BY <1>1, <1>2, NatSetInduction, TypesAssumption
<1>4. PICK g : \A t \in Types : Fits(g, t)
  <2>1. PICK g : \A t \in Types : Depth[t] < Deepest + 1 => Fits(g, t)
    BY <1>3
  <2>2. \A t \in Types : Depth[t] < Deepest + 1
    BY TypesAssumption
  <2> HIDE DEF Fits
  <2> QED
    BY <2>1, <2>2
<1> DEFINE f == [t \in Types |-> g[t]]
<1>5. ASSUME NEW t \in Types PROVE Fits(f, t)
  <2>1. [p \in Parts(t) |-> g[p]] = [p \in Parts(t) |-> f[p]]
    BY PartsAreTypes
  <2> QED
    BY <1>4, <2>1
<1>6. f = [t \in Types |-> LeavesFrom(t, [p \in Parts(t) |-> f[p]])]
  BY <1>5
<1>7. Leaves = [t \in Types |-> LeavesFrom(t, [p \in Parts(t) |-> Leaves[p]])]
  BY <1>6 DEF Leaves, LeavesFrom
<1> QED
  BY <1>7

\* and the types within a type.
LEMMA WithinIs == \A t \in Types : Within[t] = WithinFrom(t, [p \in Parts(t) |-> Within[p]])
<1> DEFINE Fits(g, t) == g[t] = WithinFrom(t, [p \in Parts(t) |-> g[p]])
           S == {n \in Nat : \E g : \A t \in Types : Depth[t] < n => Fits(g, t)}
<1>1. 0 \in S
  BY PartsAreTypes
<1>2. ASSUME NEW n \in Nat, n \in S PROVE n + 1 \in S
  <2>1. PICK g : \A t \in Types : Depth[t] < n => Fits(g, t)
    BY <1>2
  <2> DEFINE h == [t \in Types |-> WithinFrom(t, [p \in Parts(t) |-> g[p]])]
  <2>2. ASSUME NEW t \in Types, Depth[t] < n + 1 PROVE Fits(h, t)
    <3>1. \A p \in Parts(t) : h[p] = g[p]
      BY <2>1, <2>2, PartsAreTypes
    <3>2. [p \in Parts(t) |-> g[p]] = [p \in Parts(t) |-> h[p]]
      BY <3>1
    <3> QED
      BY <3>2
  <2>3. \E f : \A t \in Types : Depth[t] < n + 1 => Fits(f, t)
    <3> HIDE DEF h, Fits
    <3> QED
      BY <2>2
  <2> QED
    BY <2>3
<1>3. Deepest + 1 \in S
  <2> HIDE DEF S
  <2> QED
    BY <1>1, <1>2, NatSetInduction, TypesAssumption
<1>4. PICK g : \A t \in Types : Fits(g, t)
  <2>1. PICK g : \A t \in Types : Depth[t] < Deepest + 1 => Fits(g, t)
    BY <1>3
  <2>2. \A t \in Types : Depth[t] < Deepest + 1
    BY TypesAssumption
  <2> HIDE DEF Fits
  <2> QED
    BY <2>1, <2>2
<1> DEFINE f == [t \in Types |-> g[t]]
<1>5. ASSUME NEW t \in Types PROVE Fits(f, t)
  <2>1. [p \in Parts(t) |-> g[p]] = [p \in Parts(t) |-> f[p]]
    BY PartsAreTypes
  <2> QED
    BY <1>4, <2>1
<1>6. f = [t \in Types |-> WithinFrom(t, [p \in Parts(t) |-> f[p]])]
  BY <1>5
<1>7. Within = [t \in Types |-> WithinFrom(t, [p \in Parts(t) |-> Within[p]])]
  BY <1>6 DEF Within, WithinFrom
<1> QED
  BY <1>7

-----------------------------------------------------------------------------
(***************************************************************************)
(* The levels of Rust and of Java values.                                  *)
(***************************************************************************)

\* The values of one level more.
RustOver(below) ==
  below \cup ({"some", "newtype", "bean"} \X below) \cup ({"seq", "struct"} \X Seq(below))
  \cup ({"map"} \X SUBSET (below \X below))
JavaOver(below) ==
  below \cup Collections(below)
  \cup ({"object"} \X (DOMAIN Classes) \X [AllProperties -> below])

\* The Rust values of a level are made of those below.
LEMMA RustAtIs ==
  \A n \in 0..(Deepest) : RustAt[n] = IF n = 0 THEN RustScalars ELSE RustOver(RustAt[n - 1])
<1> DEFINE Fits(g, n) == g[n] = IF n = 0 THEN RustScalars ELSE RustOver(g[n - 1])
           S == {n \in Nat : \E g : \A i \in 0..n : Fits(g, i)}
<1>1. 0 \in S
  <2> DEFINE g == [i \in {0} |-> RustScalars]
  <2>1. \A i \in 0..0 : Fits(g, i)
    OBVIOUS
  <2>2. \E f : \A i \in 0..0 : Fits(f, i)
    <3> HIDE DEF g, Fits
    <3> QED
      BY <2>1
  <2> QED
    BY <2>2
<1>2. ASSUME NEW n \in Nat, n \in S PROVE n + 1 \in S
  <2>1. PICK g : \A i \in 0..n : Fits(g, i)
    BY <1>2
  <2> DEFINE h == [i \in 0..(n + 1) |-> IF i = n + 1 THEN RustOver(g[n]) ELSE g[i]]
  <2>2. ASSUME NEW i \in 0..(n + 1) PROVE Fits(h, i)
    <3>1. CASE i = n + 1
      <4>1. h[i] = RustOver(g[n]) /\ h[i - 1] = g[n] /\ i # 0
        BY <3>1
      <4> QED
        BY <4>1
    <3>2. CASE i # n + 1
      <4>1. i \in 0..n /\ h[i] = g[i]
        BY <3>2
      <4>2. i # 0 => h[i - 1] = g[i - 1]
        BY <3>2
      <4> HIDE DEF h
      <4> QED
        BY <4>1, <4>2, <2>1
    <3> QED
      BY <3>1, <3>2
  <2>3. \E f : \A i \in 0..(n + 1) : Fits(f, i)
    <3> HIDE DEF h, Fits
    <3> QED
      BY <2>2
  <2> QED
    BY <2>3
<1>3. Deepest \in S /\ Deepest \in Nat
  <2> HIDE DEF S
  <2> QED
    BY <1>1, <1>2, NatSetInduction, TypesAssumption, MappingAssumption
<1>4. PICK g : \A n \in 0..(Deepest) : Fits(g, n)
  BY <1>3
<1> DEFINE f == [n \in 0..(Deepest) |-> g[n]]
<1>5. ASSUME NEW n \in 0..(Deepest) PROVE f[n] = IF n = 0 THEN RustScalars ELSE RustOver(f[n - 1])
  <2>1. f[n] = g[n] /\ (n # 0 => f[n - 1] = g[n - 1])
    BY <1>3
  <2> HIDE DEF f
  <2> QED
    BY <1>4, <2>1
<1>6. f = [n \in 0..(Deepest) |-> IF n = 0 THEN RustScalars ELSE RustOver(f[n - 1])]
  BY <1>5
<1>7. RustAt = [n \in 0..(Deepest) |-> IF n = 0 THEN RustScalars ELSE RustOver(RustAt[n - 1])]
  BY <1>6, Zenon DEF RustAt, RustOver
<1> QED
  BY <1>7

\* Fewer levels are among more.
LEMMA RustAtGrows ==
  ASSUME NEW m \in 0..(Deepest), NEW n \in 0..(Deepest), m <= n
  PROVE  RustAt[m] \subseteq RustAt[n]
<1> DEFINE S == {k \in Nat : m + k <= Deepest => RustAt[m] \subseteq RustAt[m + k]}
<1>1. 0 \in S
  OBVIOUS
<1>2. ASSUME NEW k \in Nat, k \in S PROVE k + 1 \in S
  <2> SUFFICES ASSUME m + (k + 1) <= Deepest PROVE RustAt[m] \subseteq RustAt[m + (k + 1)]
    OBVIOUS
  <2>1. m + (k + 1) \in 0..(Deepest) /\ m + (k + 1) # 0 /\ (m + (k + 1)) - 1 = m + k
    BY TypesAssumption, MappingAssumption
  <2>2. RustAt[m + (k + 1)] = RustOver(RustAt[m + k])
    BY <2>1, RustAtIs
  <2>3. RustAt[m + k] \subseteq RustAt[m + (k + 1)]
    BY <2>2 DEF RustOver
  <2>4. RustAt[m] \subseteq RustAt[m + k]
    BY <1>2, TypesAssumption, MappingAssumption
  <2> QED
    BY <2>3, <2>4
<1>3. n - m \in S /\ n - m \in Nat /\ m + (n - m) = n
  <2>1. Nat \subseteq S
    <3> HIDE DEF S
    <3> QED
      BY <1>1, <1>2, NatSetInduction
  <2> QED
    BY <2>1
<1> QED
  BY <1>3, TypesAssumption, MappingAssumption

\* So are the Java values.
LEMMA JavaAtIs ==
  \A n \in 0..(Height + Deepest) : JavaAt[n] = IF n = 0 THEN JavaScalars ELSE JavaOver(JavaAt[n - 1])
<1> DEFINE Fits(g, n) == g[n] = IF n = 0 THEN JavaScalars ELSE JavaOver(g[n - 1])
           S == {n \in Nat : \E g : \A i \in 0..n : Fits(g, i)}
<1>1. 0 \in S
  <2> DEFINE g == [i \in {0} |-> JavaScalars]
  <2>1. \A i \in 0..0 : Fits(g, i)
    OBVIOUS
  <2>2. \E f : \A i \in 0..0 : Fits(f, i)
    <3> HIDE DEF g, Fits
    <3> QED
      BY <2>1
  <2> QED
    BY <2>2
<1>2. ASSUME NEW n \in Nat, n \in S PROVE n + 1 \in S
  <2>1. PICK g : \A i \in 0..n : Fits(g, i)
    BY <1>2
  <2> DEFINE h == [i \in 0..(n + 1) |-> IF i = n + 1 THEN JavaOver(g[n]) ELSE g[i]]
  <2>2. ASSUME NEW i \in 0..(n + 1) PROVE Fits(h, i)
    <3>1. CASE i = n + 1
      <4>1. h[i] = JavaOver(g[n]) /\ h[i - 1] = g[n] /\ i # 0
        BY <3>1
      <4> QED
        BY <4>1
    <3>2. CASE i # n + 1
      <4>1. i \in 0..n /\ h[i] = g[i]
        BY <3>2
      <4>2. i # 0 => h[i - 1] = g[i - 1]
        BY <3>2
      <4> HIDE DEF h
      <4> QED
        BY <4>1, <4>2, <2>1
    <3> QED
      BY <3>1, <3>2
  <2>3. \E f : \A i \in 0..(n + 1) : Fits(f, i)
    <3> HIDE DEF h, Fits
    <3> QED
      BY <2>2
  <2> QED
    BY <2>3
<1>3. Height + Deepest \in S /\ Height + Deepest \in Nat
  <2> HIDE DEF S
  <2> QED
    BY <1>1, <1>2, NatSetInduction, TypesAssumption, MappingAssumption
<1>4. PICK g : \A n \in 0..(Height + Deepest) : Fits(g, n)
  BY <1>3
<1> DEFINE f == [n \in 0..(Height + Deepest) |-> g[n]]
<1>5. ASSUME NEW n \in 0..(Height + Deepest) PROVE f[n] = IF n = 0 THEN JavaScalars ELSE JavaOver(f[n - 1])
  <2>1. f[n] = g[n] /\ (n # 0 => f[n - 1] = g[n - 1])
    BY <1>3
  <2> HIDE DEF f
  <2> QED
    BY <1>4, <2>1
<1>6. f = [n \in 0..(Height + Deepest) |-> IF n = 0 THEN JavaScalars ELSE JavaOver(f[n - 1])]
  BY <1>5
<1>7. JavaAt = [n \in 0..(Height + Deepest) |-> IF n = 0 THEN JavaScalars ELSE JavaOver(JavaAt[n - 1])]
  BY <1>6, Zenon DEF JavaAt, JavaOver
<1> QED
  BY <1>7

\* Fewer levels are among more.
LEMMA JavaAtGrows ==
  ASSUME NEW m \in 0..(Height + Deepest), NEW n \in 0..(Height + Deepest), m <= n
  PROVE  JavaAt[m] \subseteq JavaAt[n]
<1> DEFINE S == {k \in Nat : m + k <= Height + Deepest => JavaAt[m] \subseteq JavaAt[m + k]}
<1>1. 0 \in S
  OBVIOUS
<1>2. ASSUME NEW k \in Nat, k \in S PROVE k + 1 \in S
  <2> SUFFICES ASSUME m + (k + 1) <= Height + Deepest PROVE JavaAt[m] \subseteq JavaAt[m + (k + 1)]
    OBVIOUS
  <2>1. m + (k + 1) \in 0..(Height + Deepest) /\ m + (k + 1) # 0 /\ (m + (k + 1)) - 1 = m + k
    BY TypesAssumption, MappingAssumption
  <2>2. JavaAt[m + (k + 1)] = JavaOver(JavaAt[m + k])
    BY <2>1, JavaAtIs
  <2>3. JavaAt[m + k] \subseteq JavaAt[m + (k + 1)]
    BY <2>2 DEF JavaOver
  <2>4. JavaAt[m] \subseteq JavaAt[m + k]
    BY <1>2, TypesAssumption, MappingAssumption
  <2> QED
    BY <2>3, <2>4
<1>3. n - m \in S /\ n - m \in Nat /\ m + (n - m) = n
  <2>1. Nat \subseteq S
    <3> HIDE DEF S
    <3> QED
      BY <1>1, <1>2, NatSetInduction
  <2> QED
    BY <2>1
<1> QED
  BY <1>3, TypesAssumption, MappingAssumption

\* The Java values under a Java value.
LEMMA JavaIsClosed ==
  ASSUME NEW j \in Java
  PROVE  \/ j \in JavaScalars
         \/ j \in Collections(Java)
         \/ j \in {"object"} \X (DOMAIN Classes) \X [AllProperties -> Java]
<1> DEFINE Shape(i) == \/ i \in JavaScalars
                       \/ i \in Collections(Java)
                       \/ i \in {"object"} \X (DOMAIN Classes) \X [AllProperties -> Java]
           S == {n \in Nat : n <= Height + Deepest => \A i \in JavaAt[n] : Shape(i)}
<1>0. Height + Deepest \in Nat
  BY TypesAssumption, MappingAssumption
<1>1. 0 \in S
  BY JavaAtIs, <1>0
<1>2. ASSUME NEW n \in Nat, n \in S PROVE n + 1 \in S
  <2> SUFFICES ASSUME n + 1 <= Height + Deepest, NEW i \in JavaAt[n + 1] PROVE Shape(i)
    OBVIOUS
  <2>1. n + 1 \in 0..(Height + Deepest) /\ n \in 0..(Height + Deepest) /\ (n + 1) - 1 = n /\ n + 1 # 0
    BY <1>0
  <2>2. JavaAt[n + 1] = JavaOver(JavaAt[n])
    BY <2>1, JavaAtIs
  <2>3. JavaAt[n] \subseteq Java
    BY <2>1, <1>0, JavaAtGrows DEF Java
  <2>4. CASE i \in JavaAt[n]
    BY <1>2, <2>1, <2>4
  <2>5. CASE i \in Collections(JavaAt[n])
    BY <2>5, <2>3 DEF Collections
  <2>6. CASE i \in {"object"} \X (DOMAIN Classes) \X [AllProperties -> JavaAt[n]]
    <3>1. [AllProperties -> JavaAt[n]] \subseteq [AllProperties -> Java]
      BY <2>3
    <3> QED
      BY <2>6, <3>1
  <2> QED
    BY <2>2, <2>4, <2>5, <2>6 DEF JavaOver
<1>3. Height + Deepest \in S
  <2> HIDE DEF S
  <2> QED
    BY <1>0, <1>1, <1>2, NatSetInduction
<1> QED
  BY <1>3 DEF Java

\* A list has Java values, and so have a map and an object.
LEMMA ListElements ==
  ASSUME NEW j \in Java, j[1] = "ArrayList"
  PROVE  /\ j[2] \in Seq(Java) /\ j = <<"ArrayList", j[2]>>
         /\ DOMAIN j[2] = 1..Len(j[2]) /\ Len(j[2]) \in Nat
         /\ \A i \in DOMAIN j[2] : j[2][i] \in Java
<1>1. j \notin JavaScalars
  BY DEF JavaScalars, Null
<1>2. j \in Collections(Java)
  BY <1>1, JavaIsClosed
<1>3. j \in {"ArrayList"} \X Seq(Java)
  BY <1>2 DEF Collections
<1> QED
  BY <1>3

\* A map has pairs of Java values.
LEMMA MapEntries ==
  ASSUME NEW j \in Java, j[1] = "HashMap"
  PROVE  /\ j[2] \subseteq Java \X Java /\ j = <<"HashMap", j[2]>>
         /\ \A e \in j[2] : e[1] \in Java /\ e[2] \in Java /\ e = <<e[1], e[2]>>
<1>1. j \notin JavaScalars
  BY DEF JavaScalars, Null
<1>2. j \in Collections(Java)
  BY <1>1, JavaIsClosed
<1>3. j \in {"HashMap"} \X SUBSET (Java \X Java)
  BY <1>2 DEF Collections
<1> QED
  BY <1>3

\* An object has Java values as its properties.
LEMMA ObjectProperties ==
  ASSUME NEW j \in Java, j[1] = "object"
  PROVE  j[2] \in DOMAIN Classes /\ j[3] \in [AllProperties -> Java]
<1>1. j \notin JavaScalars
  BY DEF JavaScalars, Null
<1>2. j \notin Collections(Java)
  BY DEF Collections
<1> QED
  BY <1>1, <1>2, JavaIsClosed

\* What is in a wrapper or a string.
LEMMA ScalarContents ==
  ASSUME NEW j \in Java
  PROVE  /\ j[1] = "Byte" => j[2] \in IntRange("i8")
         /\ j[1] \in NumberClasses \cup FloatClasses => j[2] \in Numbers
         /\ j[1] = "Float" => j[2] \in Floats("f32")
         /\ j[1] = "Double" => j[2] \in Floats("f64")
         /\ j[1] = "Boolean" => j[2] \in BOOLEAN /\ j = <<"Boolean", j[2]>>
         /\ j[1] = "Character" => j[2] \in Characters \cup Surrogates
         /\ j[1] = "String" => j[2] \in Texts
         /\ ~Failed(j)
<1>1. /\ IntRange("i8") \subseteq Numbers /\ IntRange("i32") \subseteq Numbers
      /\ IntRange("i64") \subseteq Numbers
      /\ Floats("f32") \subseteq Numbers /\ Floats("f64") \subseteq Numbers
  BY FloatsAssumption DEF IntegerTypes, Signed, Floats
<1>2. CASE j \in JavaScalars
  BY <1>1, <1>2 DEF JavaScalars, Null, NumberClasses, FloatClasses, Failed
<1>3. CASE j \in Collections(Java)
  BY <1>3 DEF Collections, NumberClasses, FloatClasses, Failed
<1>4. CASE j \in {"object"} \X (DOMAIN Classes) \X [AllProperties -> Java]
  BY <1>4 DEF NumberClasses, FloatClasses, Failed
<1> QED
  BY <1>2, <1>3, <1>4, JavaIsClosed

\* The shape of a type.
LEMMA TypeShape ==
  ASSUME NEW t \in Types
  PROVE  /\ t.k \in Atomic \cup {"option", "newtype", "seq", "tuple", "map", "bean", "struct"}
         /\ t.k \in {"option", "newtype", "seq", "map", "bean"} => t.of \in Parts(t)
         /\ t.k = "tuple" => t.parts \in Seq(Types) /\ \A i \in DOMAIN t.parts : t.parts[i] \in Parts(t)
         /\ t.k = "map" => t.key \in Parts(t) /\ t.key.k \in Atomic
         /\ t.k = "bean" => t.class \in Texts
         /\ t.k = "struct" =>
              /\ t.fields \in Seq([name : Texts, type : Types])
              /\ \A i, j \in DOMAIN t.fields : t.fields[i].name = t.fields[j].name => i = j
              /\ \A i \in DOMAIN t.fields : /\ t.fields[i].type \in Parts(t)
                                            /\ t.fields[i].name \in Texts
                                            /\ t.fields[i].name \in DOMAIN CamelCase
         /\ t.k \notin Atomic => Depth[t] > 0
<1>1. IsType(t) /\ (t.k \in Atomic \/ Depth[t] > 0)
  BY TypesAssumption
<1> USE DEF Parts
<1>2. CASE t \in [k : Atomic]
  BY <1>1, <1>2 DEF Atomic, ScalarTypes, IntegerTypes, FloatTypes, Signed
<1>3. CASE t \in [k : {"option", "newtype", "seq"}, of : Types]
  BY <1>1, <1>3
<1>4. CASE t \in [k : {"tuple"}, parts : Seq(Types)]
  BY <1>1, <1>4
<1>5. CASE t \in [k : {"map"}, key : {p \in Types : p.k \in Atomic}, of : Types]
  BY <1>1, <1>5
<1>6. CASE t \in [k : {"bean"}, of : Types, class : Texts]
  <2>1. DOMAIN Fields(t) = 1..2 /\ Fields(t)[2].type = t.of
    BY <1>6 DEF Fields
  <2> QED
    BY <1>1, <1>6, <2>1
<1>7. CASE /\ t \in [k : {"struct"}, fields : Seq([name : Texts, type : Types])]
           /\ \A i, j \in DOMAIN t.fields : t.fields[i].name = t.fields[j].name => i = j
  <2>1. t.k = "struct" /\ Fields(t) = t.fields
    BY <1>7 DEF Fields
  <2>2. \A i \in DOMAIN t.fields : t.fields[i].type \in Parts(t)
    BY <2>1
  <2>3. \A i \in DOMAIN t.fields : t.fields[i] \in [name : Texts, type : Types]
    <3> DEFINE F == [name : Texts, type : Types]
    <3>1. t.fields \in Seq(F)
      BY <1>7
    <3> HIDE DEF F
    <3>2. \A i \in DOMAIN t.fields : t.fields[i] \in F
      BY <3>1
    <3> QED
      BY <3>2 DEF F
  <2> QED
    BY <1>1, <1>7, <2>1, <2>2, <2>3, MappingAssumption
<1> QED
  BY <1>1, <1>2, <1>3, <1>4, <1>5, <1>6, <1>7 DEF IsType

-----------------------------------------------------------------------------
(***************************************************************************)
(* The values of each kind of type.                                        *)
(***************************************************************************)

\* A function on 1..n is a sequence.
LEMMA SequenceOf ==
  ASSUME NEW S, NEW n \in Nat, NEW s, s = [i \in 1..n |-> s[i]], \A i \in 1..n : s[i] \in S
  PROVE  s \in Seq(S) /\ Len(s) = n
<1>1. s \in [1..n -> S]
  OBVIOUS
<1> QED
  BY <1>1, SeqDef

\* Scalars and enums hold nothing that is a value of another type.
LEMMA AtomValues ==
  ASSUME NEW t \in Types
  PROVE  /\ t.k \in IntegerTypes => Values[t] = {"int"} \X IntRange(t.k)
         /\ t.k \in FloatTypes => Values[t] = {"float"} \X Floats(t.k)
         /\ t.k = "bool" => Values[t] = {"bool"} \X BOOLEAN
         /\ t.k = "char" => Values[t] = {"char"} \X Characters
         /\ t.k = "str" => Values[t] = {"str"} \X Texts
         /\ t.k = "unit" => Values[t] = {<<"unit">>}
         /\ t.k = "enum" => Values[t] = {<<"variant">>}
<1>1. PICK values : Values[t] = ValuesOf(t, values)
  BY ValuesIs
<1> QED
  BY <1>1 DEF ValuesOf, IntegerTypes, FloatTypes, Signed

\* An Option is nothing or something of its type.
LEMMA OptionValues ==
  ASSUME NEW t \in Types, t.k = "option"
  PROVE  Values[t] = {NoneValue} \cup ({"some"} \X Values[t.of])
<1>1. t.of \in Parts(t)
  BY TypeShape
<1> QED
  BY <1>1, ValuesIs DEF ValuesOf, IntegerTypes, FloatTypes, Signed

\* A newtype and a JavaBean hold a value.
LEMMA WrapperValues ==
  ASSUME NEW t \in Types, t.k \in {"newtype", "bean"}
  PROVE  Values[t] = {t.k} \X Values[t.of]
<1>1. t.of \in Parts(t)
  BY TypeShape
<1> QED
  BY <1>1, ValuesIs DEF ValuesOf, IntegerTypes, FloatTypes, Signed

\* A sequence has values of one type.
LEMMA SeqValues ==
  ASSUME NEW t \in Types, t.k = "seq"
  PROVE  Values[t] = {"seq"} \X Seq(Values[t.of])
<1>1. t.of \in Parts(t)
  BY TypeShape
<1> QED
  BY <1>1, ValuesIs DEF ValuesOf, IntegerTypes, FloatTypes, Signed

\* A map has a value for each of its keys.
LEMMA MapValues ==
  ASSUME NEW t \in Types, t.k = "map"
  PROVE  Values[t] = {"map"} \X {m \in SUBSET (Values[t.key] \X Values[t.of]) :
                                   \A e, f \in m : e[1] = f[1] => e = f}
<1>1. t.of \in Parts(t) /\ t.key \in Parts(t)
  BY TypeShape
<1> DEFINE values == [p \in Parts(t) |-> Values[p]]
<1>2. values[t.of] = Values[t.of] /\ values[t.key] = Values[t.key]
  BY <1>1
<1>3. Values[t] = ValuesOf(t, values)
  BY ValuesIs
<1> HIDE DEF values
<1> QED
  BY <1>2, <1>3 DEF ValuesOf, IntegerTypes, FloatTypes, Signed

\* A tuple has a value for each of its types,
LEMMA TupleValues ==
  ASSUME NEW t \in Types, t.k = "tuple"
  PROVE  Values[t] = {"seq"} \X {s \in Seq(RustAt[Depth[t]]) :
                                   /\ DOMAIN s = DOMAIN t.parts
                                   /\ \A i \in DOMAIN s : s[i] \in Values[t.parts[i]]}
<1> DEFINE values == [p \in Parts(t) |-> Values[p]]
<1>1. \A i \in DOMAIN t.parts : values[t.parts[i]] = Values[t.parts[i]]
  BY TypeShape
<1>2. Values[t] = ValuesOf(t, values)
  BY ValuesIs
<1> DEFINE of(vs) == {s \in Seq(RustAt[Depth[t]]) :
                        /\ DOMAIN s = DOMAIN t.parts
                        /\ \A i \in DOMAIN s : s[i] \in vs[t.parts[i]]}
           own == {s \in Seq(RustAt[Depth[t]]) :
                     /\ DOMAIN s = DOMAIN t.parts
                     /\ \A i \in DOMAIN s : s[i] \in Values[t.parts[i]]}
<1> HIDE DEF values
<1>3. of(values) = own
  BY <1>1
<1>4. Values[t] = {"seq"} \X of(values)
  BY <1>2 DEF ValuesOf, IntegerTypes, FloatTypes, Signed
<1> QED
  BY <1>3, <1>4

\* and a struct for each of its fields.
LEMMA StructValues ==
  ASSUME NEW t \in Types, t.k = "struct"
  PROVE  Values[t] = {"struct"} \X {s \in Seq(RustAt[Depth[t]]) :
                                      /\ DOMAIN s = DOMAIN t.fields
                                      /\ \A i \in DOMAIN s : s[i] \in Values[t.fields[i].type]}
<1> DEFINE values == [p \in Parts(t) |-> Values[p]]
<1>1. \A i \in DOMAIN t.fields : values[t.fields[i].type] = Values[t.fields[i].type]
  BY TypeShape
<1>2. Values[t] = ValuesOf(t, values)
  BY ValuesIs
<1> DEFINE of(vs) == {s \in Seq(RustAt[Depth[t]]) :
                        /\ DOMAIN s = DOMAIN t.fields
                        /\ \A i \in DOMAIN s : s[i] \in vs[t.fields[i].type]}
           own == {s \in Seq(RustAt[Depth[t]]) :
                     /\ DOMAIN s = DOMAIN t.fields
                     /\ \A i \in DOMAIN s : s[i] \in Values[t.fields[i].type]}
<1> HIDE DEF values
<1>3. of(values) = own
  BY <1>1
<1>4. Values[t] = {"struct"} \X of(values)
  BY <1>2 DEF ValuesOf, IntegerTypes, FloatTypes, Signed
<1> QED
  BY <1>3, <1>4

\* A value of a type is as deep as the type.
LEMMA ValuesAreRust == \A t \in Types : Values[t] \subseteq RustAt[Depth[t]]
<1> DEFINE Good == {t \in Types : Values[t] \subseteq RustAt[Depth[t]]}
<1>1. ASSUME NEW t \in Types, \A p \in Parts(t) : p \in Good PROVE t \in Good
  <2> SUFFICES ASSUME NEW v \in Values[t] PROVE v \in RustAt[Depth[t]]
    OBVIOUS
  <2>1. CASE t.k \in Atomic
    <3>1. RustScalars \subseteq RustAt[Depth[t]]
      <4>1. RustAt[0] \subseteq RustAt[Depth[t]]
        BY PartsAreTypes, RustAtGrows, TypesAssumption
      <4> QED
        BY <4>1, RustAtIs, TypesAssumption
    <3>2. /\ \A k \in IntegerTypes : IntRange(k) \subseteq Numbers
          /\ \A k \in FloatTypes : Floats(k) \subseteq Numbers
      BY FloatsAssumption DEF Floats
    <3>3. v \in RustScalars
      BY <2>1, <3>2, AtomValues, ScalarsAssumption
      DEF Atomic, ScalarTypes, FloatTypes, RustScalars
    <3> QED
      BY <3>1, <3>3
  <2>2. CASE t.k \notin Atomic
    <3> DEFINE below == RustAt[Depth[t] - 1]
    <3>1. RustAt[Depth[t]] = RustOver(below)
      BY <2>2, TypeShape, PartsAreTypes, RustAtIs
    <3>2. ASSUME NEW p \in Parts(t) PROVE Values[p] \subseteq below
      <4>1. RustAt[Depth[p]] \subseteq below
        BY PartsAreTypes, RustAtGrows, TypesAssumption
      <4> QED
        BY <4>1, <1>1, PartsAreTypes
    <3> HIDE DEF below
    <3>3. CASE t.k = "option"
      <4>1. NoneValue \in below
        <5>1. RustScalars \subseteq below
          <6>1. Depth[t] - 1 \in 0..Deepest
            BY <2>2, TypeShape, PartsAreTypes, TypesAssumption
          <6>2. RustAt[0] \subseteq below
            BY <6>1, RustAtGrows, TypesAssumption DEF below
          <6> QED
            BY <6>2, RustAtIs, TypesAssumption
        <5> QED
          BY <5>1 DEF RustScalars
      <4> QED
        BY <3>1, <3>2, <3>3, <4>1, OptionValues, TypeShape DEF RustOver
    <3>4. CASE t.k \in {"newtype", "bean"}
      BY <3>1, <3>2, <3>4, WrapperValues, TypeShape DEF RustOver
    <3>5. CASE t.k = "seq"
      <4>1. Values[t.of] \subseteq below
        BY <3>2, <3>5, TypeShape
      <4>2. Seq(Values[t.of]) \subseteq Seq(below)
        BY <4>1
      <4> QED
        BY <3>1, <3>5, <4>2, SeqValues DEF RustOver
    <3>6. CASE t.k = "map"
      BY <3>1, <3>2, <3>6, MapValues, TypeShape DEF RustOver
    <3>7. CASE t.k = "tuple"
      <4>1. PICK s \in Seq(RustAt[Depth[t]]) :
              /\ v = <<"seq", s>> /\ DOMAIN s = DOMAIN t.parts
              /\ \A i \in DOMAIN s : s[i] \in Values[t.parts[i]]
        BY <3>7, TupleValues
      <4>2. \A i \in DOMAIN s : s[i] \in below
        BY <3>2, <3>7, <4>1, TypeShape
      <4>3. s \in Seq(below)
        BY <4>2
      <4> QED
        BY <3>1, <4>1, <4>3 DEF RustOver
    <3>8. CASE t.k = "struct"
      <4>1. PICK s \in Seq(RustAt[Depth[t]]) :
              /\ v = <<"struct", s>> /\ DOMAIN s = DOMAIN t.fields
              /\ \A i \in DOMAIN s : s[i] \in Values[t.fields[i].type]
        BY <3>8, StructValues
      <4>2. \A i \in DOMAIN s : s[i] \in below
        BY <3>2, <3>8, <4>1, TypeShape
      <4>3. s \in Seq(below)
        BY <4>2
      <4> QED
        BY <3>1, <4>1, <4>3 DEF RustOver
    <3> QED
      BY <2>2, <3>3, <3>4, <3>5, <3>6, <3>7, <3>8, TypeShape
  <2> QED
    BY <2>1, <2>2
<1> HIDE DEF Good
<1>2. Types \subseteq Good
  BY <1>1, TypeInduction
<1> QED
  BY <1>2 DEF Good

\* A sequence of values of the parts is a value of the tuple or the struct.
LEMMA TupleOfValues ==
  ASSUME NEW t \in Types, t.k = "tuple",
         NEW s, s = [i \in DOMAIN t.parts |-> s[i]],
         \A i \in DOMAIN t.parts : s[i] \in Values[t.parts[i]]
  PROVE  <<"seq", s>> \in Values[t]
<1>1. \A i \in DOMAIN t.parts : s[i] \in RustAt[Depth[t]]
  <2> SUFFICES ASSUME NEW i \in DOMAIN t.parts PROVE s[i] \in RustAt[Depth[t]]
    OBVIOUS
  <2>1. t.parts[i] \in Parts(t)
    BY TypeShape
  <2>2. RustAt[Depth[t.parts[i]]] \subseteq RustAt[Depth[t]]
    BY <2>1, PartsAreTypes, RustAtGrows
  <2> QED
    BY <2>1, <2>2, PartsAreTypes, ValuesAreRust
<1>2. s \in Seq(RustAt[Depth[t]])
  <2>1. Len(t.parts) \in Nat /\ DOMAIN t.parts = 1..Len(t.parts)
    BY TypeShape
  <2> DEFINE values == RustAt[Depth[t]]
  <2>2. \A i \in DOMAIN t.parts : s[i] \in values
    BY <1>1
  <2> HIDE DEF values
  <2>3. s \in Seq(values)
    BY <2>1, <2>2, SequenceOf
  <2> QED
    BY <2>3 DEF values
<1> QED
  BY <1>2, TupleValues

\* The same of a struct.
LEMMA StructOfValues ==
  ASSUME NEW t \in Types, t.k = "struct",
         NEW s, s = [i \in DOMAIN t.fields |-> s[i]],
         \A i \in DOMAIN t.fields : s[i] \in Values[t.fields[i].type]
  PROVE  <<"struct", s>> \in Values[t]
<1>1. \A i \in DOMAIN t.fields : s[i] \in RustAt[Depth[t]]
  <2> SUFFICES ASSUME NEW i \in DOMAIN t.fields PROVE s[i] \in RustAt[Depth[t]]
    OBVIOUS
  <2>1. t.fields[i].type \in Parts(t)
    BY TypeShape
  <2>2. RustAt[Depth[t.fields[i].type]] \subseteq RustAt[Depth[t]]
    BY <2>1, PartsAreTypes, RustAtGrows
  <2> QED
    BY <2>1, <2>2, PartsAreTypes, ValuesAreRust
<1>2. s \in Seq(RustAt[Depth[t]])
  <2>1. Len(t.fields) \in Nat /\ DOMAIN t.fields = 1..Len(t.fields)
    BY TypeShape
  <2> DEFINE values == RustAt[Depth[t]]
  <2>2. \A i \in DOMAIN t.fields : s[i] \in values
    BY <1>1
  <2> HIDE DEF values
  <2>3. s \in Seq(values)
    BY <2>1, <2>2, SequenceOf
  <2> QED
    BY <2>3 DEF values
<1> QED
  BY <1>2, StructValues

\* What a value of each kind of type holds.
LEMMA ValueShape ==
  ASSUME NEW t \in Types, NEW v \in Values[t]
  PROVE  /\ t.k = "option" => v = NoneValue \/ (v[2] \in Values[t.of] /\ v = <<"some", v[2]>>)
         /\ t.k \in {"newtype", "bean"} => v[2] \in Values[t.of] /\ v = <<t.k, v[2]>>
         /\ t.k = "seq" =>
              /\ v = <<"seq", v[2]>> /\ Len(v[2]) \in Nat /\ DOMAIN v[2] = 1..Len(v[2])
              /\ v[2] = [i \in DOMAIN v[2] |-> v[2][i]]
              /\ \A i \in DOMAIN v[2] : v[2][i] \in Values[t.of]
         /\ t.k = "tuple" =>
              /\ v = <<"seq", v[2]>> /\ v[2] = [i \in DOMAIN t.parts |-> v[2][i]]
              /\ \A i \in DOMAIN t.parts : v[2][i] \in Values[t.parts[i]]
         /\ t.k = "map" =>
              /\ v = <<"map", v[2]>>
              /\ \A e \in v[2] : /\ e[1] \in Values[t.key] /\ e[2] \in Values[t.of]
                                 /\ e = <<e[1], e[2]>>
              /\ \A e, f \in v[2] : e[1] = f[1] => e = f
         /\ t.k = "struct" =>
              /\ v = <<"struct", v[2]>> /\ v[2] = [i \in DOMAIN t.fields |-> v[2][i]]
              /\ \A i \in DOMAIN t.fields : v[2][i] \in Values[t.fields[i].type]
<1>1. t.k = "option" => v = NoneValue \/ (v[2] \in Values[t.of] /\ v = <<"some", v[2]>>)
  BY OptionValues
<1>2. t.k \in {"newtype", "bean"} => v[2] \in Values[t.of] /\ v = <<t.k, v[2]>>
  BY WrapperValues
<1>3. ASSUME t.k = "seq"
      PROVE  /\ v = <<"seq", v[2]>> /\ Len(v[2]) \in Nat /\ DOMAIN v[2] = 1..Len(v[2])
             /\ v[2] = [i \in DOMAIN v[2] |-> v[2][i]]
             /\ \A i \in DOMAIN v[2] : v[2][i] \in Values[t.of]
  <2> DEFINE elements == Values[t.of]
  <2>1. v \in {"seq"} \X Seq(elements)
    BY <1>3, SeqValues
  <2> HIDE DEF elements
  <2>2. PICK s \in Seq(elements) : v = <<"seq", s>>
    BY <2>1
  <2>3. s = [i \in DOMAIN s |-> s[i]] /\ Len(s) \in Nat /\ DOMAIN s = 1..Len(s)
    BY <2>2
  <2>4. \A i \in DOMAIN s : s[i] \in elements
    BY <2>2
  <2> QED
    BY <2>2, <2>3, <2>4 DEF elements
<1>4. ASSUME t.k = "tuple"
      PROVE  /\ v = <<"seq", v[2]>> /\ v[2] = [i \in DOMAIN t.parts |-> v[2][i]]
             /\ \A i \in DOMAIN t.parts : v[2][i] \in Values[t.parts[i]]
  <2> DEFINE values == RustAt[Depth[t]]
  <2>1. PICK s \in Seq(values) :
          /\ v = <<"seq", s>> /\ DOMAIN s = DOMAIN t.parts
          /\ \A i \in DOMAIN s : s[i] \in Values[t.parts[i]]
    BY <1>4, TupleValues
  <2> HIDE DEF values
  <2>2. s = [i \in DOMAIN s |-> s[i]]
    BY <2>1
  <2> QED
    BY <2>1, <2>2
<1>5. ASSUME t.k = "map"
      PROVE  /\ v = <<"map", v[2]>>
             /\ \A e \in v[2] : /\ e[1] \in Values[t.key] /\ e[2] \in Values[t.of]
                                /\ e = <<e[1], e[2]>>
             /\ \A e, f \in v[2] : e[1] = f[1] => e = f
  BY <1>5, MapValues
<1>6. ASSUME t.k = "struct"
      PROVE  /\ v = <<"struct", v[2]>> /\ v[2] = [i \in DOMAIN t.fields |-> v[2][i]]
             /\ \A i \in DOMAIN t.fields : v[2][i] \in Values[t.fields[i].type]
  <2> DEFINE values == RustAt[Depth[t]]
  <2>1. PICK s \in Seq(values) :
          /\ v = <<"struct", s>> /\ DOMAIN s = DOMAIN t.fields
          /\ \A i \in DOMAIN s : s[i] \in Values[t.fields[i].type]
    BY <1>6, StructValues
  <2> HIDE DEF values
  <2>2. s = [i \in DOMAIN s |-> s[i]]
    BY <2>1
  <2> QED
    BY <2>1, <2>2
<1> QED
  BY <1>1, <1>2, <1>3, <1>4, <1>5, <1>6

\* What a struct or a JavaBean serializes as its fields.
LEMMA FieldsOf ==
  ASSUME NEW t \in Types, t.k \in {"struct", "bean"}
  PROVE  /\ Len(Fields(t)) \in Nat /\ DOMAIN Fields(t) = 1..Len(Fields(t))
         /\ \A i \in DOMAIN Fields(t) : /\ Fields(t)[i].name \in Texts
                                        /\ Fields(t)[i].name \in DOMAIN CamelCase
                                        /\ Fields(t)[i].type \in Parts(t)
         /\ \A i, j \in DOMAIN Fields(t) : Fields(t)[i].name = Fields(t)[j].name => i = j
         /\ \A v \in Values[t] : \A i \in DOMAIN Fields(t) :
              FieldValues(t, v)[i] \in Values[Fields(t)[i].type]
<1>1. CASE t.k = "struct"
  <2>1. Fields(t) = t.fields /\ \A v : FieldValues(t, v) = v[2]
    BY <1>1 DEF Fields, FieldValues
  <2>2. Len(t.fields) \in Nat /\ DOMAIN t.fields = 1..Len(t.fields)
    BY <1>1, TypeShape
  <2>3. \A i \in DOMAIN t.fields : /\ t.fields[i].name \in Texts
                                   /\ t.fields[i].name \in DOMAIN CamelCase
                                   /\ t.fields[i].type \in Parts(t)
    BY <1>1, TypeShape
  <2>4. \A i, j \in DOMAIN t.fields : t.fields[i].name = t.fields[j].name => i = j
    BY <1>1, TypeShape
  <2>5. \A v \in Values[t] : \A i \in DOMAIN t.fields : v[2][i] \in Values[t.fields[i].type]
    BY <1>1, ValueShape
  <2> QED
    BY <2>1, <2>2, <2>3, <2>4, <2>5
<1>2. CASE t.k = "bean"
  <2>1. Fields(t) = <<[name |-> ClassKey, type |-> [k |-> "str"]], [name |-> ValueKey, type |-> t.of]>>
    BY <1>2 DEF Fields
  <2>2. \A i \in DOMAIN Fields(t) : Fields(t)[i].type \in Parts(t)
    BY <1>2 DEF Parts
  <2>3. ClassKey # ValueKey
    BY DEF ClassKey, ValueKey
  <2>4. ASSUME NEW v \in Values[t], NEW i \in DOMAIN Fields(t)
        PROVE  FieldValues(t, v)[i] \in Values[Fields(t)[i].type]
    <3>1. FieldValues(t, v) = <<<<"str", t.class>>, v[2]>>
      BY <1>2 DEF FieldValues
    <3>2. CASE i = 1
      <4>1. Fields(t)[1].type = [k |-> "str"] /\ [k |-> "str"] \in Types
        BY <2>1, <2>2, <3>2, PartsAreTypes
      <4>2. Values[[k |-> "str"]] = {"str"} \X Texts
        BY <4>1, AtomValues
      <4> QED
        BY <1>2, <3>1, <3>2, <4>1, <4>2, TypeShape
    <3>3. CASE i = 2
      <4>1. Fields(t)[2].type = t.of /\ FieldValues(t, v)[2] = v[2]
        BY <2>1, <3>1
      <4>2. v[2] \in Values[t.of]
        BY <1>2, ValueShape
      <4> QED
        BY <3>3, <4>1, <4>2
    <3> QED
      BY <2>1, <3>2, <3>3
  <2> QED
    BY <2>1, <2>2, <2>3, <2>4, ScalarsAssumption, MappingAssumption
<1> QED
  BY <1>1, <1>2

-----------------------------------------------------------------------------
(***************************************************************************)
(* What the serializers do with each kind of type.                         *)
(***************************************************************************)

\* JavaSerializer.
LEMMA SerKinds ==
  ASSUME NEW t \in Types, NEW v \in Values[t]
  PROVE  /\ t.k \in ScalarTypes => Ser[t][v] = SerScalar(t.k, v)
         /\ t.k = "enum" => Ser[t][v] = Error("unsupported")
         /\ t.k = "option" => Ser[t][v] = IF v = NoneValue THEN Null ELSE Ser[t.of][v[2]]
         /\ t.k = "newtype" => Ser[t][v] = Ser[t.of][v[2]]
         /\ t.k = "seq" => Ser[t][v] = ArrayList([i \in DOMAIN v[2] |-> Ser[t.of][v[2][i]]])
         /\ t.k = "tuple" =>
              Ser[t][v] = ArrayList([i \in DOMAIN t.parts |-> Ser[t.parts[i]][v[2][i]]])
         /\ t.k = "map" =>
              Ser[t][v] = HashMap({<<Ser[t.key][e[1]], Ser[t.of][e[2]]>> : e \in v[2]})
         /\ t.k \in {"struct", "bean"} =>
              Ser[t][v] = HashMap({<<JavaString(Fields(t)[i].name),
                                     Ser[Fields(t)[i].type][FieldValues(t, v)[i]]>> :
                                       i \in DOMAIN Fields(t)})
<1> DEFINE ser == [p \in Parts(t) |-> Ser[p]]
<1>1. \A p \in Parts(t) : ser[p] = Ser[p]
  OBVIOUS
<1>2. Ser[t][v] = SerOf(t, ser, v)
  BY SerIs DEF SerFrom
<1> HIDE DEF ser
<1>3. t.k \in ScalarTypes => Ser[t][v] = SerScalar(t.k, v)
  BY <1>2 DEF SerOf, ScalarTypes, IntegerTypes, FloatTypes, Signed
<1>4. t.k = "enum" => Ser[t][v] = Error("unsupported")
  BY <1>2 DEF SerOf, ScalarTypes, IntegerTypes, FloatTypes, Signed
<1>5. t.k = "option" => Ser[t][v] = IF v = NoneValue THEN Null ELSE Ser[t.of][v[2]]
  BY <1>1, <1>2, TypeShape DEF SerOf, ScalarTypes, IntegerTypes, FloatTypes, Signed
<1>6. t.k = "newtype" => Ser[t][v] = Ser[t.of][v[2]]
  BY <1>1, <1>2, TypeShape DEF SerOf, ScalarTypes, IntegerTypes, FloatTypes, Signed
<1>7. t.k = "seq" => Ser[t][v] = ArrayList([i \in DOMAIN v[2] |-> Ser[t.of][v[2][i]]])
  BY <1>1, <1>2, TypeShape DEF SerOf, ScalarTypes, IntegerTypes, FloatTypes, Signed
<1>8. ASSUME t.k = "tuple"
      PROVE  Ser[t][v] = ArrayList([i \in DOMAIN t.parts |-> Ser[t.parts[i]][v[2][i]]])
  <2>1. Ser[t][v] = ArrayList([i \in DOMAIN t.parts |-> ser[t.parts[i]][v[2][i]]])
    BY <1>2, <1>8 DEF SerOf, ScalarTypes, IntegerTypes, FloatTypes, Signed
  <2>2. \A i \in DOMAIN t.parts : ser[t.parts[i]] = Ser[t.parts[i]]
    BY <1>1, <1>8, TypeShape
  <2>3. [i \in DOMAIN t.parts |-> ser[t.parts[i]][v[2][i]]]
          = [i \in DOMAIN t.parts |-> Ser[t.parts[i]][v[2][i]]]
    BY <2>2
  <2> QED
    BY <2>1, <2>3
<1>9. ASSUME t.k = "map"
      PROVE  Ser[t][v] = HashMap({<<Ser[t.key][e[1]], Ser[t.of][e[2]]>> : e \in v[2]})
  <2>1. ser[t.key] = Ser[t.key] /\ ser[t.of] = Ser[t.of]
    BY <1>1, <1>9, TypeShape
  <2>2. Ser[t][v] = HashMap({<<ser[t.key][e[1]], ser[t.of][e[2]]>> : e \in v[2]})
    BY <1>2, <1>9 DEF SerOf, ScalarTypes, IntegerTypes, FloatTypes, Signed
  <2> QED
    BY <2>1, <2>2
<1>10. ASSUME t.k \in {"struct", "bean"}
       PROVE  Ser[t][v] = HashMap({<<JavaString(Fields(t)[i].name),
                                     Ser[Fields(t)[i].type][FieldValues(t, v)[i]]>> :
                                       i \in DOMAIN Fields(t)})
  <2> DEFINE entries(f) == {<<JavaString(Fields(t)[i].name),
                              f[Fields(t)[i].type][FieldValues(t, v)[i]]>> : i \in DOMAIN Fields(t)}
  <2>1. Ser[t][v] = HashMap(entries(ser))
    BY <1>2, <1>10 DEF SerOf, ScalarTypes, IntegerTypes, FloatTypes, Signed
  <2>2. \A i \in DOMAIN Fields(t) : ser[Fields(t)[i].type] = Ser[Fields(t)[i].type]
    BY <1>1, <1>10, FieldsOf
  <2>3. entries(ser) = entries(Ser)
    BY <2>2
  <2> QED
    BY <2>1, <2>3
<1> QED
  BY <1>3, <1>4, <1>5, <1>6, <1>7, <1>8, <1>9, <1>10

\* The serializers of bean.rs.
LEMMA WriterKinds ==
  ASSUME NEW t \in Types, NEW v \in Values[t]
  PROVE  /\ t.k = "option" /\ v # NoneValue =>
              Writer[t].property[v] = Writer[t.of].property[v[2]]
         /\ t.k = "newtype" => /\ Writer[t].property[v] = Writer[t.of].property[v[2]]
                               /\ Writer[t].nested[v] = Writer[t.of].nested[v[2]]
                               /\ Writer[t].bean[v] = Writer[t.of].bean[v[2]]
         /\ t.k = "bean" => Writer[t].property[v] = Build(t.class, Writer[t.of].nested[v[2]])
         /\ t.k \notin {"newtype", "bean"} /\ (t.k = "option" => v = NoneValue) =>
              Writer[t].property[v] = Ser[t][v]
         /\ t.k = "struct" => Writer[t].nested[v] = Pairs(t, Writer, v)
         /\ t.k \in {"struct", "bean"} => Writer[t].bean[v] = Pairs(t, Writer, v)
         /\ t.k \notin {"struct", "newtype"} => Failed(Writer[t].nested[v])
         /\ t.k \notin {"struct", "bean", "newtype"} => Failed(Writer[t].bean[v])
<1> DEFINE writer == [p \in Parts(t) |-> Writer[p]]
<1>1. \A p \in Parts(t) : writer[p] = Writer[p]
  OBVIOUS
<1>2. /\ Writer[t].property[v] = PropertyOf(t, writer, v)
      /\ Writer[t].nested[v] = NestedOf(t, writer, v)
      /\ Writer[t].bean[v] = BeanOf(t, writer, v)
  <2>1. Writer[t] = WriterFrom(t, writer)
    BY WriterIs
  <2> HIDE DEF writer
  <2>2. /\ Writer[t].property = [x \in Values[t] |-> PropertyOf(t, writer, x)]
        /\ Writer[t].nested = [x \in Values[t] |-> NestedOf(t, writer, x)]
        /\ Writer[t].bean = [x \in Values[t] |-> BeanOf(t, writer, x)]
    BY <2>1 DEF WriterFrom
  <2> QED
    BY <2>2
<1> HIDE DEF writer
<1>3. t.k \in {"struct", "bean"} => Pairs(t, writer, v) = Pairs(t, Writer, v)
  <2> SUFFICES ASSUME t.k \in {"struct", "bean"} PROVE Pairs(t, writer, v) = Pairs(t, Writer, v)
    OBVIOUS
  <2>1. \A i \in DOMAIN Fields(t) : writer[Fields(t)[i].type] = Writer[Fields(t)[i].type]
    BY <1>1, FieldsOf
  <2> DEFINE pairs(f) == [i \in DOMAIN Fields(t) |->
                            [name |-> Fields(t)[i].name,
                             value |-> f[Fields(t)[i].type].property[FieldValues(t, v)[i]]]]
  <2>2. pairs(writer) = pairs(Writer)
    BY <2>1
  <2>3. Pairs(t, writer, v) = <<"pairs", pairs(writer)>> /\ Pairs(t, Writer, v) = <<"pairs", pairs(Writer)>>
    BY DEF Pairs
  <2> QED
    BY <2>2, <2>3
<1>4. t.k = "option" /\ v # NoneValue => Writer[t].property[v] = Writer[t.of].property[v[2]]
  BY <1>1, <1>2, TypeShape DEF PropertyOf
<1>5. t.k = "newtype" => /\ Writer[t].property[v] = Writer[t.of].property[v[2]]
                         /\ Writer[t].nested[v] = Writer[t.of].nested[v[2]]
                         /\ Writer[t].bean[v] = Writer[t.of].bean[v[2]]
  BY <1>1, <1>2, TypeShape DEF PropertyOf, NestedOf, BeanOf
<1>6. t.k = "bean" => Writer[t].property[v] = Build(t.class, Writer[t.of].nested[v[2]])
  BY <1>1, <1>2, TypeShape DEF PropertyOf
<1>7. t.k \notin {"newtype", "bean"} /\ (t.k = "option" => v = NoneValue) =>
        Writer[t].property[v] = Ser[t][v]
  BY <1>2 DEF PropertyOf
<1>8. /\ t.k = "struct" => Writer[t].nested[v] = Pairs(t, Writer, v)
      /\ t.k \in {"struct", "bean"} => Writer[t].bean[v] = Pairs(t, Writer, v)
  BY <1>2, <1>3 DEF NestedOf, BeanOf
<1>9. /\ t.k \notin {"struct", "newtype"} => Failed(Writer[t].nested[v])
      /\ t.k \notin {"struct", "bean", "newtype"} => Failed(Writer[t].bean[v])
  <2>1. t.k \notin {"struct", "newtype"} => Writer[t].nested[v] = Error("not a struct")
    BY <1>2 DEF NestedOf
  <2>2. t.k \notin {"struct", "bean", "newtype"} => Writer[t].bean[v] = Error("not a struct")
    BY <1>2 DEF BeanOf
  <2>3. Failed(Error("not a struct"))
    BY DEF Failed, Error
  <2> QED
    BY <2>1, <2>2, <2>3
<1> QED
  BY <1>4, <1>5, <1>6, <1>7, <1>8, <1>9

-----------------------------------------------------------------------------
(***************************************************************************)
(* A value tree is a Java value, or is refused for a scalar in it.         *)
(***************************************************************************)

\* What is written of a type of some depth nests as deep, at most.
LEMMA JavaLevels ==
  ASSUME NEW t \in Types
  PROVE  /\ JavaScalars \subseteq JavaAt[Height + Depth[t]]
         /\ JavaAt[Height] \subseteq JavaAt[Height + Depth[t]]
         /\ JavaAt[Height + Depth[t]] \subseteq Java
         /\ t.k \notin Atomic =>
              \E below : /\ JavaAt[Height + Depth[t]] = JavaOver(below)
                         /\ JavaScalars \subseteq below
                         /\ JavaAt[Height] \subseteq below
                         /\ \A p \in Parts(t) : JavaAt[Height + Depth[p]] \subseteq below
<1>1. /\ Height \in Nat /\ Deepest \in Nat /\ Depth[t] \in Nat /\ Depth[t] <= Deepest
      /\ \A p \in Parts(t) : p \in Types /\ Depth[p] \in Nat /\ Depth[p] < Depth[t]
  BY PartsAreTypes, TypesAssumption, MappingAssumption
<1>2. /\ Height \in 0..(Height + Deepest) /\ 0 \in 0..(Height + Deepest)
      /\ Height + Depth[t] \in 0..(Height + Deepest)
      /\ Height + Deepest \in 0..(Height + Deepest)
  BY <1>1
<1>3. JavaAt[0] = JavaScalars
  BY <1>2, JavaAtIs
<1>4. /\ JavaScalars \subseteq JavaAt[Height + Depth[t]]
      /\ JavaAt[Height] \subseteq JavaAt[Height + Depth[t]]
      /\ JavaAt[Height + Depth[t]] \subseteq Java
  BY <1>1, <1>2, <1>3, JavaAtGrows DEF Java
<1>5. ASSUME t.k \notin Atomic
      PROVE  \E below : /\ JavaAt[Height + Depth[t]] = JavaOver(below)
                        /\ JavaScalars \subseteq below
                        /\ JavaAt[Height] \subseteq below
                        /\ \A p \in Parts(t) : JavaAt[Height + Depth[p]] \subseteq below
  <2>1. Depth[t] > 0
    BY <1>5, TypeShape
  <2> DEFINE n == Height + Depth[t] - 1
  <2>2. n \in 0..(Height + Deepest) /\ Height <= n /\ 0 <= n /\ Height + Depth[t] # 0
        /\ \A p \in Parts(t) : Height + Depth[p] \in 0..(Height + Deepest) /\ Height + Depth[p] <= n
    BY <1>1, <2>1
  <2>3. JavaAt[Height + Depth[t]] = JavaOver(JavaAt[n])
    <3> DEFINE h == Height + Depth[t]
    <3>1. h \in 0..(Height + Deepest) /\ h # 0 /\ n = h - 1
      BY <1>1, <1>2, <2>2
    <3> HIDE DEF h, n
    <3>2. JavaAt[h] = JavaOver(JavaAt[n])
      BY <3>1, JavaAtIs
    <3> QED
      BY <3>2 DEF h
  <2> HIDE DEF n
  <2>4. JavaScalars \subseteq JavaAt[n] /\ JavaAt[Height] \subseteq JavaAt[n]
    BY <1>2, <1>3, <2>2, JavaAtGrows
  <2>5. \A p \in Parts(t) : JavaAt[Height + Depth[p]] \subseteq JavaAt[n]
    BY <2>2, JavaAtGrows
  <2> QED
    BY <2>3, <2>4, <2>5
<1> QED
  BY <1>4, <1>5

\* What is unsupported in a value is so in one that it holds.
LEMMA UnsupportedKinds ==
  ASSUME NEW t \in Types, NEW v \in Values[t]
  PROVE  /\ t.k \in Atomic =>
              (Unsupported(t, v) <=> t.k \in {"u32", "enum"} \/ (t.k = "char" /\ v[2] \in Astral))
         /\ t.k = "option" =>
              (Unsupported(t, v) <=> v # NoneValue /\ Unsupported(t.of, v[2]))
         /\ t.k \in {"newtype", "bean"} => (Unsupported(t, v) <=> Unsupported(t.of, v[2]))
         /\ t.k = "seq" => (Unsupported(t, v) <=> \E i \in DOMAIN v[2] : Unsupported(t.of, v[2][i]))
         /\ t.k = "tuple" =>
              (Unsupported(t, v) <=> \E i \in DOMAIN t.parts : Unsupported(t.parts[i], v[2][i]))
         /\ t.k = "map" =>
              (Unsupported(t, v) <=>
                 \E e \in v[2] : Unsupported(t.key, e[1]) \/ Unsupported(t.of, e[2]))
         /\ t.k \in {"struct", "bean"} =>
              (Unsupported(t, v) <=>
                 \E i \in DOMAIN Fields(t) : Unsupported(Fields(t)[i].type, FieldValues(t, v)[i]))
<1> DEFINE leaves == [p \in Parts(t) |-> Leaves[p]]
           Bad(leaf) == \/ leaf[1] \in {"u32", "enum"}
                        \/ leaf[1] = "char" /\ leaf[2][2] \in Astral
<1>1. \A p \in Parts(t) : leaves[p] = Leaves[p]
  OBVIOUS
<1>2. Leaves[t][v] = LeavesOf(t, leaves, v)
  BY LeavesIs DEF LeavesFrom
<1> HIDE DEF leaves
<1>3. \A p, x : Unsupported(p, x) <=> \E leaf \in Leaves[p][x] : Bad(leaf)
  BY DEF Unsupported
<1> HIDE DEF Bad
<1>4. ASSUME t.k \in Atomic
      PROVE  Unsupported(t, v) <=> t.k \in {"u32", "enum"} \/ (t.k = "char" /\ v[2] \in Astral)
  <2>1. Leaves[t][v] = {<<t.k, v>>}
    BY <1>2, <1>4 DEF LeavesOf, Atomic, ScalarTypes, IntegerTypes, FloatTypes, Signed
  <2>2. Unsupported(t, v) <=> Bad(<<t.k, v>>)
    BY <1>3, <2>1
  <2> QED
    BY <2>2 DEF Bad
<1>5. t.k = "option" => (Unsupported(t, v) <=> v # NoneValue /\ Unsupported(t.of, v[2]))
  BY <1>1, <1>2, <1>3, TypeShape DEF LeavesOf, Atomic, ScalarTypes, IntegerTypes, FloatTypes, Signed
<1>6. t.k \in {"newtype", "bean"} => (Unsupported(t, v) <=> Unsupported(t.of, v[2]))
  BY <1>1, <1>2, <1>3, TypeShape DEF LeavesOf, Atomic, ScalarTypes, IntegerTypes, FloatTypes, Signed
<1>7. ASSUME t.k = "seq"
      PROVE  Unsupported(t, v) <=> \E i \in DOMAIN v[2] : Unsupported(t.of, v[2][i])
  <2>1. Leaves[t][v] = UNION {Leaves[t.of][v[2][i]] : i \in DOMAIN v[2]}
    BY <1>1, <1>2, <1>7, TypeShape DEF LeavesOf, Atomic, ScalarTypes, IntegerTypes, FloatTypes, Signed
  <2> QED
    BY <1>3, <2>1
<1>8. ASSUME t.k = "tuple"
      PROVE  Unsupported(t, v) <=> \E i \in DOMAIN t.parts : Unsupported(t.parts[i], v[2][i])
  <2>1. Leaves[t][v] = UNION {leaves[t.parts[i]][v[2][i]] : i \in DOMAIN t.parts}
    BY <1>2, <1>8 DEF LeavesOf, Atomic, ScalarTypes, IntegerTypes, FloatTypes, Signed
  <2>2. \A i \in DOMAIN t.parts : leaves[t.parts[i]] = Leaves[t.parts[i]]
    BY <1>1, <1>8, TypeShape
  <2> QED
    BY <1>3, <2>1, <2>2
<1>9. ASSUME t.k = "map"
      PROVE  Unsupported(t, v) <=>
               \E e \in v[2] : Unsupported(t.key, e[1]) \/ Unsupported(t.of, e[2])
  <2>1. Leaves[t][v] = UNION {leaves[t.key][e[1]] \cup leaves[t.of][e[2]] : e \in v[2]}
    BY <1>2, <1>9 DEF LeavesOf, Atomic, ScalarTypes, IntegerTypes, FloatTypes, Signed
  <2>2. leaves[t.key] = Leaves[t.key] /\ leaves[t.of] = Leaves[t.of]
    BY <1>1, <1>9, TypeShape
  <2> QED
    BY <1>3, <2>1, <2>2
<1>10. ASSUME t.k = "struct"
       PROVE  Unsupported(t, v) <=>
                \E i \in DOMAIN Fields(t) : Unsupported(Fields(t)[i].type, FieldValues(t, v)[i])
  <2>1. Leaves[t][v] = UNION {leaves[t.fields[i].type][v[2][i]] : i \in DOMAIN t.fields}
    BY <1>2, <1>10 DEF LeavesOf, Atomic, ScalarTypes, IntegerTypes, FloatTypes, Signed
  <2>2. \A i \in DOMAIN t.fields : leaves[t.fields[i].type] = Leaves[t.fields[i].type]
    BY <1>1, <1>10, TypeShape
  <2>3. Unsupported(t, v) <=> \E i \in DOMAIN t.fields : Unsupported(t.fields[i].type, v[2][i])
    BY <1>3, <2>1, <2>2
  <2> QED
    BY <1>10, <2>3 DEF Fields, FieldValues
<1>11. ASSUME t.k = "bean"
       PROVE  Unsupported(t, v) <=>
                \E i \in DOMAIN Fields(t) : Unsupported(Fields(t)[i].type, FieldValues(t, v)[i])
  <2>1. /\ Fields(t) = <<[name |-> ClassKey, type |-> [k |-> "str"]], [name |-> ValueKey, type |-> t.of]>>
        /\ FieldValues(t, v) = <<<<"str", t.class>>, v[2]>>
    BY <1>11 DEF Fields, FieldValues
  <2>2. DOMAIN Fields(t) = 1..2 /\ 1 \in 1..2 /\ 2 \in 1..2
        /\ Fields(t)[1].type = [k |-> "str"] /\ Fields(t)[2].type = t.of
        /\ FieldValues(t, v)[1] = <<"str", t.class>> /\ FieldValues(t, v)[2] = v[2]
    BY <2>1
  <2>3. [k |-> "str"] \in Types /\ <<"str", t.class>> \in Values[[k |-> "str"]]
    <3>1. 1 \in DOMAIN Fields(t) /\ t.k \in {"struct", "bean"}
      BY <1>11, <2>2
    <3>2. Fields(t)[1].type \in Parts(t) /\ FieldValues(t, v)[1] \in Values[Fields(t)[1].type]
      BY <3>1, FieldsOf
    <3>3. [k |-> "str"] \in Parts(t) /\ <<"str", t.class>> \in Values[[k |-> "str"]]
      BY <2>2, <3>2
    <3> QED
      BY <3>3, PartsAreTypes
  <2>4. ~Unsupported([k |-> "str"], <<"str", t.class>>)
    <3> DEFINE s == [k |-> "str"]
               x == <<"str", t.class>>
    <3>1. s \in Types /\ x \in Values[s] /\ s.k = "str"
      BY <2>3
    <3> HIDE DEF s, x
    <3>2. Leaves[s][x] = {<<"str", x>>}
      <4> DEFINE below == [p \in Parts(s) |-> Leaves[p]]
      <4>1. Leaves[s][x] = LeavesOf(s, below, x)
        BY <3>1, LeavesIs DEF LeavesFrom
      <4> HIDE DEF below
      <4> QED
        BY <3>1, <4>1 DEF LeavesOf, Atomic, ScalarTypes, IntegerTypes, FloatTypes, Signed
    <3>3. ~Unsupported(s, x)
      BY <3>2 DEF Unsupported
    <3> QED
      BY <3>3 DEF s, x
  <2>5. Unsupported(t, v) <=> Unsupported(t.of, v[2])
    BY <1>6, <1>11
  <2>6. \A i \in DOMAIN Fields(t) : i = 1 \/ i = 2
    BY <2>2
  <2> QED
    BY <2>2, <2>4, <2>5, <2>6
<1> QED
  BY <1>4, <1>5, <1>6, <1>7, <1>8, <1>9, <1>10, <1>11

\* Rounding: a cast gives a float, none lies between it and the number, and a
\* float is cast to itself.
LEMMA CastRounds ==
  ASSUME NEW k \in FloatTypes, NEW n \in Numbers
  PROVE  Cast[k][n] \in Floats(k) /\ RoundsTo(k, n, Cast[k][n])
<1> DEFINE c == Cast[k][n]
<1>1. c \in Floats(k) /\ n \in Int /\ c \in Int
  BY FloatsAssumption DEF Floats
<1>2. ASSUME NEW f \in Floats(k)
      PROVE  ~(n <= f /\ f < c) /\ ~(c < f /\ f <= n)
  <2>1. f \in Numbers /\ f \in Int /\ Cast[k][f] = f
    BY FloatsAssumption DEF Floats
  <2>2. (n <= f => c <= f) /\ (f <= n => f <= c)
    BY <2>1, FloatsAssumption
  <2> HIDE DEF c
  <2> QED
    BY <1>1, <2>1, <2>2
<1> QED
  BY <1>1, <1>2 DEF RoundsTo

LEMMA FloatIsItself ==
  ASSUME NEW k \in FloatTypes, NEW f \in Floats(k)
  PROVE  f \in Numbers /\ Cast[k][f] = f /\ RoundsTo(k, f, f)
<1>1. f \in Numbers /\ Cast[k][f] = f
  BY DEF Floats
<1> QED
  BY <1>1, CastRounds

\* What the reference says of a scalar,
LEMMA ShowsScalars ==
  ASSUME NEW t \in Types, NEW v \in Values[t], NEW j \in Java
  PROVE  /\ t.k = "unit" => Shows[t][v][j]
         /\ t.k \in IntegerTypes =>
              (Shows[t][v][j] <=>
                 /\ j[1] \in NumberClasses
                 /\ j[2] = v[2] \/ (t.k = "u8" /\ j[1] = "Byte" /\ v[2] - j[2] = 2 * Half["u8"]))
         /\ t.k \in FloatTypes =>
              (Shows[t][v][j] <=>
                 j[1] \in NumberClasses \cup FloatClasses /\ RoundsTo(t.k, j[2], v[2]))
         /\ t.k = "bool" => (Shows[t][v][j] <=> j = <<"Boolean", v[2]>>)
         /\ t.k \in {"char", "str"} =>
              (Shows[t][v][j] <=> j[1] \in {"Character", "String"} /\ j[2] = v[2])
<1> DEFINE shows == [p \in Parts(t) |-> Shows[p]]
<1>1. \A p \in Parts(t) : shows[p] = Shows[p]
  OBVIOUS
<1>2. Shows[t][v][j] = ShowsOf(t, shows, v, j)
  <2>1. Shows[t] = ShowsFrom(t, shows)
    BY ShowsIs
  <2> HIDE DEF shows
  <2> QED
    BY <2>1 DEF ShowsFrom
<1> HIDE DEF shows
<1> USE DEF IntegerTypes, FloatTypes, Signed
<1> QED
  BY <1>2 DEF ShowsOf

\* and of each other kind of type.
LEMMA ShowsKinds ==
  ASSUME NEW t \in Types, NEW v \in Values[t], NEW j \in Java
  PROVE  /\ t.k = "option" =>
              (Shows[t][v][j] <=> IF v = NoneValue THEN j = Null ELSE Shows[t.of][v[2]][j])
         /\ t.k = "newtype" =>
              (Shows[t][v][j] <=>
                 \/ Shows[t.of][v[2]][j]
                 \/ j[1] = "ArrayList" /\ j[2] # <<>> /\ Shows[t.of][v[2]][j[2][1]])
         /\ t.k = "seq" =>
              (Shows[t][v][j] <=>
                 /\ j[1] = "ArrayList" /\ Len(j[2]) = Len(v[2])
                 /\ \A i \in DOMAIN v[2] : Shows[t.of][v[2][i]][j[2][i]])
         /\ t.k = "tuple" =>
              (Shows[t][v][j] <=>
                 /\ j[1] = "ArrayList" /\ Len(j[2]) >= Len(t.parts)
                 /\ \A i \in DOMAIN t.parts : Shows[t.parts[i]][v[2][i]][j[2][i]])
         /\ t.k = "map" =>
              (Shows[t][v][j] <=>
                 /\ j[1] = "HashMap"
                 /\ \A e \in v[2] : \E d \in j[2] : Shows[t.key][e[1]][d[1]] /\ Shows[t.of][e[2]][d[2]]
                 /\ \A d \in j[2] : \E e \in v[2] : Shows[t.key][e[1]][d[1]])
         /\ t.k = "bean" =>
              (Shows[t][v][j] <=> IF IsBeanMarkerMap(j) THEN Shows[t.of][v[2]][Entry(j, ValueKey)[2]]
                                                        ELSE Shows[t.of][v[2]][j])
         /\ t.k = "struct" =>
              (Shows[t][v][j] <=>
                 IF j[1] = "ArrayList"
                   THEN /\ Len(j[2]) >= Len(t.fields)
                        /\ \A i \in DOMAIN t.fields : Shows[t.fields[i].type][v[2][i]][j[2][i]]
                   ELSE \A i \in DOMAIN t.fields :
                          ShowsField(t.fields[i], Shows[t.fields[i].type], v[2][i], j))
<1> DEFINE shows == [p \in Parts(t) |-> Shows[p]]
<1>1. \A p \in Parts(t) : shows[p] = Shows[p]
  OBVIOUS
<1>2. Shows[t][v][j] = ShowsOf(t, shows, v, j)
  <2>1. Shows[t] = ShowsFrom(t, shows)
    BY ShowsIs
  <2> HIDE DEF shows
  <2> QED
    BY <2>1 DEF ShowsFrom
<1> HIDE DEF shows
<1> USE DEF IntegerTypes, FloatTypes, Signed
<1>3. t.k = "option" =>
        (Shows[t][v][j] <=> IF v = NoneValue THEN j = Null ELSE Shows[t.of][v[2]][j])
  BY <1>1, <1>2, TypeShape DEF ShowsOf
<1>4. t.k = "newtype" =>
        (Shows[t][v][j] <=>
           \/ Shows[t.of][v[2]][j]
           \/ j[1] = "ArrayList" /\ j[2] # <<>> /\ Shows[t.of][v[2]][j[2][1]])
  BY <1>1, <1>2, TypeShape DEF ShowsOf
<1>5. t.k = "seq" =>
        (Shows[t][v][j] <=>
           /\ j[1] = "ArrayList" /\ Len(j[2]) = Len(v[2])
           /\ \A i \in DOMAIN v[2] : Shows[t.of][v[2][i]][j[2][i]])
  BY <1>1, <1>2, TypeShape DEF ShowsOf
<1>6. ASSUME t.k = "tuple"
      PROVE  Shows[t][v][j] <=>
               /\ j[1] = "ArrayList" /\ Len(j[2]) >= Len(t.parts)
               /\ \A i \in DOMAIN t.parts : Shows[t.parts[i]][v[2][i]][j[2][i]]
  <2>1. \A i \in DOMAIN t.parts : shows[t.parts[i]] = Shows[t.parts[i]]
    BY <1>1, <1>6, TypeShape
  <2> QED
    BY <1>2, <1>6, <2>1 DEF ShowsOf
<1>7. ASSUME t.k = "map"
      PROVE  Shows[t][v][j] <=>
               /\ j[1] = "HashMap"
               /\ \A e \in v[2] : \E d \in j[2] : Shows[t.key][e[1]][d[1]] /\ Shows[t.of][e[2]][d[2]]
               /\ \A d \in j[2] : \E e \in v[2] : Shows[t.key][e[1]][d[1]]
  <2>1. shows[t.key] = Shows[t.key] /\ shows[t.of] = Shows[t.of]
    BY <1>1, <1>7, TypeShape
  <2>2. Shows[t][v][j] <=>
          /\ j[1] = "HashMap"
          /\ \A e \in v[2] : \E d \in j[2] : shows[t.key][e[1]][d[1]] /\ shows[t.of][e[2]][d[2]]
          /\ \A d \in j[2] : \E e \in v[2] : shows[t.key][e[1]][d[1]]
    BY <1>2, <1>7 DEF ShowsOf
  <2> QED
    BY <2>1, <2>2
<1>8. t.k = "bean" =>
        (Shows[t][v][j] <=> IF IsBeanMarkerMap(j) THEN Shows[t.of][v[2]][Entry(j, ValueKey)[2]]
                                                  ELSE Shows[t.of][v[2]][j])
  BY <1>1, <1>2, TypeShape DEF ShowsOf
<1>9. ASSUME t.k = "struct"
       PROVE  Shows[t][v][j] <=>
                IF j[1] = "ArrayList"
                  THEN /\ Len(j[2]) >= Len(t.fields)
                       /\ \A i \in DOMAIN t.fields : Shows[t.fields[i].type][v[2][i]][j[2][i]]
                  ELSE \A i \in DOMAIN t.fields :
                         ShowsField(t.fields[i], Shows[t.fields[i].type], v[2][i], j)
  <2>1. \A i \in DOMAIN t.fields : shows[t.fields[i].type] = Shows[t.fields[i].type]
    BY <1>1, <1>9, TypeShape
  <2>2. CASE j[1] = "ArrayList"
    BY <1>2, <1>9, <2>1, <2>2 DEF ShowsOf
  <2>3. CASE j[1] # "ArrayList"
    <3>1. Shows[t][v][j] <=>
            \A i \in DOMAIN t.fields : ShowsField(t.fields[i], shows[t.fields[i].type], v[2][i], j)
      BY <1>2, <1>9, <2>3 DEF ShowsOf
    <3> QED
      BY <2>1, <2>3, <3>1
  <2> QED
    BY <2>2, <2>3
<1> QED
  BY <1>3, <1>4, <1>5, <1>6, <1>7, <1>8, <1>9

-----------------------------------------------------------------------------
(***************************************************************************)
(* What there is to know of each kind of type.                             *)
(***************************************************************************)

\* An Option.
LEMMA OptionIs ==
  ASSUME NEW t \in Types, t.k = "option", NEW v \in Values[t]
  PROVE  /\ t.of \in Parts(t) /\ t.k \notin Atomic
         /\ v # NoneValue => v[2] \in Values[t.of] /\ v = <<"some", v[2]>>
         /\ Ser[t][v] = IF v = NoneValue THEN Null ELSE Ser[t.of][v[2]]
         /\ Unsupported(t, v) <=> v # NoneValue /\ Unsupported(t.of, v[2])
         /\ \A j \in Java : Shows[t][v][j] <=> IF v = NoneValue THEN j = Null ELSE Shows[t.of][v[2]][j]
<1>1. t.of \in Parts(t) /\ t.k \notin Atomic
  BY TypeShape DEF Atomic, ScalarTypes, IntegerTypes, FloatTypes, Signed
<1>2. v # NoneValue => v[2] \in Values[t.of] /\ v = <<"some", v[2]>>
  BY ValueShape
<1>3. Ser[t][v] = IF v = NoneValue THEN Null ELSE Ser[t.of][v[2]]
  BY SerKinds
<1>4. Unsupported(t, v) <=> v # NoneValue /\ Unsupported(t.of, v[2])
  BY UnsupportedKinds
<1>5. \A j \in Java : Shows[t][v][j] <=> IF v = NoneValue THEN j = Null ELSE Shows[t.of][v[2]][j]
  BY ShowsKinds
<1> QED
  BY <1>1, <1>2, <1>3, <1>4, <1>5

\* A newtype.
LEMMA NewtypeIs ==
  ASSUME NEW t \in Types, t.k = "newtype", NEW v \in Values[t]
  PROVE  /\ t.of \in Parts(t) /\ t.k \notin Atomic
         /\ v[2] \in Values[t.of] /\ v = <<"newtype", v[2]>>
         /\ Ser[t][v] = Ser[t.of][v[2]]
         /\ Unsupported(t, v) <=> Unsupported(t.of, v[2])
         /\ \A j \in Java : Shows[t][v][j] <=>
                 \/ Shows[t.of][v[2]][j]
                 \/ j[1] = "ArrayList" /\ j[2] # <<>> /\ Shows[t.of][v[2]][j[2][1]]
<1>1. t.of \in Parts(t) /\ t.k \notin Atomic
  BY TypeShape DEF Atomic, ScalarTypes, IntegerTypes, FloatTypes, Signed
<1>2. v[2] \in Values[t.of] /\ v = <<"newtype", v[2]>>
  BY WrapperValues
<1>3. Ser[t][v] = Ser[t.of][v[2]]
  BY SerKinds
<1>4. Unsupported(t, v) <=> Unsupported(t.of, v[2])
  BY UnsupportedKinds
<1>5. \A j \in Java : Shows[t][v][j] <=>
           \/ Shows[t.of][v[2]][j]
           \/ j[1] = "ArrayList" /\ j[2] # <<>> /\ Shows[t.of][v[2]][j[2][1]]
  BY ShowsKinds
<1> QED
  BY <1>1, <1>2, <1>3, <1>4, <1>5

\* A sequence.
LEMMA SeqIs ==
  ASSUME NEW t \in Types, t.k = "seq", NEW v \in Values[t]
  PROVE  /\ t.of \in Parts(t) /\ t.k \notin Atomic
         /\ v = <<"seq", v[2]>> /\ Len(v[2]) \in Nat /\ DOMAIN v[2] = 1..Len(v[2])
         /\ v[2] = [i \in DOMAIN v[2] |-> v[2][i]]
         /\ \A i \in DOMAIN v[2] : v[2][i] \in Values[t.of]
<1>1. t.of \in Parts(t) /\ t.k \notin Atomic
  BY TypeShape DEF Atomic, ScalarTypes, IntegerTypes, FloatTypes, Signed
<1>2. v = <<"seq", v[2]>> /\ Len(v[2]) \in Nat /\ DOMAIN v[2] = 1..Len(v[2])
  BY ValueShape
<1>3. v[2] = [i \in DOMAIN v[2] |-> v[2][i]]
  BY ValueShape
<1>4. \A i \in DOMAIN v[2] : v[2][i] \in Values[t.of]
  BY ValueShape
<1> QED
  BY <1>1, <1>2, <1>3, <1>4

\* How it is written,
LEMMA SeqWritten ==
  ASSUME NEW t \in Types, t.k = "seq", NEW v \in Values[t]
  PROVE  /\ Ser[t][v] = ArrayList([i \in DOMAIN v[2] |-> Ser[t.of][v[2][i]]])
         /\ Unsupported(t, v) <=> \E i \in DOMAIN v[2] : Unsupported(t.of, v[2][i])
<1>1. Ser[t][v] = ArrayList([i \in DOMAIN v[2] |-> Ser[t.of][v[2][i]]])
  BY SerKinds
<1>2. Unsupported(t, v) <=> \E i \in DOMAIN v[2] : Unsupported(t.of, v[2][i])
  BY UnsupportedKinds
<1> QED
  BY <1>1, <1>2

\* and shows.
LEMMA SeqShown ==
  ASSUME NEW t \in Types, t.k = "seq", NEW v \in Values[t]
  PROVE  \A j \in Java : Shows[t][v][j] <=>
                 /\ j[1] = "ArrayList" /\ Len(j[2]) = Len(v[2])
                 /\ \A i \in DOMAIN v[2] : Shows[t.of][v[2][i]][j[2][i]]
BY ShowsKinds

\* A tuple.
LEMMA TupleIs ==
  ASSUME NEW t \in Types, t.k = "tuple", NEW v \in Values[t]
  PROVE  /\ t.k \notin Atomic /\ Len(t.parts) \in Nat /\ DOMAIN t.parts = 1..Len(t.parts)
         /\ \A i \in DOMAIN t.parts : t.parts[i] \in Parts(t)
         /\ v = <<"seq", v[2]>> /\ v[2] = [i \in DOMAIN t.parts |-> v[2][i]]
         /\ \A i \in DOMAIN t.parts : v[2][i] \in Values[t.parts[i]]
<1>1. t.k \notin Atomic /\ Len(t.parts) \in Nat /\ DOMAIN t.parts = 1..Len(t.parts)
  BY TypeShape DEF Atomic, ScalarTypes, IntegerTypes, FloatTypes, Signed
<1>2. \A i \in DOMAIN t.parts : t.parts[i] \in Parts(t)
  BY TypeShape
<1>3. v = <<"seq", v[2]>> /\ v[2] = [i \in DOMAIN t.parts |-> v[2][i]]
  BY ValueShape
<1>4. \A i \in DOMAIN t.parts : v[2][i] \in Values[t.parts[i]]
  BY ValueShape
<1> QED
  BY <1>1, <1>2, <1>3, <1>4

\* How it is written,
LEMMA TupleWritten ==
  ASSUME NEW t \in Types, t.k = "tuple", NEW v \in Values[t]
  PROVE  /\ Ser[t][v] = ArrayList([i \in DOMAIN t.parts |-> Ser[t.parts[i]][v[2][i]]])
         /\ Unsupported(t, v) <=> \E i \in DOMAIN t.parts : Unsupported(t.parts[i], v[2][i])
<1>1. Ser[t][v] = ArrayList([i \in DOMAIN t.parts |-> Ser[t.parts[i]][v[2][i]]])
  BY SerKinds
<1>2. Unsupported(t, v) <=> \E i \in DOMAIN t.parts : Unsupported(t.parts[i], v[2][i])
  BY UnsupportedKinds
<1> QED
  BY <1>1, <1>2

\* and shows.
LEMMA TupleShown ==
  ASSUME NEW t \in Types, t.k = "tuple", NEW v \in Values[t]
  PROVE  \A j \in Java : Shows[t][v][j] <=>
                 /\ j[1] = "ArrayList" /\ Len(j[2]) >= Len(t.parts)
                 /\ \A i \in DOMAIN t.parts : Shows[t.parts[i]][v[2][i]][j[2][i]]
BY ShowsKinds

\* A map.
LEMMA MapIs ==
  ASSUME NEW t \in Types, t.k = "map", NEW v \in Values[t]
  PROVE  /\ t.k \notin Atomic /\ t.key \in Parts(t) /\ t.of \in Parts(t) /\ t.key.k \in Atomic
         /\ v = <<"map", v[2]>>
         /\ \A e \in v[2] : e[1] \in Values[t.key] /\ e[2] \in Values[t.of] /\ e = <<e[1], e[2]>>
         /\ \A e, f \in v[2] : e[1] = f[1] => e = f
<1>1. t.k \notin Atomic /\ t.key \in Parts(t) /\ t.of \in Parts(t) /\ t.key.k \in Atomic
  BY TypeShape DEF Atomic, ScalarTypes, IntegerTypes, FloatTypes, Signed
<1>2. v = <<"map", v[2]>>
  BY ValueShape
<1>3. \A e \in v[2] : e[1] \in Values[t.key] /\ e[2] \in Values[t.of] /\ e = <<e[1], e[2]>>
  BY ValueShape
<1>4. \A e, f \in v[2] : e[1] = f[1] => e = f
  BY ValueShape
<1> QED
  BY <1>1, <1>2, <1>3, <1>4

\* How it is written,
LEMMA MapWritten ==
  ASSUME NEW t \in Types, t.k = "map", NEW v \in Values[t]
  PROVE  /\ Ser[t][v] = HashMap({<<Ser[t.key][e[1]], Ser[t.of][e[2]]>> : e \in v[2]})
         /\ Unsupported(t, v) <=>
              \E e \in v[2] : Unsupported(t.key, e[1]) \/ Unsupported(t.of, e[2])
<1>1. Ser[t][v] = HashMap({<<Ser[t.key][e[1]], Ser[t.of][e[2]]>> : e \in v[2]})
  BY SerKinds
<1>2. Unsupported(t, v) <=>
        \E e \in v[2] : Unsupported(t.key, e[1]) \/ Unsupported(t.of, e[2])
  BY UnsupportedKinds
<1> QED
  BY <1>1, <1>2

\* and shows.
LEMMA MapShown ==
  ASSUME NEW t \in Types, t.k = "map", NEW v \in Values[t]
  PROVE  \A j \in Java : Shows[t][v][j] <=>
                 /\ j[1] = "HashMap"
                 /\ \A e \in v[2] : \E d \in j[2] : Shows[t.key][e[1]][d[1]] /\ Shows[t.of][e[2]][d[2]]
                 /\ \A d \in j[2] : \E e \in v[2] : Shows[t.key][e[1]][d[1]]
BY ShowsKinds

\* A struct or a JavaBean.
LEMMA FieldsAre ==
  ASSUME NEW t \in Types, t.k \in {"struct", "bean"}, NEW v \in Values[t]
  PROVE  /\ t.k \notin Atomic /\ Len(Fields(t)) \in Nat /\ DOMAIN Fields(t) = 1..Len(Fields(t))
         /\ \A i \in DOMAIN Fields(t) : /\ Fields(t)[i].name \in Texts
                                           /\ Fields(t)[i].name \in DOMAIN CamelCase
                                           /\ Fields(t)[i].type \in Parts(t)
         /\ \A i \in DOMAIN Fields(t) : FieldValues(t, v)[i] \in Values[Fields(t)[i].type]
         /\ Ser[t][v] = HashMap({<<JavaString(Fields(t)[i].name),
                                    Ser[Fields(t)[i].type][FieldValues(t, v)[i]]>> : i \in DOMAIN Fields(t)})
         /\ Unsupported(t, v) <=>
              \E i \in DOMAIN Fields(t) : Unsupported(Fields(t)[i].type, FieldValues(t, v)[i])
<1>1. t.k \notin Atomic /\ Len(Fields(t)) \in Nat /\ DOMAIN Fields(t) = 1..Len(Fields(t))
  BY FieldsOf DEF Atomic, ScalarTypes, IntegerTypes, FloatTypes, Signed
<1>2. \A i \in DOMAIN Fields(t) : /\ Fields(t)[i].name \in Texts
                                     /\ Fields(t)[i].name \in DOMAIN CamelCase
                                     /\ Fields(t)[i].type \in Parts(t)
  BY FieldsOf
<1>3. \A i \in DOMAIN Fields(t) : FieldValues(t, v)[i] \in Values[Fields(t)[i].type]
  BY FieldsOf
<1>4. Ser[t][v] = HashMap({<<JavaString(Fields(t)[i].name),
                              Ser[Fields(t)[i].type][FieldValues(t, v)[i]]>> : i \in DOMAIN Fields(t)})
  BY SerKinds
<1>5. Unsupported(t, v) <=>
        \E i \in DOMAIN Fields(t) : Unsupported(Fields(t)[i].type, FieldValues(t, v)[i])
  BY UnsupportedKinds
<1> QED
  BY <1>1, <1>2, <1>3, <1>4, <1>5

\* A struct.
LEMMA StructIs ==
  ASSUME NEW t \in Types, t.k = "struct", NEW v \in Values[t]
  PROVE  /\ Len(t.fields) \in Nat /\ DOMAIN t.fields = 1..Len(t.fields)
         /\ Fields(t) = t.fields /\ FieldValues(t, v) = v[2]
         /\ \A i \in DOMAIN t.fields : /\ t.fields[i].name \in Texts
                                         /\ t.fields[i].name \in DOMAIN CamelCase
                                         /\ t.fields[i].type \in Parts(t)
         /\ v = <<"struct", v[2]>> /\ v[2] = [i \in DOMAIN t.fields |-> v[2][i]]
         /\ \A i \in DOMAIN t.fields : v[2][i] \in Values[t.fields[i].type]
         /\ \A j \in Java : Shows[t][v][j] <=>
                 IF j[1] = "ArrayList"
                   THEN /\ Len(j[2]) >= Len(t.fields)
                        /\ \A i \in DOMAIN t.fields : Shows[t.fields[i].type][v[2][i]][j[2][i]]
                   ELSE \A i \in DOMAIN t.fields :
                          ShowsField(t.fields[i], Shows[t.fields[i].type], v[2][i], j)
<1>1. Len(t.fields) \in Nat /\ DOMAIN t.fields = 1..Len(t.fields)
  BY TypeShape
<1>2. Fields(t) = t.fields /\ FieldValues(t, v) = v[2]
  BY DEF Fields, FieldValues
<1>3. \A i \in DOMAIN t.fields : /\ t.fields[i].name \in Texts
                                   /\ t.fields[i].name \in DOMAIN CamelCase
                                   /\ t.fields[i].type \in Parts(t)
  BY TypeShape
<1>4. v = <<"struct", v[2]>> /\ v[2] = [i \in DOMAIN t.fields |-> v[2][i]]
  BY ValueShape
<1>5. \A i \in DOMAIN t.fields : v[2][i] \in Values[t.fields[i].type]
  BY ValueShape
<1>6. \A j \in Java : Shows[t][v][j] <=>
           IF j[1] = "ArrayList"
             THEN /\ Len(j[2]) >= Len(t.fields)
                  /\ \A i \in DOMAIN t.fields : Shows[t.fields[i].type][v[2][i]][j[2][i]]
             ELSE \A i \in DOMAIN t.fields :
                    ShowsField(t.fields[i], Shows[t.fields[i].type], v[2][i], j)
  BY ShowsKinds
<1> QED
  BY <1>1, <1>2, <1>3, <1>4, <1>5, <1>6

\* A JavaBean.
LEMMA BeanIs ==
  ASSUME NEW t \in Types, t.k = "bean", NEW v \in Values[t]
  PROVE  /\ t.of \in Parts(t) /\ t.class \in Texts
         /\ /\ Fields(t) = <<[name |-> ClassKey, type |-> [k |-> "str"]], [name |-> ValueKey, type |-> t.of]>>
            /\ FieldValues(t, v) = <<<<"str", t.class>>, v[2]>>
         /\ v[2] \in Values[t.of] /\ v = <<"bean", v[2]>>
         /\ Unsupported(t, v) <=> Unsupported(t.of, v[2])
         /\ \A j \in Java : Shows[t][v][j] <=>
                 IF IsBeanMarkerMap(j) THEN Shows[t.of][v[2]][Entry(j, ValueKey)[2]]
                                       ELSE Shows[t.of][v[2]][j]
<1>1. t.of \in Parts(t) /\ t.class \in Texts
  BY TypeShape
<1>2. /\ Fields(t) = <<[name |-> ClassKey, type |-> [k |-> "str"]], [name |-> ValueKey, type |-> t.of]>>
      /\ FieldValues(t, v) = <<<<"str", t.class>>, v[2]>>
  BY DEF Fields, FieldValues
<1>3. v[2] \in Values[t.of] /\ v = <<"bean", v[2]>>
  BY WrapperValues
<1>4. Unsupported(t, v) <=> Unsupported(t.of, v[2])
  BY UnsupportedKinds
<1>5. \A j \in Java : Shows[t][v][j] <=>
           IF IsBeanMarkerMap(j) THEN Shows[t.of][v[2]][Entry(j, ValueKey)[2]]
                                 ELSE Shows[t.of][v[2]][j]
  BY ShowsKinds
<1> QED
  BY <1>1, <1>2, <1>3, <1>4, <1>5

\* A scalar is written as one, or is unsupported.
LEMMA SerOfScalar ==
  ASSUME NEW t \in Types, t.k \in Atomic, NEW v \in Values[t]
  PROVE  IF Unsupported(t, v) THEN Failed(Ser[t][v])
         ELSE /\ Ser[t][v] \in JavaScalars
              /\ Shows[t][v][Ser[t][v]]
              /\ t.k # "unit" => Ser[t][v] # Null
<1>1. Unsupported(t, v) <=> t.k \in {"u32", "enum"} \/ (t.k = "char" /\ v[2] \in Astral)
  BY UnsupportedKinds
<1>2. t.k \in ScalarTypes => Ser[t][v] = SerScalar(t.k, v)
  BY SerKinds
<1>3. t.k = "enum" => Failed(Ser[t][v])
  <2>1. Failed(Error("unsupported"))
    BY DEF Failed, Error
  <2> QED
    BY <2>1, SerKinds
<1>4. JavaScalars \subseteq Java
  BY JavaLevels
<1>5. \A j \in JavaScalars : j \in Java
  BY <1>4
<1>6. CASE t.k \in {"u32", "enum"}
  BY <1>1, <1>2, <1>3, <1>6
  DEF SerScalar, Failed, Error, ScalarTypes, IntegerTypes, FloatTypes, Signed
<1>7. CASE t.k = "unit"
  <2>1. Ser[t][v] = Null /\ Null \in JavaScalars
    BY <1>2, <1>7 DEF SerScalar, ScalarTypes, FloatTypes, JavaScalars
  <2> QED
    BY <1>1, <1>5, <1>7, <2>1, ShowsScalars
<1>8. CASE t.k = "u8"
  <2>1. v \in {"int"} \X IntRange("u8")
    BY <1>8, AtomValues DEF IntegerTypes, FloatTypes
  <2>2. Ser[t][v] = <<"Byte", AsSigned(v[2])>>
    BY <1>2, <1>8 DEF SerScalar, ScalarTypes, IntegerTypes, FloatTypes
  <2>3. v[2] \in 0..(2 * Half["u8"] - 1) /\ Half["u8"] \in Nat /\ Half["u8"] = Half["i8"]
    BY <2>1, ScalarsAssumption DEF IntRange, IntegerTypes, FloatTypes, Signed
  <2>4. /\ AsSigned(v[2]) \in -Half["i8"]..(Half["i8"] - 1)
        /\ AsSigned(v[2]) = v[2] \/ v[2] - AsSigned(v[2]) = 2 * Half["u8"]
    BY <2>3 DEF AsSigned
  <2>5. Ser[t][v] \in JavaScalars
    BY <2>2, <2>4 DEF JavaScalars, IntRange, Signed
  <2> DEFINE j == Ser[t][v]
  <2>6. j \in Java /\ j[1] = "Byte" /\ j[2] = AsSigned(v[2])
    BY <1>5, <2>2, <2>5
  <2> HIDE DEF j
  <2>7. Shows[t][v][j]
    BY <1>8, <2>4, <2>6, ShowsScalars DEF IntegerTypes, FloatTypes, NumberClasses
  <2>8. j # Null
    BY <2>6 DEF Null
  <2> QED
    BY <1>1, <1>8, <2>5, <2>7, <2>8 DEF j
<1>9. CASE t.k \in {"i8", "i32", "i64"}
  <2>1. v \in {"int"} \X IntRange(t.k)
    BY <1>9, AtomValues DEF IntegerTypes, FloatTypes, Signed
  <2>2. Ser[t][v] = <<WrapperClass[t.k], v[2]>>
    BY <1>2, <1>9 DEF SerScalar, ScalarTypes, IntegerTypes, FloatTypes, Signed
  <2>3. /\ t.k = "i8" => WrapperClass[t.k] = "Byte"
        /\ t.k = "i32" => WrapperClass[t.k] = "Integer"
        /\ t.k = "i64" => WrapperClass[t.k] = "Long"
    BY <1>9 DEF WrapperClass, ScalarTypes, IntegerTypes, FloatTypes, Signed
  <2>4. Ser[t][v] \in JavaScalars
    BY <1>9, <2>1, <2>2, <2>3 DEF JavaScalars
  <2> DEFINE j == Ser[t][v]
  <2>5. j \in Java /\ j[1] \in NumberClasses /\ j[2] = v[2] /\ j # Null
    BY <1>5, <1>9, <2>2, <2>3, <2>4 DEF NumberClasses, Null
  <2> HIDE DEF j
  <2>6. Shows[t][v][j]
    BY <1>9, <2>5, ShowsScalars DEF IntegerTypes, FloatTypes, Signed
  <2> QED
    BY <1>1, <1>9, <2>4, <2>5, <2>6 DEF j
<1>10. CASE t.k \in {"f32", "f64", "bool", "str"} \/ (t.k = "char" /\ v[2] \notin Astral)
  <2>1. /\ t.k \in FloatTypes => v \in {"float"} \X Floats(t.k)
        /\ t.k = "bool" => v \in {"bool"} \X BOOLEAN
        /\ t.k = "char" => v \in {"char"} \X Characters
        /\ t.k = "str" => v \in {"str"} \X Texts
    BY AtomValues
  <2>2. Ser[t][v] = <<WrapperClass[t.k], v[2]>>
    BY <1>2, <1>10 DEF SerScalar, ScalarTypes, IntegerTypes, FloatTypes, Signed
  <2>3. /\ t.k = "f32" => WrapperClass[t.k] = "Float"
        /\ t.k = "f64" => WrapperClass[t.k] = "Double"
        /\ t.k = "bool" => WrapperClass[t.k] = "Boolean"
        /\ t.k = "char" => WrapperClass[t.k] = "Character"
        /\ t.k = "str" => WrapperClass[t.k] = "String"
    BY DEF WrapperClass, ScalarTypes, IntegerTypes, FloatTypes, Signed
  <2>4. Ser[t][v] \in JavaScalars
    BY <1>10, <2>1, <2>2, <2>3 DEF JavaScalars, FloatTypes
  <2> DEFINE j == Ser[t][v]
  <2>5. j \in Java /\ j = <<WrapperClass[t.k], v[2]>> /\ j[1] = WrapperClass[t.k] /\ j[2] = v[2]
    BY <1>5, <2>2, <2>4
  <2> HIDE DEF j
  <2>6. j # Null
    BY <1>10, <2>3, <2>5 DEF Null
  <2>7. Shows[t][v][j]
    <3>1. CASE t.k \in FloatTypes
      BY <2>1, <2>3, <2>5, <3>1, FloatIsItself, ShowsScalars DEF FloatTypes, FloatClasses
    <3>2. CASE t.k \notin FloatTypes
      BY <1>10, <2>3, <2>5, <3>2, ShowsScalars DEF FloatTypes
    <3> QED
      BY <3>1, <3>2
  <2> QED
    BY <1>1, <1>10, <2>4, <2>6, <2>7 DEF j
<1>11. CASE t.k = "char" /\ v[2] \in Astral
  BY <1>1, <1>2, <1>11 DEF SerScalar, Failed, Error, ScalarTypes, FloatTypes
<1> QED
  BY <1>6, <1>7, <1>8, <1>9, <1>10, <1>11 DEF Atomic, ScalarTypes, IntegerTypes, FloatTypes, Signed

\* A list and a map are made of what is written of what they hold.
LEMMA ArrayListOf ==
  ASSUME NEW n \in Nat, NEW s, s = [i \in 1..n |-> s[i]]
  PROVE  IF \E i \in 1..n : Failed(s[i]) THEN Failed(ArrayList(s))
         ELSE /\ ArrayList(s) = <<"ArrayList", s>> /\ Len(s) = n
              /\ \A below : (\A i \in 1..n : s[i] \in below) => ArrayList(s) \in JavaOver(below)
<1>1. DOMAIN s = 1..n
  OBVIOUS
<1>2. CASE \E i \in 1..n : Failed(s[i])
  BY <1>1, <1>2 DEF ArrayList, Failed, Error
<1>3. CASE ~ \E i \in 1..n : Failed(s[i])
  <2>1. ArrayList(s) = <<"ArrayList", s>>
    BY <1>1, <1>3 DEF ArrayList
  <2>2. Len(s) = n
    BY <1>1, SequenceOf
  <2>3. ASSUME NEW below, \A i \in 1..n : s[i] \in below PROVE ArrayList(s) \in JavaOver(below)
    <3>1. s \in Seq(below)
      BY <2>3, SequenceOf
    <3> QED
      BY <2>1, <3>1 DEF JavaOver, Collections
  <2> QED
    BY <1>3, <2>1, <2>2, <2>3
<1> QED
  BY <1>2, <1>3

\* The same of a map.
LEMMA HashMapOf ==
  ASSUME NEW entries
  PROVE  IF \E e \in entries : Failed(e[1]) \/ Failed(e[2]) THEN Failed(HashMap(entries))
         ELSE /\ HashMap(entries) = <<"HashMap", entries>>
              /\ \A below : entries \subseteq below \X below => HashMap(entries) \in JavaOver(below)
BY DEF HashMap, Failed, Error, JavaOver, Collections

\* What the serializer makes of a value is all of it; or it is refused, for
\* something unsupported.
SerIsWhole(t, v) ==
  IF Unsupported(t, v) THEN Failed(Ser[t][v])
  ELSE /\ ~Failed(Ser[t][v])
       /\ Ser[t][v] \in JavaAt[Height + Depth[t]]
       /\ Shows[t][v][Ser[t][v]]
       /\ t.k \notin {"option", "unit", "newtype"} => Ser[t][v] # Null

\* Of the entries for the fields, one is that of a field.
LEMMA FieldEntries ==
  ASSUME NEW t \in Types, t.k \in {"struct", "bean"}, NEW x, NEW k \in DOMAIN Fields(t),
         NEW j,
         \A i \in DOMAIN Fields(t) : <<JavaString(Fields(t)[i].name), x[i]>> \in j[2],
         \A e \in j[2] : \E i \in DOMAIN Fields(t) : e = <<JavaString(Fields(t)[i].name), x[i]>>
  PROVE  /\ HasKey(j, Fields(t)[k].name)
         /\ Entry(j, Fields(t)[k].name) = <<JavaString(Fields(t)[k].name), x[k]>>
         /\ Entry(j, Fields(t)[k].name) \in j[2]
<1> DEFINE own == <<JavaString(Fields(t)[k].name), x[k]>>
<1>1. own \in j[2] /\ own[1] = JavaString(Fields(t)[k].name)
  OBVIOUS
<1>2. ASSUME NEW e \in j[2], e[1] = JavaString(Fields(t)[k].name) PROVE e = own
  <2>1. PICK i \in DOMAIN Fields(t) : e = <<JavaString(Fields(t)[i].name), x[i]>>
    OBVIOUS
  <2>2. Fields(t)[i].name = Fields(t)[k].name
    BY <1>2, <2>1 DEF JavaString
  <2>3. i = k
    BY <2>2, FieldsOf
  <2> QED
    BY <2>1, <2>3
<1> HIDE DEF own
<1>3. HasKey(j, Fields(t)[k].name) /\ Entry(j, Fields(t)[k].name) = own
  BY <1>1, <1>2 DEF HasKey, Entry
<1> QED
  BY <1>1, <1>3 DEF own

\* A value of one more level is made of what its type's parts are written as.
LEMMA SerStep ==
  ASSUME NEW t \in Types, \A p \in Parts(t) : \A x \in Values[p] : SerIsWhole(p, x),
         NEW v \in Values[t]
  PROVE  SerIsWhole(t, v)
<1> DEFINE Level == JavaAt[Height + Depth[t]]
<1>0. Level \subseteq Java /\ JavaScalars \subseteq Level
  BY JavaLevels
<1>1. ASSUME NEW p \in Parts(t), NEW x \in Values[p]
      PROVE  /\ Unsupported(p, x) <=> Failed(Ser[p][x])
             /\ ~Failed(Ser[p][x]) => /\ Ser[p][x] \in JavaAt[Height + Depth[p]]
                                      /\ Shows[p][x][Ser[p][x]]
                                      /\ p.k \notin {"option", "unit", "newtype"} => Ser[p][x] # Null
  BY DEF SerIsWhole
<1>2. ASSUME Failed(Ser[t][v]) <=> Unsupported(t, v),
             ~Failed(Ser[t][v]) =>
               Ser[t][v] \in Level /\ (Ser[t][v] \in Java => Shows[t][v][Ser[t][v]])
               /\ (t.k \notin {"option", "unit", "newtype"} => Ser[t][v] # Null)
      PROVE  SerIsWhole(t, v)
  BY <1>0, <1>2 DEF SerIsWhole
<1>3. CASE t.k \in Atomic
  <2>1. ~Unsupported(t, v) => Ser[t][v] \in Level /\ ~Failed(Ser[t][v])
    BY <1>0, <1>3, SerOfScalar, ScalarContents
  <2> QED
    BY <1>2, <1>3, <2>1, SerOfScalar
<1>4. ASSUME t.k \notin Atomic
      PROVE  \E below : /\ Level = JavaOver(below)
                        /\ JavaScalars \subseteq below
                        /\ \A p \in Parts(t) : \A x \in Values[p] :
                             ~Failed(Ser[p][x]) => Ser[p][x] \in below
                        /\ below \subseteq Java
  <2>1. PICK below : /\ Level = JavaOver(below)
                     /\ JavaScalars \subseteq below
                     /\ \A p \in Parts(t) : JavaAt[Height + Depth[p]] \subseteq below
    BY <1>4, JavaLevels
  <2>2. below \subseteq Java
    BY <1>0, <2>1 DEF JavaOver
  <2>3. \A p \in Parts(t) : \A x \in Values[p] : ~Failed(Ser[p][x]) => Ser[p][x] \in below
    BY <1>1, <2>1
  <2> QED
    BY <2>1, <2>2, <2>3
<1>5. CASE t.k = "option"
  <2>1. PICK below : /\ Level = JavaOver(below)
                     /\ \A p \in Parts(t) : \A x \in Values[p] :
                          ~Failed(Ser[p][x]) => Ser[p][x] \in below
    BY <1>4, <1>5, OptionIs
  <2>2. CASE v = NoneValue
    <3>1. Ser[t][v] = Null /\ Null \in JavaScalars /\ ~Unsupported(t, v) /\ ~Failed(Null)
      BY <1>5, <2>2, OptionIs DEF JavaScalars, Failed, Null
    <3>2. Ser[t][v] \in Java => Shows[t][v][Ser[t][v]]
      BY <1>5, <2>2, <3>1, OptionIs
    <3> QED
      BY <1>0, <1>2, <1>5, <3>1, <3>2
  <2>3. CASE v # NoneValue
    <3>1. v[2] \in Values[t.of] /\ t.of \in Parts(t)
      BY <1>5, <2>3, OptionIs
    <3>2. Ser[t][v] = Ser[t.of][v[2]] /\ (Unsupported(t, v) <=> Unsupported(t.of, v[2]))
      BY <1>5, <2>3, OptionIs
    <3>3. Ser[t][v] \in Java => (Shows[t][v][Ser[t][v]] <=> Shows[t.of][v[2]][Ser[t][v]])
      BY <1>5, <2>3, OptionIs
    <3>4. ~Failed(Ser[t][v]) => Ser[t][v] \in Level
      BY <2>1, <3>1, <3>2 DEF JavaOver
    <3> QED
      BY <1>1, <1>2, <1>5, <3>1, <3>2, <3>3, <3>4
  <2> QED
    BY <2>2, <2>3
<1>6. CASE t.k = "newtype"
  <2>1. PICK below : /\ Level = JavaOver(below)
                     /\ \A p \in Parts(t) : \A x \in Values[p] :
                          ~Failed(Ser[p][x]) => Ser[p][x] \in below
    BY <1>4, <1>6, NewtypeIs
  <2>2. v[2] \in Values[t.of] /\ t.of \in Parts(t)
    BY <1>6, NewtypeIs
  <2>3. Ser[t][v] = Ser[t.of][v[2]] /\ (Unsupported(t, v) <=> Unsupported(t.of, v[2]))
    BY <1>6, NewtypeIs
  <2>4. Ser[t][v] \in Java => (Shows[t.of][v[2]][Ser[t][v]] => Shows[t][v][Ser[t][v]])
    BY <1>6, NewtypeIs
  <2>5. ~Failed(Ser[t][v]) => Ser[t][v] \in Level
    BY <2>1, <2>2, <2>3 DEF JavaOver
  <2> QED
    BY <1>1, <1>2, <1>6, <2>2, <2>3, <2>4, <2>5
<1>7. CASE t.k = "seq"
  <2>1. PICK below : /\ Level = JavaOver(below)
                     /\ \A p \in Parts(t) : \A x \in Values[p] :
                          ~Failed(Ser[p][x]) => Ser[p][x] \in below
    BY <1>4, <1>7, SeqIs
  <2>2. t.of \in Parts(t) /\ DOMAIN v[2] = 1..Len(v[2]) /\ Len(v[2]) \in Nat
        /\ \A i \in DOMAIN v[2] : v[2][i] \in Values[t.of]
    BY <1>7, SeqIs
  <2> DEFINE n == Len(v[2])
             s == [i \in DOMAIN v[2] |-> Ser[t.of][v[2][i]]]
  <2>21. \A i \in 1..n : v[2][i] \in Values[t.of] /\ t.of \in Parts(t)
    BY <2>2
  <2>22. Ser[t][v] = ArrayList(s)
    BY <1>7, SeqWritten
  <2>23. Unsupported(t, v) <=> \E i \in 1..n : Unsupported(t.of, v[2][i])
    <3>1. Unsupported(t, v) <=> \E i \in DOMAIN v[2] : Unsupported(t.of, v[2][i])
      BY <1>7, SeqWritten
    <3> HIDE DEF s
    <3> QED
      BY <2>2, <3>1
  <2>3. Ser[t][v] = ArrayList(s) /\ (Unsupported(t, v) <=> \E i \in 1..n : Unsupported(t.of, v[2][i]))
    BY <2>22, <2>23
  <2>4. n \in Nat /\ s = [i \in 1..n |-> s[i]] /\ \A i \in 1..n : s[i] = Ser[t.of][v[2][i]]
    BY <2>2
  <2>5. /\ Unsupported(t, v) <=> \E i \in 1..n : Failed(s[i])
        /\ \A i \in 1..n : ~Failed(s[i]) => s[i] \in below /\ Shows[t.of][v[2][i]][s[i]]
    <3> HIDE DEF s, n
    <3> QED
      BY <1>1, <2>1, <2>3, <2>4, <2>21
  <2>6. (Len(s) = n /\ \A i \in 1..n : Shows[t.of][v[2][i]][s[i]])
          => (<<"ArrayList", s>> \in Java => Shows[t][v][<<"ArrayList", s>>])
    <3> HIDE DEF s
    <3>1. ASSUME NEW j \in Java, j[1] = "ArrayList", Len(j[2]) = n,
                 \A i \in 1..n : Shows[t.of][v[2][i]][j[2][i]]
          PROVE  Shows[t][v][j]
      BY <1>7, <2>2, <3>1, SeqShown
    <3>2. <<"ArrayList", s>>[1] = "ArrayList" /\ <<"ArrayList", s>>[2] = s
      OBVIOUS
    <3> QED
      BY <3>1, <3>2
  <2> HIDE DEF s, n
  <2>7. IF Unsupported(t, v) THEN Failed(Ser[t][v])
        ELSE /\ Ser[t][v] = <<"ArrayList", s>> /\ Len(s) = n
             /\ Ser[t][v] \in Level
    BY <2>1, <2>3, <2>4, <2>5, ArrayListOf
  <2>8. ~Failed(<<"ArrayList", s>>) /\ <<"ArrayList", s>> # Null
    BY DEF Failed, Null
  <2> QED
    BY <1>2, <2>5, <2>6, <2>7, <2>8
<1>8. CASE t.k = "tuple"
  <2>1. PICK below : /\ Level = JavaOver(below)
                     /\ \A p \in Parts(t) : \A x \in Values[p] :
                          ~Failed(Ser[p][x]) => Ser[p][x] \in below
    BY <1>4, <1>8, TupleIs
  <2>2. DOMAIN t.parts = 1..Len(t.parts) /\ Len(t.parts) \in Nat
        /\ \A i \in DOMAIN t.parts : t.parts[i] \in Parts(t) /\ v[2][i] \in Values[t.parts[i]]
    BY <1>8, TupleIs
  <2> DEFINE n == Len(t.parts)
             s == [i \in DOMAIN t.parts |-> Ser[t.parts[i]][v[2][i]]]
  <2>21. \A i \in 1..n : v[2][i] \in Values[t.parts[i]] /\ t.parts[i] \in Parts(t)
    BY <2>2
  <2>22. Ser[t][v] = ArrayList(s)
    BY <1>8, TupleWritten
  <2>23. Unsupported(t, v) <=> \E i \in 1..n : Unsupported(t.parts[i], v[2][i])
    <3>1. Unsupported(t, v) <=> \E i \in DOMAIN t.parts : Unsupported(t.parts[i], v[2][i])
      BY <1>8, TupleWritten
    <3> HIDE DEF s
    <3> QED
      BY <2>2, <3>1
  <2>3. Ser[t][v] = ArrayList(s) /\ (Unsupported(t, v) <=> \E i \in 1..n : Unsupported(t.parts[i], v[2][i]))
    BY <2>22, <2>23
  <2>4. n \in Nat /\ s = [i \in 1..n |-> s[i]] /\ \A i \in 1..n : s[i] = Ser[t.parts[i]][v[2][i]]
    BY <2>2
  <2>5. /\ Unsupported(t, v) <=> \E i \in 1..n : Failed(s[i])
        /\ \A i \in 1..n : ~Failed(s[i]) => s[i] \in below /\ Shows[t.parts[i]][v[2][i]][s[i]]
    <3> HIDE DEF s, n
    <3> QED
      BY <1>1, <2>1, <2>3, <2>4, <2>21
  <2>6. (Len(s) = n /\ \A i \in 1..n : Shows[t.parts[i]][v[2][i]][s[i]])
          => (<<"ArrayList", s>> \in Java => Shows[t][v][<<"ArrayList", s>>])
    <3> HIDE DEF s
    <3>1. ASSUME NEW j \in Java, j[1] = "ArrayList", Len(j[2]) = n,
                 \A i \in 1..n : Shows[t.parts[i]][v[2][i]][j[2][i]]
          PROVE  Shows[t][v][j]
      <4>1. \A i \in DOMAIN t.parts : Shows[t.parts[i]][v[2][i]][j[2][i]]
        BY <2>2, <3>1
      <4>2. Len(j[2]) >= Len(t.parts)
        <5>1. Len(t.parts) \in Nat
          BY <2>2
        <5>2. Len(j[2]) = Len(t.parts)
          BY <3>1
        <5> QED
          BY <5>1, <5>2
      <4> QED
        BY <1>8, <3>1, <4>1, <4>2, TupleShown
    <3>2. <<"ArrayList", s>>[1] = "ArrayList" /\ <<"ArrayList", s>>[2] = s
      OBVIOUS
    <3> QED
      BY <3>1, <3>2
  <2> HIDE DEF s, n
  <2>7. IF Unsupported(t, v) THEN Failed(Ser[t][v])
        ELSE /\ Ser[t][v] = <<"ArrayList", s>> /\ Len(s) = n
             /\ Ser[t][v] \in Level
    BY <2>1, <2>3, <2>4, <2>5, ArrayListOf
  <2>8. ~Failed(<<"ArrayList", s>>) /\ <<"ArrayList", s>> # Null
    BY DEF Failed, Null
  <2> QED
    BY <1>2, <2>5, <2>6, <2>7, <2>8
<1>9. CASE t.k = "map"
  <2>1. PICK below : /\ Level = JavaOver(below)
                     /\ \A p \in Parts(t) : \A x \in Values[p] :
                          ~Failed(Ser[p][x]) => Ser[p][x] \in below
    BY <1>4, <1>9, MapIs
  <2>2. /\ t.key \in Parts(t) /\ t.of \in Parts(t)
        /\ \A e \in v[2] : e[1] \in Values[t.key] /\ e[2] \in Values[t.of]
    BY <1>9, MapIs
  <2> DEFINE entries == {<<Ser[t.key][e[1]], Ser[t.of][e[2]]>> : e \in v[2]}
             j == <<"HashMap", entries>>
  <2>3. /\ Ser[t][v] = HashMap(entries)
        /\ Unsupported(t, v) <=> \E e \in v[2] : Unsupported(t.key, e[1]) \/ Unsupported(t.of, e[2])
    BY <1>9, MapWritten
  <2>4. Unsupported(t, v) <=> \E d \in entries : Failed(d[1]) \/ Failed(d[2])
    <3>1. \A e \in v[2] : /\ Unsupported(t.key, e[1]) <=> Failed(Ser[t.key][e[1]])
                          /\ Unsupported(t.of, e[2]) <=> Failed(Ser[t.of][e[2]])
      BY <1>1, <2>2
    <3>2. \A e \in v[2] : <<Ser[t.key][e[1]], Ser[t.of][e[2]]>> \in entries
      OBVIOUS
    <3>3. \A d \in entries : \E e \in v[2] : d = <<Ser[t.key][e[1]], Ser[t.of][e[2]]>>
      OBVIOUS
    <3> HIDE DEF entries
    <3>4. ASSUME NEW e \in v[2], Unsupported(t.key, e[1]) \/ Unsupported(t.of, e[2])
          PROVE  \E d \in entries : Failed(d[1]) \/ Failed(d[2])
      BY <3>1, <3>2, <3>4
    <3>5. ASSUME NEW d \in entries, Failed(d[1]) \/ Failed(d[2])
          PROVE  \E e \in v[2] : Unsupported(t.key, e[1]) \/ Unsupported(t.of, e[2])
      <4>1. PICK e \in v[2] : d = <<Ser[t.key][e[1]], Ser[t.of][e[2]]>>
        BY <3>3
      <4>2. Failed(Ser[t.key][e[1]]) \/ Failed(Ser[t.of][e[2]])
        BY <3>5, <4>1
      <4> QED
        BY <3>1, <4>2
    <3> QED
      BY <2>3, <3>4, <3>5
  <2>5. CASE Unsupported(t, v)
    <3>1. Failed(Ser[t][v])
      <4> HIDE DEF entries
      <4> QED
        BY <2>3, <2>4, <2>5, HashMapOf
    <3> QED
      BY <1>2, <2>5, <3>1
  <2>6. CASE ~Unsupported(t, v)
    <3>1. \A e \in v[2] : /\ Ser[t.key][e[1]] \in below /\ Ser[t.of][e[2]] \in below
                          /\ Shows[t.key][e[1]][Ser[t.key][e[1]]]
                          /\ Shows[t.of][e[2]][Ser[t.of][e[2]]]
      BY <1>1, <2>1, <2>2, <2>3, <2>6
    <3>2. entries \subseteq below \X below
      BY <3>1
    <3>3. Ser[t][v] = j /\ j \in Level
      <4> HIDE DEF entries
      <4> QED
        BY <2>1, <2>3, <2>4, <2>6, <3>2, HashMapOf
    <3>4. /\ \A e \in v[2] : \E d \in j[2] : Shows[t.key][e[1]][d[1]] /\ Shows[t.of][e[2]][d[2]]
          /\ \A d \in j[2] : \E e \in v[2] : Shows[t.key][e[1]][d[1]]
          /\ j[1] = "HashMap"
      <4>1. j[1] = "HashMap" /\ j[2] = entries
        OBVIOUS
      <4>2. ASSUME NEW e \in v[2]
            PROVE  \E d \in entries : Shows[t.key][e[1]][d[1]] /\ Shows[t.of][e[2]][d[2]]
        <5>1. <<Ser[t.key][e[1]], Ser[t.of][e[2]]>> \in entries
          OBVIOUS
        <5> HIDE DEF entries
        <5> QED
          BY <3>1, <5>1
      <4>3. ASSUME NEW d \in entries PROVE \E e \in v[2] : Shows[t.key][e[1]][d[1]]
        <5>1. PICK e \in v[2] : d = <<Ser[t.key][e[1]], Ser[t.of][e[2]]>>
          OBVIOUS
        <5> QED
          BY <3>1, <5>1
      <4> HIDE DEF entries, j
      <4> QED
        BY <4>1, <4>2, <4>3
    <3>5. ~Failed(j) /\ j # Null
      BY DEF Failed, Null
    <3> HIDE DEF j
    <3>6. j \in Java => Shows[t][v][j]
      BY <1>9, <3>4, MapShown
    <3> QED
      BY <1>2, <2>6, <3>3, <3>5, <3>6
  <2> QED
    BY <2>5, <2>6
<1>10. CASE t.k \in {"struct", "bean"}
  <2>1. PICK below : /\ Level = JavaOver(below)
                     /\ JavaScalars \subseteq below
                     /\ \A p \in Parts(t) : \A x \in Values[p] :
                          ~Failed(Ser[p][x]) => Ser[p][x] \in below
                     /\ below \subseteq Java
    BY <1>4, <1>10, FieldsAre
  <2> DEFINE D == DOMAIN Fields(t)
             x == [i \in D |-> Ser[Fields(t)[i].type][FieldValues(t, v)[i]]]
             entries == {<<JavaString(Fields(t)[i].name), x[i]>> : i \in D}
             j == <<"HashMap", entries>>
  <2>2. /\ Ser[t][v] = HashMap(entries)
        /\ Unsupported(t, v) <=> \E i \in D : Unsupported(Fields(t)[i].type, FieldValues(t, v)[i])
    <3>1. Ser[t][v] = HashMap({<<JavaString(Fields(t)[i].name),
                                 Ser[Fields(t)[i].type][FieldValues(t, v)[i]]>> : i \in D})
      BY <1>10, FieldsAre
    <3>2. {<<JavaString(Fields(t)[i].name), Ser[Fields(t)[i].type][FieldValues(t, v)[i]]>> : i \in D}
            = entries
      OBVIOUS
    <3> QED
      BY <1>10, <3>1, <3>2, FieldsAre
  <2>3. \A i \in D : /\ Fields(t)[i].type \in Parts(t) /\ Fields(t)[i].name \in Texts
                     /\ FieldValues(t, v)[i] \in Values[Fields(t)[i].type]
    BY <1>10, FieldsAre
  <2>4. \A i \in D : /\ Unsupported(Fields(t)[i].type, FieldValues(t, v)[i]) <=> Failed(x[i])
                     /\ ~Failed(x[i]) =>
                          x[i] \in below /\ Shows[Fields(t)[i].type][FieldValues(t, v)[i]][x[i]]
    BY <1>1, <2>1, <2>3
  <2>5. Unsupported(t, v) <=> \E d \in entries : Failed(d[1]) \/ Failed(d[2])
    <3>1. \A i \in D : ~Failed(JavaString(Fields(t)[i].name))
      BY DEF Failed, JavaString
    <3> HIDE DEF x
    <3>2. \A i \in D : <<JavaString(Fields(t)[i].name), x[i]>> \in entries
      OBVIOUS
    <3>3. \A d \in entries : \E i \in D : d = <<JavaString(Fields(t)[i].name), x[i]>>
      OBVIOUS
    <3> HIDE DEF entries
    <3>4. ASSUME NEW i \in D, Failed(x[i]) PROVE \E d \in entries : Failed(d[1]) \/ Failed(d[2])
      BY <3>2, <3>4
    <3>5. ASSUME NEW d \in entries, Failed(d[1]) \/ Failed(d[2]) PROVE \E i \in D : Failed(x[i])
      <4>1. PICK i \in D : d = <<JavaString(Fields(t)[i].name), x[i]>>
        BY <3>3
      <4>2. Failed(JavaString(Fields(t)[i].name)) \/ Failed(x[i])
        BY <3>5, <4>1
      <4> QED
        BY <3>1, <4>2
    <3> QED
      BY <2>2, <2>4, <3>4, <3>5
  <2>6. CASE Unsupported(t, v)
    <3>1. Failed(Ser[t][v])
      <4> HIDE DEF entries
      <4> QED
        BY <2>2, <2>5, <2>6, HashMapOf
    <3> QED
      BY <1>2, <2>6, <3>1
  <2>7. CASE ~Unsupported(t, v)
    <3>1. \A i \in D : x[i] \in below /\ Shows[Fields(t)[i].type][FieldValues(t, v)[i]][x[i]]
      <4> HIDE DEF x
      <4> QED
        BY <2>2, <2>4, <2>7
    <3>2. entries \subseteq below \X below
      <4>1. \A i \in D : JavaString(Fields(t)[i].name) \in below
        BY <2>1, <2>3 DEF JavaScalars, JavaString
      <4> HIDE DEF x
      <4> QED
        BY <3>1, <4>1
    <3>3. Ser[t][v] = j /\ j \in Level
      <4> HIDE DEF entries
      <4> QED
        BY <2>1, <2>2, <2>5, <2>7, <3>2, HashMapOf
    <3>4. ~Failed(j) /\ j # Null /\ j[1] = "HashMap" /\ j[2] = entries
      BY DEF Failed, Null
    <3>5. ASSUME NEW i \in D
          PROVE  /\ HasKey(j, Fields(t)[i].name) /\ Entry(j, Fields(t)[i].name)[2] = x[i]
                 /\ Entry(j, Fields(t)[i].name) = <<JavaString(Fields(t)[i].name), x[i]>>
      <4>1. /\ \A k \in DOMAIN Fields(t) : <<JavaString(Fields(t)[k].name), x[k]>> \in j[2]
            /\ \A e \in j[2] : \E k \in DOMAIN Fields(t) : e = <<JavaString(Fields(t)[k].name), x[k]>>
        <5> HIDE DEF x
        <5> QED
          BY <3>4
      <4>0. i \in DOMAIN Fields(t)
        OBVIOUS
      <4> HIDE DEF j, x, D
      <4>2. /\ HasKey(j, Fields(t)[i].name)
            /\ Entry(j, Fields(t)[i].name) = <<JavaString(Fields(t)[i].name), x[i]>>
            /\ Entry(j, Fields(t)[i].name) \in j[2]
        BY <1>10, <4>0, <4>1, FieldEntries
      <4> QED
        BY <3>4, <4>2
    <3>6. CASE t.k = "struct"
      <4>1. D = DOMAIN t.fields /\ Fields(t) = t.fields /\ FieldValues(t, v) = v[2]
        BY <3>6, StructIs
      <4> HIDE DEF j, x, entries
      <4>2. \A i \in DOMAIN t.fields : ShowsField(t.fields[i], Shows[t.fields[i].type], v[2][i], j)
        <5> SUFFICES ASSUME NEW i \in DOMAIN t.fields
                     PROVE  ShowsField(t.fields[i], Shows[t.fields[i].type], v[2][i], j)
          OBVIOUS
        <5>1. i \in D /\ Fields(t)[i] = t.fields[i] /\ FieldValues(t, v)[i] = v[2][i]
          BY <4>1
        <5>2. HasKey(j, t.fields[i].name) /\ Entry(j, t.fields[i].name)[2] = x[i]
          BY <3>5, <5>1
        <5>3. Shows[t.fields[i].type][v[2][i]][x[i]]
          BY <3>1, <5>1
        <5> QED
          BY <3>4, <5>2, <5>3 DEF ShowsField
      <4>3. j \in Java => Shows[t][v][j]
        BY <3>4, <3>6, <4>2, StructIs
      <4> QED
        BY <1>2, <2>7, <3>3, <3>4, <4>3
    <3>7. CASE t.k = "bean"
      <4>1. /\ Fields(t) = <<[name |-> ClassKey, type |-> [k |-> "str"]], [name |-> ValueKey, type |-> t.of]>>
            /\ FieldValues(t, v) = <<<<"str", t.class>>, v[2]>>
        BY <3>7, BeanIs
      <4>2. /\ 1 \in D /\ 2 \in D /\ \A i \in D : i = 1 \/ i = 2
            /\ Fields(t)[1].name = ClassKey /\ Fields(t)[2].name = ValueKey
            /\ Fields(t)[2].type = t.of /\ FieldValues(t, v)[2] = v[2]
        BY <4>1
      <4>3. entries = {<<JavaString(ClassKey), x[1]>>, <<JavaString(ValueKey), x[2]>>}
        <5> HIDE DEF x
        <5> QED
          BY <4>2
      <4>5. Shows[t.of][v[2]][x[2]]
        <5> HIDE DEF x
        <5> QED
          BY <3>1, <4>2
      <4> HIDE DEF j, x, entries
      <4>6. 1 \in DOMAIN Fields(t) /\ 2 \in DOMAIN Fields(t)
        BY <4>2
      <4> HIDE DEF D
      <4>7. /\ Entry(j, ClassKey) = <<JavaString(ClassKey), x[1]>>
            /\ Entry(j, ValueKey) = <<JavaString(ValueKey), x[2]>>
            /\ HasKey(j, ClassKey) /\ HasKey(j, ValueKey)
        BY <3>5, <4>2
      <4>8. IsBeanMarkerMap(j) /\ Entry(j, ValueKey)[2] = x[2]
        BY <3>4, <4>3, <4>7 DEF IsBeanMarkerMap
      <4>9. j \in Java => Shows[t][v][j]
        BY <3>7, <4>5, <4>8, BeanIs
      <4> QED
        BY <1>2, <2>7, <3>3, <3>4, <4>9
    <3> QED
      BY <1>10, <3>6, <3>7
  <2> QED
    BY <2>6, <2>7
<1> QED
  BY <1>3, <1>5, <1>6, <1>7, <1>8, <1>9, <1>10, TypeShape

\* So is every value.
LEMMA SerWhole == \A t \in Types : \A v \in Values[t] : SerIsWhole(t, v)
<1> DEFINE Good == {t \in Types : \A v \in Values[t] : SerIsWhole(t, v)}
<1>1. ASSUME NEW t \in Types, \A p \in Parts(t) : p \in Good PROVE t \in Good
  BY <1>1, SerStep
<1> HIDE DEF Good
<1>2. Types \subseteq Good
  BY <1>1, TypeInduction
<1> QED
  BY <1>2 DEF Good

-----------------------------------------------------------------------------
(***************************************************************************)
(* A bean that is built has the values of the fields as its properties.    *)
(***************************************************************************)

\* Some positions have a first one.
LEMMA FirstOf ==
  ASSUME NEW n \in Nat, NEW S, S \subseteq 1..n, S # {}
  PROVE  \E i \in S : \A k \in S : i <= k
<1>1. IsWellFoundedOn(Less, Nat)
  BY NatLessThanWellFounded, Zenon DEF OpToRel, Less
<1>2. S \subseteq Nat
  OBVIOUS
<1>3. PICK i \in S : \A k \in S : <<k, i>> \notin Less
  BY <1>1, <1>2, WFMin
<1> SUFFICES ASSUME NEW k \in S, k < i PROVE FALSE
  BY <1>2, <1>3
<1>4. <<k, i>> \in Less
  BY <1>2 DEF Less
<1> QED
  BY <1>3, <1>4

\* And a last one.
LEMMA LastOf ==
  ASSUME NEW n \in Nat, NEW S, S \subseteq 1..n, S # {}
  PROVE  \E i \in S : \A k \in S : k <= i
<1> DEFINE T == {n + 1 - k : k \in S}
<1>1. T \subseteq 1..n /\ T # {}
  <2>1. \A k \in S : n + 1 - k \in 1..n
    OBVIOUS
  <2>2. PICK k \in S : TRUE
    OBVIOUS
  <2> QED
    BY <2>1, <2>2
<1>2. PICK m \in T : \A l \in T : m <= l
  <2> HIDE DEF T
  <2> QED
    BY <1>1, FirstOf
<1>3. PICK i \in S : m = n + 1 - i
  BY <1>2
<1>4. \A k \in S : m <= n + 1 - k
  BY <1>2
<1> QED
  BY <1>3, <1>4

\* A class has the properties of its own among those of all.
LEMMA PropertiesAre ==
  ASSUME NEW class \in DOMAIN Classes
  PROVE  /\ Properties(class) \subseteq AllProperties
         /\ \A g \in Classes[class].getters : g.prop \in Properties(class)
         /\ IF Classes[class].record THEN IsRecord(Classes[class]) ELSE IsPlain(Classes[class])
         /\ OneProperty(Classes[class]) /\ ReservesKey(Classes[class])
         /\ \A s \in Classes[class].setters : s.prop \in Properties(class)
<1>1. /\ \A g \in Classes[class].getters : g.prop \in Properties(class)
      /\ IsRecord(Classes[class]) \/ IsPlain(Classes[class])
      /\ OneProperty(Classes[class]) /\ ReservesKey(Classes[class])
  BY ClassesAssumption
<1>2. Properties(class) \subseteq AllProperties
  BY DEF AllProperties
<1> QED
  BY <1>1, <1>2 DEF IsRecord, IsPlain, Properties

\* What accessors read is a property that the name may mean, or they fail.
LEMMA GetterIs ==
  ASSUME NEW o, o[2] \in DOMAIN Classes, NEW name
  PROVE  \/ Getter(o, name) \in {Error("no getter"), Error("exception")}
         \/ \E g \in Classes[o[2]].getters :
              /\ \/ g.name \in {"get", "is"} \X {CamelCase[name]}
                 \/ Classes[o[2]].record /\ g.name = <<"", name>>
              /\ Getter(o, name) = o[3][g.prop]
<1> DEFINE tried == Accessors(o[2], name)
           Is(i) == {g \in Classes[o[2]].getters : g.name = tried[i]}
           found == {i \in DOMAIN tried : Is(i) # {}}
           first == CHOOSE i \in found : \A k \in found : i <= k
           getter == CHOOSE g \in Is(first) : TRUE
<1>1. Getter(o, name) = IF found = {} THEN Error("no getter")
                        ELSE IF getter.throws THEN Error("exception")
                        ELSE o[3][getter.prop]
  BY DEF Getter
<1>2. /\ Len(tried) \in Nat /\ DOMAIN tried = 1..Len(tried)
      /\ \A i \in DOMAIN tried : \/ tried[i] \in {"get", "is"} \X {CamelCase[name]}
                                 \/ Classes[o[2]].record /\ tried[i] = <<"", name>>
  <2>1. PICK get, is, bare : get = <<"get", CamelCase[name]>> /\ is = <<"is", CamelCase[name]>>
                             /\ bare = <<"", name>>
    OBVIOUS
  <2> DEFINE a == <<get, is>>
             b == IF Classes[o[2]].record THEN <<bare>> ELSE <<>>
             S == {get, is, bare}
  <2>2. tried = a \o b
    BY <2>1 DEF Accessors
  <2>3. a \in Seq(S) /\ Len(a) = 2 /\ a[1] = get /\ a[2] = is
    OBVIOUS
  <2>4. /\ b \in Seq(S) /\ Len(b) \in Nat
        /\ Len(b) = IF Classes[o[2]].record THEN 1 ELSE 0
        /\ Len(b) = 1 => b[1] = bare
    <3>1. <<bare>> \in Seq(S) /\ Len(<<bare>>) = 1 /\ <<bare>>[1] = bare
      OBVIOUS
    <3>2. <<>> \in Seq(S) /\ Len(<<>>) = 0
      OBVIOUS
    <3> HIDE DEF S
    <3> QED
      BY <3>1, <3>2
  <2> HIDE DEF tried, a, b, S
  <2>5. /\ a \o b \in Seq(S) /\ Len(a \o b) = Len(a) + Len(b)
        /\ \A i \in 1..(Len(a) + Len(b)) : (a \o b)[i] = IF i <= Len(a) THEN a[i] ELSE b[i - Len(a)]
    BY <2>3, <2>4, ConcatProperties
  <2>6. Len(tried) \in Nat /\ DOMAIN tried = 1..Len(tried) /\ Len(tried) = 2 + Len(b)
    BY <2>2, <2>3, <2>5
  <2>7. \A i \in 1..(2 + Len(b)) : tried[i] = IF i <= 2 THEN a[i] ELSE b[i - 2]
    BY <2>2, <2>3, <2>5
  <2>8. tried[1] = get /\ tried[2] = is /\ (Len(b) = 1 => tried[3] = bare)
    BY <2>3, <2>4, <2>7
  <2> SUFFICES ASSUME NEW i \in DOMAIN tried
               PROVE  \/ tried[i] \in {"get", "is"} \X {CamelCase[name]}
                      \/ Classes[o[2]].record /\ tried[i] = <<"", name>>
    BY <2>6
  <2>9. i = 1 \/ i = 2 \/ (i = 3 /\ Len(b) = 1)
    BY <2>4, <2>6
  <2>10. get \in {"get", "is"} \X {CamelCase[name]} /\ is \in {"get", "is"} \X {CamelCase[name]}
    BY <2>1
  <2>11. CASE i = 1 \/ i = 2
    BY <2>8, <2>10, <2>11
  <2>12. CASE i = 3 /\ Len(b) = 1
    <3>1. Classes[o[2]].record
      BY <2>4, <2>12
    <3>2. tried[i] = <<"", name>>
      BY <2>1, <2>8, <2>12
    <3> QED
      BY <3>1, <3>2
  <2> QED
    BY <2>9, <2>11, <2>12
<1>3. ASSUME found # {} PROVE getter \in Classes[o[2]].getters /\ first \in DOMAIN tried
                              /\ getter.name = tried[first]
  <2>1. first \in found
    <3>1. found \subseteq 1..Len(tried) /\ Len(tried) \in Nat
      BY <1>2
    <3> HIDE DEF found, tried
    <3>2. \E i \in found : \A k \in found : i <= k
      BY <1>3, <3>1, FirstOf
    <3> QED
      BY <3>2
  <2>2. Is(first) # {} /\ first \in DOMAIN tried
    <3> HIDE DEF first, tried
    <3> QED
      BY <2>1
  <2>3. getter \in Is(first)
    <3> HIDE DEF first, Is
    <3> QED
      BY <2>2
  <2> HIDE DEF first, getter, tried
  <2> QED
    BY <2>2, <2>3
<1> HIDE DEF first, getter, tried, found
<1> QED
  BY <1>1, <1>2, <1>3

\* A bean is built as a record is, or by setters.
LEMMA BuildIs ==
  ASSUME NEW class, NEW n \in Nat, NEW captured, captured[1] = "pairs", DOMAIN captured[2] = 1..n,
         ~Failed(Build(class, captured))
  PROVE  /\ class \in DOMAIN Classes
         /\ \A i \in 1..n : ~Failed(captured[2][i].value)
         /\ Build(class, captured) =
              IF Classes[class].record THEN BuildRecord(class, captured[2]) ELSE SetAll(class, captured[2])
<1> DEFINE failed == {i \in DOMAIN captured[2] : Failed(captured[2][i].value)}
<1>1. ~Failed(captured)
  BY DEF Failed
<1>2. Build(class, captured) =
        IF failed # {} THEN captured[2][CHOOSE i \in failed : \A j \in failed : i <= j].value
        ELSE IF class \notin DOMAIN Classes THEN Error("no class")
        ELSE IF Classes[class].record THEN BuildRecord(class, captured[2])
        ELSE IF ~Classes[class].constructor THEN Error("no constructor")
        ELSE IF Classes[class].throws THEN Error("exception")
        ELSE SetAll(class, captured[2])
  BY <1>1 DEF Build
<1>3. failed = {}
  <2> SUFFICES ASSUME failed # {} PROVE FALSE
    OBVIOUS
  <2>1. failed \subseteq 1..n
    OBVIOUS
  <2> HIDE DEF failed
  <2>2. \E i \in failed : \A j \in failed : i <= j
    BY <2>1, FirstOf
  <2>3. (CHOOSE i \in failed : \A j \in failed : i <= j) \in failed
    BY <2>2
  <2>4. \A i \in failed : Failed(captured[2][i].value)
    BY DEF failed
  <2> QED
    BY <1>2, <2>3, <2>4
<1>4. \A kind : Failed(Error(kind))
  BY DEF Failed, Error
<1> HIDE DEF failed
<1> QED
  BY <1>2, <1>3, <1>4 DEF failed

\* By setters, it has what the last call for each property left.
LEMMA SetAllIs ==
  ASSUME NEW class \in DOMAIN Classes, NEW n \in Nat, NEW pairs, DOMAIN pairs = 1..n,
         ~Failed(SetAll(class, pairs))
  PROVE  /\ SetAll(class, pairs) = AfterCalls(class, pairs, 1..n)
         /\ \A i \in 1..n : Setter(class, pairs[i]) \in Setters(class, pairs[i])
<1> DEFINE missing == {i \in DOMAIN pairs : Setters(class, pairs[i]) = {}}
           throwing == {i \in DOMAIN pairs \ missing : Setter(class, pairs[i]).throws}
           first == CHOOSE i \in missing \cup throwing : \A k \in missing \cup throwing : i <= k
<1>1. SetAll(class, pairs) =
        IF missing \cup throwing = {} THEN AfterCalls(class, pairs, DOMAIN pairs)
        ELSE Error(IF first \in missing THEN "no setter" ELSE "exception")
  BY DEF SetAll
<1>2. \A kind : Failed(Error(kind))
  BY DEF Failed, Error
<1>3. missing \cup throwing = {}
  <2> HIDE DEF missing, throwing, first
  <2> QED
    BY <1>1, <1>2
<1>4. SetAll(class, pairs) = AfterCalls(class, pairs, 1..n)
  <2> HIDE DEF missing, throwing, first
  <2> QED
    BY <1>1, <1>3
<1>5. ASSUME NEW i \in 1..n PROVE Setters(class, pairs[i]) # {}
  <2>1. missing = {}
    <3> HIDE DEF missing, throwing
    <3> QED
      BY <1>3
  <2> QED
    BY <2>1
<1> QED
  BY <1>4, <1>5 DEF Setter

\* What is left of a property.
LEMMA CallsLeave ==
  ASSUME NEW class \in DOMAIN Classes, NEW n \in Nat, NEW pairs, NEW p \in AllProperties
  PROVE  LET ofProp == {i \in 1..n : Setter(class, pairs[i]).prop = p}
             left == AfterCalls(class, pairs, 1..n)[3][p]
         IN IF p \notin Properties(class) THEN left = Null
            ELSE IF ofProp = {} THEN left = Classes[class].initial[p]
            ELSE \E i \in ofProp : left = pairs[i].value
<1> DEFINE ofProp == {i \in 1..n : Setter(class, pairs[i]).prop = p}
           last == CHOOSE i \in ofProp : \A k \in ofProp : k <= i
           left == AfterCalls(class, pairs, 1..n)[3][p]
<1>1. left = IF p \notin Properties(class) THEN Null
             ELSE IF ofProp = {} THEN Classes[class].initial[p]
             ELSE pairs[last].value
  BY DEF AfterCalls
<1>2. ofProp # {} => last \in ofProp
  <2>1. ofProp \subseteq 1..n
    OBVIOUS
  <2> HIDE DEF ofProp
  <2> QED
    BY <2>1, LastOf
<1> HIDE DEF left, last, ofProp
<1>3. IF p \notin Properties(class) THEN left = Null
      ELSE IF ofProp = {} THEN left = Classes[class].initial[p]
      ELSE \E i \in ofProp : left = pairs[i].value
  BY <1>1, <1>2
<1> QED
  BY <1>3 DEF left, ofProp

\* A record has the values of the fields that its components are.
HoldsPairs(o, class, n, pairs) ==
  /\ o = <<"object", class, o[3]>> /\ o[3] = [p \in AllProperties |-> o[3][p]]
  /\ DOMAIN Classes[class].components = 1..n
  /\ \A i \in 1..n : /\ Classes[class].components[i].name = pairs[i].name
                     /\ pairs[i].name \in Properties(class)
                     /\ o[3][pairs[i].name] = pairs[i].value
  /\ \A p \in AllProperties : o[3][p] = Null \/ \E i \in 1..n : o[3][p] = pairs[i].value

\* A record that is built holds the pairs.
LEMMA BuildRecordIs ==
  ASSUME NEW class \in DOMAIN Classes, Classes[class].record, NEW n \in Nat, NEW pairs,
         DOMAIN pairs = 1..n, ~Failed(BuildRecord(class, pairs))
  PROVE  HoldsPairs(BuildRecord(class, pairs), class, n, pairs)
<1> DEFINE components == Classes[class].components
           names == [i \in DOMAIN components |-> components[i].name]
           given == [i \in DOMAIN pairs |-> pairs[i].name]
           at(p) == CHOOSE i \in DOMAIN names : names[i] = p
           has == [p \in AllProperties |-> IF p \notin Properties(class) THEN Null ELSE pairs[at(p)].value]
           o == BuildRecord(class, pairs)
<1>1. names = given /\ o = <<"object", class, has>>
  <2>1. \A kind : Failed(Error(kind))
    BY DEF Failed, Error
  <2>2. o = IF names # given THEN Error("order")
            ELSE IF \E i \in DOMAIN pairs : ~Takes(components[i].param, pairs[i].value)
              THEN Error("no constructor")
            ELSE IF Classes[class].throws THEN Error("exception")
            ELSE <<"object", class, has>>
    BY DEF BuildRecord
  <2> HIDE DEF names, given, has
  <2> QED
    BY <2>1, <2>2
<1>2. DOMAIN components = 1..n /\ \A i \in 1..n : components[i].name = pairs[i].name
  <2>1. DOMAIN names = DOMAIN components /\ DOMAIN given = 1..n
    OBVIOUS
  <2>2. DOMAIN names = DOMAIN given /\ \A i \in DOMAIN given : names[i] = given[i]
    <3> HIDE DEF names, given
    <3> QED
      BY <1>1
  <2>3. \A i \in 1..n : names[i] = components[i].name /\ given[i] = pairs[i].name
    BY <2>1, <2>2
  <2> HIDE DEF names, given
  <2> QED
    BY <2>1, <2>2, <2>3
<1>3. Properties(class) = {components[i].name : i \in 1..n}
  BY <1>2 DEF Properties
<1>4. \A i, j \in 1..n : components[i].name = components[j].name => i = j
  BY <1>2, PropertiesAre DEF IsRecord
<1>5. ASSUME NEW i \in 1..n
      PROVE  pairs[i].name \in Properties(class) /\ at(pairs[i].name) = i
  <2>1. pairs[i].name \in Properties(class)
    BY <1>2, <1>3
  <2>2. DOMAIN names = 1..n /\ \A k \in 1..n : names[k] = components[k].name
    BY <1>2
  <2> HIDE DEF names
  <2>3. i \in DOMAIN names /\ names[i] = pairs[i].name /\ \A k \in DOMAIN names : names[k] = pairs[i].name => k = i
    BY <1>2, <1>4, <2>2
  <2> QED
    BY <2>1, <2>3
<1>6. Properties(class) \subseteq AllProperties
  BY PropertiesAre
<1> HIDE DEF at
<1>7. \A i \in 1..n : has[pairs[i].name] = pairs[i].value
  BY <1>5, <1>6
<1>8. ASSUME NEW p \in AllProperties PROVE has[p] = Null \/ \E i \in 1..n : has[p] = pairs[i].value
  <2>1. CASE p \in Properties(class)
    <3>1. PICK i \in 1..n : p = pairs[i].name
      BY <1>2, <1>3, <2>1
    <3> HIDE DEF has
    <3> QED
      BY <1>7, <3>1
  <2>2. CASE p \notin Properties(class)
    BY <2>2
  <2> QED
    BY <2>1, <2>2
<1>9. DOMAIN has = AllProperties /\ has = [p \in AllProperties |-> has[p]]
  OBVIOUS
<1>10. o[3] = has /\ o = <<"object", class, has>>
  <2> HIDE DEF has, o
  <2> QED
    BY <1>1
<1> HIDE DEF has, o, names
<1> QED
  BY <1>2, <1>5, <1>7, <1>8, <1>9, <1>10 DEF HoldsPairs, o
\* All of it is made of the values of the fields, and of what the class's
\* constructor leaves.
LEMMA BuiltIsJava ==
  ASSUME NEW class, NEW n \in Nat, NEW captured, captured[1] = "pairs", DOMAIN captured[2] = 1..n,
         ~Failed(Build(class, captured)),
         NEW below, JavaAt[Height] \subseteq below, Null \in below,
         \A i \in 1..n : Failed(captured[2][i].value) \/ captured[2][i].value \in below
  PROVE  LET o == Build(class, captured)
         IN /\ class \in DOMAIN Classes /\ o = <<"object", class, o[3]>>
            /\ o[3] \in [AllProperties -> below]
            /\ o \in JavaOver(below)
<1> DEFINE o == Build(class, captured)
           pairs == captured[2]
<1>1. class \in DOMAIN Classes /\ \A i \in 1..n : ~Failed(pairs[i].value)
  BY BuildIs
<1>2. \A i \in 1..n : pairs[i].value \in below
  BY <1>1
<1>3. DOMAIN pairs = 1..n
  OBVIOUS
<1>4. o = IF Classes[class].record THEN BuildRecord(class, pairs) ELSE SetAll(class, pairs)
  BY BuildIs
<1>5. ~Failed(o)
  OBVIOUS
<1> HIDE DEF o, pairs
<1>6. ASSUME Classes[class].record
      PROVE  o = <<"object", class, o[3]>> /\ o[3] \in [AllProperties -> below]
  <2> DEFINE r == BuildRecord(class, pairs)
  <2>1. r = o /\ ~Failed(r)
    BY <1>4, <1>5, <1>6
  <2>2. HoldsPairs(r, class, n, pairs)
    BY <1>1, <1>3, <1>6, <2>1, BuildRecordIs
  <2> HIDE DEF r
  <2>3. \A p \in AllProperties : r[3][p] \in below
    BY <1>2, <2>2 DEF HoldsPairs
  <2>4. r[3] \in [AllProperties -> below]
    BY <2>2, <2>3 DEF HoldsPairs
  <2> QED
    BY <2>1, <2>2, <2>4 DEF HoldsPairs
<1>7. ASSUME ~Classes[class].record
      PROVE  o = <<"object", class, o[3]>> /\ o[3] \in [AllProperties -> below]
  <2> DEFINE r == SetAll(class, pairs)
             calls == AfterCalls(class, pairs, 1..n)
  <2>1. r = o /\ ~Failed(r)
    BY <1>4, <1>5, <1>7
  <2>2. r = calls
    BY <1>1, <1>3, <2>1, SetAllIs
  <2>3. calls = <<"object", class, calls[3]>> /\ calls[3] = [p \in AllProperties |-> calls[3][p]]
    BY DEF AfterCalls
  <2> HIDE DEF r, calls
  <2>4. ASSUME NEW p \in AllProperties PROVE calls[3][p] \in below
    <3> DEFINE ofProp == {i \in 1..n : Setter(class, pairs[i]).prop = p}
    <3>1. IF p \notin Properties(class) THEN calls[3][p] = Null
          ELSE IF ofProp = {} THEN calls[3][p] = Classes[class].initial[p]
          ELSE \E i \in ofProp : calls[3][p] = pairs[i].value
      BY <1>1, CallsLeave DEF calls
    <3>2. p \in Properties(class) => Classes[class].initial[p] \in below
      <4>1. IsPlain(Classes[class])
        BY <1>1, <1>7, PropertiesAre
      <4>2. Properties(class) = DOMAIN Classes[class].initial
        BY <1>7 DEF Properties
      <4>3. Classes[class].initial \in [DOMAIN Classes[class].initial -> JavaAt[Height]]
        BY <4>1 DEF IsPlain
      <4> QED
        BY <4>2, <4>3
    <3>3. \A i \in ofProp : pairs[i].value \in below
      BY <1>2
    <3> HIDE DEF ofProp
    <3> QED
      BY <3>1, <3>2, <3>3
  <2>5. calls[3] \in [AllProperties -> below]
    BY <2>3, <2>4
  <2> QED
    BY <2>1, <2>2, <2>3, <2>5
<1>8. /\ class \in DOMAIN Classes /\ o = <<"object", class, o[3]>>
      /\ o[3] \in [AllProperties -> below]
  BY <1>1, <1>6, <1>7
<1>9. o \in JavaOver(below)
  BY <1>8 DEF JavaOver
<1> QED
  BY <1>8, <1>9 DEF o

\* No two of the fields are of one property.
Apart(pairs) ==
  \A i, k \in DOMAIN pairs : CamelCase[pairs[i].name] = CamelCase[pairs[k].name] => i = k

\* An object has a value as a property, that what writes or reads the field is
\* of.
HasField(o, name, value) ==
  LET class == Classes[o[2]]
  IN \E p : /\ o[3][p] = value
            /\ \/ \E s \in class.setters : s.name = CamelCase[name] /\ s.prop = p
               \/ class.record /\ \E g \in class.getters : g.name = <<"", name>> /\ g.prop = p
            /\ \A g \in class.getters :
                 \/ g.name \in {"get", "is"} \X {CamelCase[name]}
                 \/ class.record /\ g.name = <<"", name>>
                 => g.prop = p

\* A bean that is built has each of the fields.
LEMMA BuiltHas ==
  ASSUME NEW class, NEW n \in Nat, NEW captured, captured[1] = "pairs", DOMAIN captured[2] = 1..n,
         ~Failed(Build(class, captured)), Apart(captured[2]), NEW i \in 1..n
  PROVE  HasField(Build(class, captured), captured[2][i].name, captured[2][i].value)
<1> DEFINE o == Build(class, captured)
           pairs == captured[2]
           name == captured[2][i].name
<1>1. class \in DOMAIN Classes
  BY BuildIs
<1>2. DOMAIN pairs = 1..n /\ ~Failed(o) /\ pairs[i].name = name /\ Apart(pairs)
  OBVIOUS
<1>3. o = IF Classes[class].record THEN BuildRecord(class, pairs) ELSE SetAll(class, pairs)
  BY BuildIs
<1>4. OneProperty(Classes[class])
  BY <1>1, PropertiesAre
<1> HIDE DEF o, pairs, name
<1>5. ASSUME Classes[class].record
      PROVE  HasField(o, name, pairs[i].value)
  <2> DEFINE r == BuildRecord(class, pairs)
  <2>1. r = o /\ ~Failed(r)
    BY <1>2, <1>3, <1>5
  <2>2. /\ DOMAIN Classes[class].components = 1..n
        /\ Classes[class].components[i].name = name
        /\ r[3][name] = pairs[i].value
        /\ r[2] = class
    <3>1. DOMAIN pairs = 1..n /\ ~Failed(r)
      BY <1>2, <2>1
    <3>2. HoldsPairs(r, class, n, pairs)
      BY <1>1, <1>5, <3>1, BuildRecordIs
    <3> HIDE DEF r
    <3> QED
      BY <1>2, <3>2 DEF HoldsPairs
  <2> HIDE DEF r
  <2>3. PICK g \in Classes[class].getters : g.name = <<"", name>>
    <3>1. IsRecord(Classes[class])
      BY <1>1, <1>5, PropertiesAre
    <3> QED
      BY <2>2, <3>1 DEF IsRecord
  <2>4. ASSUME NEW h \in Classes[class].getters,
               h.name \in ({"get", "is"} \X {CamelCase[name]}) \cup {<<"", name>>}
        PROVE  h.prop = name
    BY <1>4, <1>5, <2>2, <2>4 DEF OneProperty
  <2>5. g.prop = name
    BY <2>3, <2>4
  <2> QED
    BY <1>5, <2>1, <2>2, <2>3, <2>4, <2>5 DEF HasField
<1>6. ASSUME ~Classes[class].record
      PROVE  HasField(o, name, pairs[i].value)
  <2> DEFINE r == SetAll(class, pairs)
             s == Setter(class, pairs[i])
             calls == AfterCalls(class, pairs, 1..n)
  <2>1. r = o /\ ~Failed(r)
    BY <1>2, <1>3, <1>6
  <2>2. r = calls /\ \A k \in 1..n : Setter(class, pairs[k]) \in Setters(class, pairs[k])
    BY <1>1, <1>2, <2>1, SetAllIs
  <2>3. \A k \in 1..n : /\ Setter(class, pairs[k]) \in Classes[class].setters
                        /\ Setter(class, pairs[k]).name = CamelCase[pairs[k].name]
    BY <2>2 DEF Setters
  <2>4. s \in Classes[class].setters /\ s.name = CamelCase[name] /\ s.prop \in Properties(class)
    BY <1>1, <1>2, <2>3, PropertiesAre
  <2>5. ASSUME NEW k \in 1..n, Setter(class, pairs[k]).prop = s.prop PROVE k = i
    <3>1. Setter(class, pairs[k]).name = s.name
      BY <1>4, <2>3, <2>4, <2>5 DEF OneProperty
    <3>2. CamelCase[pairs[k].name] = CamelCase[pairs[i].name]
      BY <1>2, <2>3, <2>4, <3>1
    <3> QED
      BY <1>2, <3>2 DEF Apart
  <2>6. calls[3][s.prop] = pairs[i].value
    <3> DEFINE ofProp == {k \in 1..n : Setter(class, pairs[k]).prop = s.prop}
    <3>1. s.prop \in AllProperties
      BY <1>1, <2>4, PropertiesAre
    <3>2. IF s.prop \notin Properties(class) THEN calls[3][s.prop] = Null
          ELSE IF ofProp = {} THEN calls[3][s.prop] = Classes[class].initial[s.prop]
          ELSE \E k \in ofProp : calls[3][s.prop] = pairs[k].value
      <4> DEFINE p == s.prop
      <4>1. p \in AllProperties
        BY <3>1
      <4> HIDE DEF p
      <4>2. IF p \notin Properties(class) THEN AfterCalls(class, pairs, 1..n)[3][p] = Null
            ELSE IF {k \in 1..n : Setter(class, pairs[k]).prop = p} = {}
              THEN AfterCalls(class, pairs, 1..n)[3][p] = Classes[class].initial[p]
            ELSE \E k \in {k \in 1..n : Setter(class, pairs[k]).prop = p} :
                   AfterCalls(class, pairs, 1..n)[3][p] = pairs[k].value
        BY <1>1, <4>1, CallsLeave
      <4> QED
        BY <4>2 DEF p
    <3>3. ofProp = {i}
      BY <2>5
    <3> HIDE DEF ofProp, calls, s
    <3> QED
      BY <2>4, <3>2, <3>3
  <2>7. ASSUME NEW g \in Classes[class].getters, g.name \in {"get", "is"} \X {CamelCase[name]}
        PROVE  g.prop = s.prop
    BY <1>4, <2>4, <2>7 DEF OneProperty
  <2>8. calls[2] = class
    BY DEF AfterCalls
  <2> HIDE DEF s, calls, r
  <2> QED
    BY <1>6, <2>1, <2>2, <2>4, <2>6, <2>7, <2>8 DEF HasField
<1> QED
  BY <1>5, <1>6 DEF o, pairs, name

\* Its class is the one asked for.
LEMMA BuiltClass ==
  ASSUME NEW class, NEW n \in Nat, NEW captured, captured[1] = "pairs", DOMAIN captured[2] = 1..n,
         ~Failed(Build(class, captured))
  PROVE  /\ class \in DOMAIN Classes
         /\ Build(class, captured)[1] = "object" /\ Build(class, captured)[2] = class
<1> DEFINE o == Build(class, captured)
           pairs == captured[2]
<1>1. class \in DOMAIN Classes /\ DOMAIN pairs = 1..n /\ ~Failed(o)
  BY BuildIs
<1>2. o = IF Classes[class].record THEN BuildRecord(class, pairs) ELSE SetAll(class, pairs)
  BY BuildIs
<1> HIDE DEF o, pairs
<1>3. ASSUME Classes[class].record PROVE o[1] = "object" /\ o[2] = class
  <2> DEFINE r == BuildRecord(class, pairs)
  <2>1. r = o /\ ~Failed(r)
    BY <1>1, <1>2, <1>3
  <2>2. HoldsPairs(r, class, n, pairs)
    BY <1>1, <1>3, <2>1, BuildRecordIs
  <2> HIDE DEF r
  <2> QED
    BY <2>1, <2>2 DEF HoldsPairs
<1>4. ASSUME ~Classes[class].record PROVE o[1] = "object" /\ o[2] = class
  <2> DEFINE r == SetAll(class, pairs)
  <2>1. r = o /\ ~Failed(r)
    BY <1>1, <1>2, <1>4
  <2>2. r = AfterCalls(class, pairs, 1..n)
    BY <1>1, <2>1, SetAllIs
  <2>3. AfterCalls(class, pairs, 1..n)[1] = "object" /\ AfterCalls(class, pairs, 1..n)[2] = class
    BY DEF AfterCalls
  <2> HIDE DEF r
  <2> QED
    BY <2>1, <2>2, <2>3
<1> QED
  BY <1>1, <1>3, <1>4 DEF o

\* So it is among the properties that the name may mean, and it is what the
\* accessors of the field read.
LEMMA BuiltProperty ==
  ASSUME NEW class, NEW n \in Nat, NEW captured, captured[1] = "pairs", DOMAIN captured[2] = 1..n,
         ~Failed(Build(class, captured)), Apart(captured[2]), NEW i \in 1..n
  PROVE  /\ captured[2][i].value \in Property(Build(class, captured), captured[2][i].name)
         /\ Getter(Build(class, captured), captured[2][i].name)
              \in {captured[2][i].value, Error("no getter"), Error("exception")}
<1> DEFINE o == Build(class, captured)
           name == captured[2][i].name
           value == captured[2][i].value
<1>1. HasField(o, name, value)
  BY BuiltHas
<1>2. o[2] \in DOMAIN Classes
  BY BuiltClass
<1> HIDE DEF o, name, value
<1> DEFINE has == Classes[o[2]]
<1>3. PICK p : /\ o[3][p] = value
               /\ \/ \E s \in has.setters : s.name = CamelCase[name] /\ s.prop = p
                  \/ has.record /\ \E g \in has.getters : g.name = <<"", name>> /\ g.prop = p
               /\ \A g \in has.getters :
                    \/ g.name \in {"get", "is"} \X {CamelCase[name]}
                    \/ has.record /\ g.name = <<"", name>>
                    => g.prop = p
  BY <1>1 DEF HasField
<1>4. value \in Property(o, name)
  <2> DEFINE named == {g \in Classes[o[2]].getters :
                         \/ g.name \in {"get", "is"} \X {CamelCase[name]}
                         \/ Classes[o[2]].record /\ g.name = <<"", name>>}
                      \cup {s \in Classes[o[2]].setters : s.name = CamelCase[name]}
  <2>1. Property(o, name) = {o[3][a.prop] : a \in named}
    BY DEF Property
  <2>2. \E a \in named : a.prop = p
    BY <1>3
  <2> HIDE DEF named
  <2> QED
    BY <1>3, <2>1, <2>2
<1>5. Getter(o, name) \in {value, Error("no getter"), Error("exception")}
  <2>1. \/ Getter(o, name) \in {Error("no getter"), Error("exception")}
        \/ \E g \in Classes[o[2]].getters :
             /\ \/ g.name \in {"get", "is"} \X {CamelCase[name]}
                \/ Classes[o[2]].record /\ g.name = <<"", name>>
             /\ Getter(o, name) = o[3][g.prop]
    BY <1>2, GetterIs
  <2> QED
    BY <1>3, <2>1
<1> QED
  BY <1>4, <1>5 DEF o, name, value


-----------------------------------------------------------------------------
(***************************************************************************)
(* What is written of a bean is whole.                                     *)
(***************************************************************************)

\* What is so of every type within a type is so within its parts.
LEMMA WithinParts ==
  ASSUME NEW t \in Types
  PROVE  t \in Within[t] /\ \A p \in Parts(t) : Within[p] \subseteq Within[t]
<1>1. Within[t] = WithinFrom(t, [p \in Parts(t) |-> Within[p]])
  BY WithinIs
<1> QED
  BY <1>1 DEF WithinFrom

\* The parts of a type whose structs have one field per property are such types.
LEMMA OneFieldParts ==
  ASSUME NEW t \in Types, OneFieldPerProperty(t)
  PROVE  /\ \A p \in Parts(t) : OneFieldPerProperty(p)
         /\ t.k = "struct" =>
              \A i, j \in DOMAIN t.fields :
                CamelCase[t.fields[i].name] = CamelCase[t.fields[j].name] => i = j
<1>1. t \in Within[t] /\ \A p \in Parts(t) : Within[p] \subseteq Within[t]
  BY WithinParts
<1> QED
  BY <1>1 DEF OneFieldPerProperty

\* A property that is written stands for all of the value.
PropertyIsWhole(t, v) ==
  ~Failed(Writer[t].property[v]) =>
    /\ ~Unsupported(t, v)
    /\ Writer[t].property[v] \in JavaAt[Height + Depth[t]]
    /\ OneFieldPerProperty(t) => Shows[t][v][Writer[t].property[v]]
    /\ t.k \notin {"option", "unit", "newtype"} => Writer[t].property[v] # Null

\* So does a bean that is built from what is captured of a value.
BuiltIsWhole(t, v, captured) ==
  \A class : ~Failed(Build(class, captured)) =>
    /\ ~Unsupported(t, v)
    /\ Build(class, captured) \in JavaAt[Height + Depth[t]]
    /\ Build(class, captured)[1] = "object" /\ Build(class, captured)[2] = class
    /\ OneFieldPerProperty(t) => Shows[t][v][Build(class, captured)]

\* Nothing is built of nothing.
LEMMA BuildFails ==
  ASSUME NEW captured, Failed(captured)
  PROVE  \A class : Failed(Build(class, captured))
BY DEF Build

\* The pairs of a struct.
LEMMA PairsAre ==
  ASSUME NEW t \in Types, t.k \in {"struct", "bean"}, NEW v \in Values[t]
  PROVE  LET captured == Pairs(t, Writer, v)
         IN /\ captured[1] = "pairs" /\ DOMAIN captured[2] = 1..Len(Fields(t))
            /\ \A i \in 1..Len(Fields(t)) :
                 /\ captured[2][i].name = Fields(t)[i].name
                 /\ captured[2][i].value =
                      Writer[Fields(t)[i].type].property[FieldValues(t, v)[i]]
<1> DEFINE value(i) == Writer[Fields(t)[i].type].property[FieldValues(t, v)[i]]
           pairs == [i \in DOMAIN Fields(t) |-> [name |-> Fields(t)[i].name, value |-> value(i)]]
           captured == Pairs(t, Writer, v)
<1>1. captured = <<"pairs", pairs>>
  BY DEF Pairs
<1>2. DOMAIN Fields(t) = 1..Len(Fields(t))
  BY FieldsAre
<1>3. DOMAIN pairs = 1..Len(Fields(t))
  BY <1>2
<1> HIDE DEF value
<1>4. \A i \in 1..Len(Fields(t)) : pairs[i].name = Fields(t)[i].name /\ pairs[i].value = value(i)
  BY <1>2
<1> HIDE DEF pairs, captured
<1>5. /\ captured[1] = "pairs" /\ DOMAIN captured[2] = 1..Len(Fields(t))
      /\ \A i \in 1..Len(Fields(t)) :
           /\ captured[2][i].name = Fields(t)[i].name
           /\ captured[2][i].value = value(i)
  BY <1>1, <1>3, <1>4
<1> QED
  BY <1>5 DEF captured, value

\* The fields of a struct, and their values.
LEMMA StructFields ==
  ASSUME NEW t \in Types, t.k = "struct", NEW v \in Values[t]
  PROVE  /\ Len(t.fields) \in Nat /\ DOMAIN t.fields = 1..Len(t.fields)
         /\ Fields(t) = t.fields /\ FieldValues(t, v) = v[2]
         /\ \A i \in 1..Len(t.fields) : /\ t.fields[i].type \in Parts(t)
                                         /\ v[2][i] \in Values[t.fields[i].type]
<1>1. /\ Len(t.fields) \in Nat /\ DOMAIN t.fields = 1..Len(t.fields)
      /\ Fields(t) = t.fields /\ FieldValues(t, v) = v[2]
  BY StructIs
<1>2. \A i \in DOMAIN t.fields : t.fields[i].type \in Parts(t)
  BY StructIs
<1>3. \A i \in DOMAIN t.fields : v[2][i] \in Values[t.fields[i].type]
  BY StructIs
<1> QED
  BY <1>1, <1>2, <1>3

\* The pairs of a struct are those of its fields.
LEMMA StructPairs ==
  ASSUME NEW t \in Types, t.k = "struct", NEW v \in Values[t]
  PROVE  LET captured == Pairs(t, Writer, v)
         IN /\ captured[1] = "pairs" /\ DOMAIN captured[2] = 1..Len(t.fields)
            /\ \A i \in 1..Len(t.fields) :
                 /\ captured[2][i].name = t.fields[i].name
                 /\ captured[2][i].value = Writer[t.fields[i].type].property[v[2][i]]
<1>1. LET captured == Pairs(t, Writer, v)
      IN /\ captured[1] = "pairs" /\ DOMAIN captured[2] = 1..Len(Fields(t))
         /\ \A i \in 1..Len(Fields(t)) :
              /\ captured[2][i].name = Fields(t)[i].name
              /\ captured[2][i].value = Writer[Fields(t)[i].type].property[FieldValues(t, v)[i]]
  BY PairsAre
<1>2. Fields(t) = t.fields /\ FieldValues(t, v) = v[2]
  BY StructFields
<1> QED
  BY <1>1, <1>2

\* A bean that is built from a struct is all of it.
LEMMA StructBuilt ==
  ASSUME NEW t \in Types, t.k = "struct", NEW v \in Values[t],
         \A p \in Parts(t) : \A x \in Values[p] : PropertyIsWhole(p, x)
  PROVE  BuiltIsWhole(t, v, Pairs(t, Writer, v))
<1> DEFINE captured == Pairs(t, Writer, v)
           n == Len(t.fields)
           value(i) == Writer[t.fields[i].type].property[v[2][i]]
           type(i) == t.fields[i].type
<1>1. /\ n \in Nat /\ DOMAIN t.fields = 1..n /\ Fields(t) = t.fields /\ FieldValues(t, v) = v[2]
      /\ \A i \in 1..n : t.fields[i].type \in Parts(t) /\ v[2][i] \in Values[t.fields[i].type]
  BY StructFields
<1>2. /\ captured[1] = "pairs" /\ DOMAIN captured[2] = 1..n
      /\ \A i \in 1..n : captured[2][i].name = t.fields[i].name /\ captured[2][i].value = value(i)
  BY StructPairs
<1>3. /\ t.k \notin Atomic
      /\ Unsupported(t, v) <=> \E i \in 1..n : Unsupported(type(i), v[2][i])
  <2>1. /\ t.k \notin Atomic
        /\ Unsupported(t, v) <=>
             \E i \in DOMAIN Fields(t) : Unsupported(Fields(t)[i].type, FieldValues(t, v)[i])
    BY FieldsAre
  <2> QED
    BY <1>1, <2>1
<1>4. PICK below : /\ JavaAt[Height + Depth[t]] = JavaOver(below)
                   /\ JavaScalars \subseteq below
                   /\ JavaAt[Height] \subseteq below
                   /\ \A p \in Parts(t) : JavaAt[Height + Depth[p]] \subseteq below
  BY <1>3, JavaLevels
<1>5. JavaAt[Height + Depth[t]] \subseteq Java
  BY JavaLevels
<1> HIDE DEF captured
<1>6. \A i \in 1..n :
        ~Failed(value(i)) => /\ ~Unsupported(type(i), v[2][i])
                             /\ value(i) \in below
                             /\ OneFieldPerProperty(type(i)) => Shows[type(i)][v[2][i]][value(i)]
  <2> TAKE i \in 1..n
  <2>1. PropertyIsWhole(type(i), v[2][i]) /\ type(i) \in Parts(t)
    BY <1>1
  <2> QED
    BY <1>4, <2>1 DEF PropertyIsWhole
<1> HIDE DEF value, type
<1> SUFFICES ASSUME NEW class, ~Failed(Build(class, captured))
             PROVE  /\ ~Unsupported(t, v)
                    /\ Build(class, captured) \in JavaAt[Height + Depth[t]]
                    /\ Build(class, captured)[1] = "object" /\ Build(class, captured)[2] = class
                    /\ OneFieldPerProperty(t) => Shows[t][v][Build(class, captured)]
  BY DEF BuiltIsWhole, captured
<1> DEFINE o == Build(class, captured)
<1> HIDE DEF n
<1>7. \A i \in 1..n : ~Failed(value(i))
  <2>1. n \in Nat /\ captured[1] = "pairs" /\ DOMAIN captured[2] = 1..n
    BY <1>1, <1>2
  <2>2. \A i \in 1..n : ~Failed(captured[2][i].value)
    BY <2>1, BuildIs
  <2> QED
    BY <1>2, <2>2
<1>8. ~Unsupported(t, v)
  BY <1>3, <1>6, <1>7
<1>9. o[1] = "object" /\ o[2] = class
  <2>1. n \in Nat /\ captured[1] = "pairs" /\ DOMAIN captured[2] = 1..n
    BY <1>1, <1>2
  <2>2. /\ class \in DOMAIN Classes
        /\ Build(class, captured)[1] = "object" /\ Build(class, captured)[2] = class
    BY <2>1, BuiltClass
  <2> QED
    BY <2>2
<1>10. o \in JavaAt[Height + Depth[t]]
  <2>1. \A i \in 1..n : captured[2][i].value \in below
    BY <1>2, <1>6, <1>7
  <2>2. Null \in below
    BY <1>4 DEF JavaScalars
  <2>3. o \in JavaOver(below)
    BY <1>1, <1>2, <1>4, <2>1, <2>2, BuiltIsJava
  <2> QED
    BY <1>4, <2>3
<1>11. ASSUME OneFieldPerProperty(t) PROVE Shows[t][v][o]
  <2>1. /\ \A p \in Parts(t) : OneFieldPerProperty(p)
        /\ \A i, j \in 1..n : CamelCase[t.fields[i].name] = CamelCase[t.fields[j].name] => i = j
    BY <1>1, <1>11, OneFieldParts
  <2>2. Apart(captured[2])
    BY <1>2, <2>1 DEF Apart
  <2>3. \A i \in 1..n : value(i) \in Property(o, t.fields[i].name)
    <3> TAKE i \in 1..n
    <3>1. captured[2][i].value \in Property(o, captured[2][i].name)
      BY <1>1, <1>2, <2>2, BuiltProperty
    <3> QED
      BY <1>2, <3>1
  <2> HIDE DEF o
  <2>4. \A i \in 1..n : Shows[type(i)][v[2][i]][value(i)]
    BY <1>1, <1>6, <1>7, <2>1 DEF type
  <2>5. o \in Java
    BY <1>5, <1>10 DEF o
  <2>6. \A i \in DOMAIN t.fields : ShowsField(t.fields[i], Shows[t.fields[i].type], v[2][i], o)
    <3> TAKE i \in DOMAIN t.fields
    <3>1. \E p \in Property(o, t.fields[i].name) : Shows[t.fields[i].type][v[2][i]][p]
      BY <1>1, <2>3, <2>4 DEF type
    <3>2. o[1] = "object"
      BY <1>9 DEF o
    <3> QED
      BY <3>1, <3>2 DEF ShowsField
  <2>7. o[1] # "ArrayList"
    BY <1>9 DEF o
  <2> QED
    BY <2>5, <2>6, <2>7, StructIs
<1> QED
  BY <1>8, <1>9, <1>10, <1>11

\* None is built from a JavaBean within a JavaBean: no class has the reserved
\* key among its properties.
LEMMA BeanNotBuilt ==
  ASSUME NEW t \in Types, t.k = "bean", NEW v \in Values[t]
  PROVE  \A class : Failed(Build(class, Pairs(t, Writer, v)))
<1> DEFINE captured == Pairs(t, Writer, v)
           n == Len(Fields(t))
           pairs == captured[2]
<1> SUFFICES ASSUME NEW class, ~Failed(Build(class, captured)) PROVE FALSE
  OBVIOUS
<1>1. n = 2 /\ Fields(t)[1].name = ClassKey
  <2>1. Fields(t) = <<[name |-> ClassKey, type |-> [k |-> "str"]], [name |-> ValueKey, type |-> t.of]>>
    BY BeanIs
  <2> QED
    BY <2>1
<1>2. /\ captured[1] = "pairs" /\ DOMAIN pairs = 1..2 /\ pairs[1].name = ClassKey
  BY <1>1, PairsAre
<1> HIDE DEF captured, n
<1>3. /\ class \in DOMAIN Classes
      /\ Build(class, captured) =
           IF Classes[class].record THEN BuildRecord(class, pairs) ELSE SetAll(class, pairs)
  BY <1>2, BuildIs
<1>4. ReservesKey(Classes[class])
  BY <1>3, PropertiesAre
<1> HIDE DEF pairs
<1>5. CASE Classes[class].record
  <2>1. ~Failed(BuildRecord(class, pairs))
    BY <1>3, <1>5
  <2>2. HoldsPairs(BuildRecord(class, pairs), class, 2, pairs)
    BY <1>2, <1>3, <1>5, <2>1, BuildRecordIs
  <2>3. DOMAIN Classes[class].components = 1..2 /\ Classes[class].components[1].name = ClassKey
    BY <1>2, <2>2 DEF HoldsPairs
  <2> QED
    BY <1>4, <1>5, <2>3 DEF ReservesKey
<1>6. CASE ~Classes[class].record
  <2>1. ~Failed(SetAll(class, pairs))
    BY <1>3, <1>6
  <2>2. \A i \in 1..2 : Setter(class, pairs[i]) \in Setters(class, pairs[i])
    BY <1>2, <1>3, <2>1, SetAllIs
  <2>3. \E s \in Classes[class].setters : s.name = CamelCase[ClassKey]
    BY <1>2, <2>2 DEF Setters
  <2> QED
    BY <1>4, <2>3 DEF ReservesKey
<1> QED
  BY <1>5, <1>6

\* What the three serializers make of every value of a type is whole.
WriterIsWhole(t) ==
  \A v \in Values[t] : /\ PropertyIsWhole(t, v)
                       /\ BuiltIsWhole(t, v, Writer[t].nested[v])
                       /\ BuiltIsWhole(t, v, Writer[t].bean[v])

\* A bean that is built from what a newtype holds is built from the newtype.
LEMMA NewtypeBuilt ==
  ASSUME NEW t \in Types, t.k = "newtype", NEW v \in Values[t], NEW captured,
         BuiltIsWhole(t.of, v[2], captured)
  PROVE  BuiltIsWhole(t, v, captured)
<1>1. /\ t.of \in Parts(t) /\ t.k \notin Atomic
      /\ Unsupported(t, v) <=> Unsupported(t.of, v[2])
      /\ \A j \in Java : Shows[t.of][v[2]][j] => Shows[t][v][j]
  BY NewtypeIs
<1>2. JavaAt[Height + Depth[t.of]] \subseteq JavaAt[Height + Depth[t]]
  <2>1. PICK below : /\ JavaAt[Height + Depth[t]] = JavaOver(below)
                     /\ \A p \in Parts(t) : JavaAt[Height + Depth[p]] \subseteq below
    BY <1>1, JavaLevels
  <2> QED
    BY <1>1, <2>1 DEF JavaOver
<1>3. JavaAt[Height + Depth[t]] \subseteq Java
  BY JavaLevels
<1>4. OneFieldPerProperty(t) => OneFieldPerProperty(t.of)
  BY <1>1, OneFieldParts
<1> SUFFICES ASSUME NEW class, ~Failed(Build(class, captured))
             PROVE  /\ ~Unsupported(t, v)
                    /\ Build(class, captured) \in JavaAt[Height + Depth[t]]
                    /\ Build(class, captured)[1] = "object" /\ Build(class, captured)[2] = class
                    /\ OneFieldPerProperty(t) => Shows[t][v][Build(class, captured)]
  BY DEF BuiltIsWhole
<1> DEFINE o == Build(class, captured)
<1>5. /\ ~Unsupported(t.of, v[2]) /\ o \in JavaAt[Height + Depth[t.of]]
      /\ o[1] = "object" /\ o[2] = class
      /\ OneFieldPerProperty(t.of) => Shows[t.of][v[2]][o]
  BY DEF BuiltIsWhole
<1> HIDE DEF o
<1>6. /\ ~Unsupported(t, v) /\ o \in JavaAt[Height + Depth[t]]
      /\ o[1] = "object" /\ o[2] = class
      /\ OneFieldPerProperty(t) => Shows[t][v][o]
  BY <1>1, <1>2, <1>3, <1>4, <1>5
<1> QED
  BY <1>6 DEF o

\* What is not written otherwise is written as a value.
LEMMA PropertyAsValue ==
  ASSUME NEW t \in Types, NEW v \in Values[t], Writer[t].property[v] = Ser[t][v]
  PROVE  PropertyIsWhole(t, v)
<1>1. SerIsWhole(t, v)
  BY SerWhole
<1> QED
  BY <1>1 DEF SerIsWhole, PropertyIsWhole

\* A property is whole if what the type is made of is.
LEMMA PropertyStep ==
  ASSUME NEW t \in Types, \A p \in Parts(t) : WriterIsWhole(p), NEW v \in Values[t]
  PROVE  PropertyIsWhole(t, v)
<1> DEFINE j == Writer[t].property[v]
<1>0. t.k \notin Atomic =>
        \A p \in Parts(t) : JavaAt[Height + Depth[p]] \subseteq JavaAt[Height + Depth[t]]
  <2> SUFFICES ASSUME t.k \notin Atomic, NEW p \in Parts(t)
               PROVE  JavaAt[Height + Depth[p]] \subseteq JavaAt[Height + Depth[t]]
    OBVIOUS
  <2>1. PICK below : /\ JavaAt[Height + Depth[t]] = JavaOver(below)
                     /\ \A q \in Parts(t) : JavaAt[Height + Depth[q]] \subseteq below
    BY JavaLevels
  <2> QED
    BY <2>1 DEF JavaOver
<1>00. JavaAt[Height + Depth[t]] \subseteq Java
  BY JavaLevels
<1>000. \A p \in Parts(t) : OneFieldPerProperty(t) => OneFieldPerProperty(p)
  BY OneFieldParts
<1>1. CASE t.k = "option" /\ v # NoneValue
  <2>1. Writer[t].property[v] = Writer[t.of].property[v[2]]
    BY <1>1, WriterKinds
  <2>2. /\ t.of \in Parts(t) /\ t.k \notin Atomic /\ v[2] \in Values[t.of]
        /\ Unsupported(t, v) <=> Unsupported(t.of, v[2])
        /\ \A x \in Java : Shows[t.of][v[2]][x] => Shows[t][v][x]
    BY <1>1, OptionIs
  <2>3. PropertyIsWhole(t.of, v[2])
    BY <2>2 DEF WriterIsWhole
  <2> QED
    BY <1>0, <1>00, <1>000, <1>1, <2>1, <2>2, <2>3 DEF PropertyIsWhole
<1>2. CASE t.k = "newtype"
  <2>1. Writer[t].property[v] = Writer[t.of].property[v[2]]
    BY <1>2, WriterKinds
  <2>2. /\ t.of \in Parts(t) /\ t.k \notin Atomic /\ v[2] \in Values[t.of]
        /\ Unsupported(t, v) <=> Unsupported(t.of, v[2])
        /\ \A x \in Java : Shows[t.of][v[2]][x] => Shows[t][v][x]
    BY <1>2, NewtypeIs
  <2>3. PropertyIsWhole(t.of, v[2])
    BY <2>2 DEF WriterIsWhole
  <2> QED
    BY <1>0, <1>00, <1>000, <1>2, <2>1, <2>2, <2>3 DEF PropertyIsWhole
<1>3. CASE t.k = "bean"
  <2>1. Writer[t].property[v] = Build(t.class, Writer[t.of].nested[v[2]])
    BY <1>3, WriterKinds
  <2> DEFINE o == Build(t.class, Writer[t.of].nested[v[2]])
  <2>2. /\ t.of \in Parts(t) /\ v[2] \in Values[t.of]
        /\ Unsupported(t, v) <=> Unsupported(t.of, v[2])
        /\ \A x \in Java : x[1] = "object" => (Shows[t][v][x] <=> Shows[t.of][v[2]][x])
    BY <1>3, BeanIs DEF IsBeanMarkerMap
  <2>3. BuiltIsWhole(t.of, v[2], Writer[t.of].nested[v[2]])
    BY <2>2 DEF WriterIsWhole
  <2>4. ~Failed(o) => /\ ~Unsupported(t.of, v[2])
                      /\ o \in JavaAt[Height + Depth[t.of]]
                      /\ o[1] = "object"
                      /\ OneFieldPerProperty(t.of) => Shows[t.of][v[2]][o]
    BY <2>3 DEF BuiltIsWhole
  <2> HIDE DEF o
  <2>5. t.k \notin Atomic
    BY <1>3 DEF Atomic, ScalarTypes, IntegerTypes, FloatTypes, Signed
  <2>6. o[1] = "object" => o # Null
    BY DEF Null
  <2>7. Writer[t].property[v] = o
    BY <2>1 DEF o
  <2> QED
    BY <1>0, <1>00, <1>000, <2>2, <2>4, <2>5, <2>6, <2>7 DEF PropertyIsWhole
<1>4. CASE t.k \notin {"newtype", "bean"} /\ (t.k = "option" => v = NoneValue)
  BY <1>4, WriterKinds, PropertyAsValue
<1> QED
  BY <1>1, <1>2, <1>3, <1>4

\* So is a bean.
LEMMA BuiltStep ==
  ASSUME NEW t \in Types, \A p \in Parts(t) : WriterIsWhole(p), NEW v \in Values[t]
  PROVE  BuiltIsWhole(t, v, Writer[t].nested[v]) /\ BuiltIsWhole(t, v, Writer[t].bean[v])
<1>1. \A captured : (\A class : Failed(Build(class, captured))) => BuiltIsWhole(t, v, captured)
  BY DEF BuiltIsWhole
<1>2. CASE t.k = "newtype"
  <2>1. Writer[t].nested[v] = Writer[t.of].nested[v[2]] /\ Writer[t].bean[v] = Writer[t.of].bean[v[2]]
    BY <1>2, WriterKinds
  <2>2. t.of \in Parts(t) /\ v[2] \in Values[t.of]
    BY <1>2, NewtypeIs
  <2>3. /\ BuiltIsWhole(t.of, v[2], Writer[t.of].nested[v[2]])
        /\ BuiltIsWhole(t.of, v[2], Writer[t.of].bean[v[2]])
    BY <2>2 DEF WriterIsWhole
  <2> QED
    BY <1>2, <2>1, <2>3, NewtypeBuilt
<1>3. CASE t.k = "struct"
  <2>1. Writer[t].nested[v] = Pairs(t, Writer, v) /\ Writer[t].bean[v] = Pairs(t, Writer, v)
    BY <1>3, WriterKinds
  <2>2. \A p \in Parts(t) : \A x \in Values[p] : PropertyIsWhole(p, x)
    BY DEF WriterIsWhole
  <2>3. BuiltIsWhole(t, v, Pairs(t, Writer, v))
    BY <1>3, <2>2, StructBuilt
  <2> QED
    BY <2>1, <2>3
<1>4. CASE t.k = "bean"
  <2>1. Writer[t].bean[v] = Pairs(t, Writer, v) /\ Failed(Writer[t].nested[v])
    BY <1>4, WriterKinds
  <2>2. \A class : Failed(Build(class, Writer[t].bean[v]))
    BY <1>4, <2>1, BeanNotBuilt
  <2>3. \A class : Failed(Build(class, Writer[t].nested[v]))
    BY <2>1, BuildFails
  <2> QED
    BY <1>1, <2>2, <2>3
<1>5. CASE t.k \notin {"struct", "bean", "newtype"}
  <2>1. Failed(Writer[t].nested[v]) /\ Failed(Writer[t].bean[v])
    BY <1>5, WriterKinds
  <2>2. /\ \A class : Failed(Build(class, Writer[t].nested[v]))
        /\ \A class : Failed(Build(class, Writer[t].bean[v]))
    BY <2>1, BuildFails
  <2> QED
    BY <1>1, <2>2
<1> QED
  BY <1>2, <1>3, <1>4, <1>5

\* What is written of every type is whole.
LEMMA WriterWhole == \A t \in Types : WriterIsWhole(t)
<1> DEFINE Good == {t \in Types : WriterIsWhole(t)}
<1>1. ASSUME NEW t \in Types, \A p \in Parts(t) : p \in Good PROVE t \in Good
  <2>1. \A p \in Parts(t) : WriterIsWhole(p)
    BY <1>1
  <2>2. \A v \in Values[t] : /\ PropertyIsWhole(t, v)
                             /\ BuiltIsWhole(t, v, Writer[t].nested[v])
                             /\ BuiltIsWhole(t, v, Writer[t].bean[v])
    BY <2>1, PropertyStep, BuiltStep
  <2> QED
    BY <2>2 DEF WriterIsWhole
<1> HIDE DEF Good
<1>2. Types \subseteq Good
  BY <1>1, TypeInduction
<1> QED
  BY <1>2 DEF Good

-----------------------------------------------------------------------------
(***************************************************************************)
(* What the deserializers do with each kind of type.                       *)
(***************************************************************************)

\* A deserializer is made of those of the parts.
LEMMA ReadersOf ==
  ASSUME NEW t \in Types
  PROVE  \E readers, de :
           /\ \A p \in Parts(t) : /\ readers[p] = Reader[p]
                                  /\ \A j : de[p][j] = De(p, j)
           /\ de = [p \in Parts(t) |-> readers[p].de]
           /\ \A j \in Java : /\ De(t, j) = DeOf(t, readers, j)
                              /\ ReadBean(t, j) = ReadBeanOf(t, readers, j)
<1> DEFINE readers == [p \in Parts(t) |-> Reader[p]]
           de == [p \in Parts(t) |-> readers[p].de]
<1>1. \A p \in Parts(t) : readers[p] = Reader[p]
  OBVIOUS
<1>2. \A p \in Parts(t) : \A j : de[p][j] = De(p, j)
  BY DEF De
<1>3. Reader[t] = ReaderFrom(t, readers)
  BY ReaderIs
<1>4. \A j \in Java : /\ De(t, j) = DeOf(t, readers, j)
                      /\ ReadBean(t, j) = ReadBeanOf(t, readers, j)
  <2> HIDE DEF readers
  <2>1. /\ Reader[t].de = [j \in Java |-> DeOf(t, readers, j)]
        /\ Reader[t].bean = [j \in Java |-> ReadBeanOf(t, readers, j)]
    BY <1>3 DEF ReaderFrom
  <2> QED
    BY <2>1 DEF De, ReadBean
<1>5. de = [p \in Parts(t) |-> readers[p].de]
  OBVIOUS
<1> HIDE DEF readers, de
<1> QED
  BY <1>1, <1>2, <1>4, <1>5

\* A scalar or an enum.
LEMMA AtomRead ==
  ASSUME NEW t \in Types, NEW j \in Java
  PROVE  /\ t.k \in ScalarTypes => De(t, j) = ReadScalar(t.k, j)
         /\ t.k = "enum" => De(t, j) = Error("type")
         /\ t.k \in Atomic => ReadBean(t, j) = Error("not a struct")
<1>1. PICK readers, de : /\ de = [p \in Parts(t) |-> readers[p].de]
                         /\ De(t, j) = DeOf(t, readers, j)
                         /\ ReadBean(t, j) = ReadBeanOf(t, readers, j)
  BY ReadersOf
<1> USE DEF ScalarTypes, IntegerTypes, FloatTypes, Signed, Atomic
<1>2. t.k \in ScalarTypes => De(t, j) = ReadScalar(t.k, j)
  BY <1>1 DEF DeOf
<1>3. t.k = "enum" => De(t, j) = Error("type")
  BY <1>1 DEF DeOf
<1>4. t.k \in Atomic => ReadBean(t, j) = Error("not a struct")
  BY <1>1 DEF ReadBeanOf
<1> QED
  BY <1>2, <1>3, <1>4

\* An Option.
LEMMA OptionRead ==
  ASSUME NEW t \in Types, t.k = "option", NEW j \in Java
  PROVE  /\ De(t, j) = IF j = Null THEN NoneValue ELSE Wrap("some", De(t.of, j))
         /\ ReadBean(t, j) = Error("not a struct")
<1>1. PICK readers, de : /\ \A p \in Parts(t) : \A x : de[p][x] = De(p, x)
                         /\ de = [p \in Parts(t) |-> readers[p].de]
                         /\ De(t, j) = DeOf(t, readers, j)
                         /\ ReadBean(t, j) = ReadBeanOf(t, readers, j)
  BY ReadersOf
<1>2. de[t.of][j] = De(t.of, j)
  BY <1>1, TypeShape
<1>3. De(t, j) = IF j = Null THEN NoneValue ELSE Wrap("some", de[t.of][j])
  BY <1>1 DEF DeOf, ScalarTypes, IntegerTypes, FloatTypes, Signed
<1>4. ReadBean(t, j) = Error("not a struct")
  BY <1>1 DEF ReadBeanOf
<1> QED
  BY <1>2, <1>3, <1>4

\* A newtype.
LEMMA NewtypeRead ==
  ASSUME NEW t \in Types, t.k = "newtype", NEW j \in Java
  PROVE  /\ De(t, j) = IF j[1] = "ArrayList" /\ j[2] # <<>> THEN Wrap("newtype", De(t.of, j[2][1]))
                       ELSE Error("type")
         /\ ReadBean(t, j) = Wrap("newtype", ReadBean(t.of, j))
<1>1. PICK readers, de : /\ \A p \in Parts(t) : readers[p] = Reader[p] /\ \A x : de[p][x] = De(p, x)
                         /\ de = [p \in Parts(t) |-> readers[p].de]
                         /\ De(t, j) = DeOf(t, readers, j)
                         /\ ReadBean(t, j) = ReadBeanOf(t, readers, j)
  BY ReadersOf
<1>2. (\A x : de[t.of][x] = De(t.of, x)) /\ readers[t.of] = Reader[t.of]
  BY <1>1, TypeShape
<1>3. De(t, j) = IF j[1] = "ArrayList" /\ j[2] # <<>> THEN Wrap("newtype", de[t.of][j[2][1]])
                 ELSE Error("type")
  BY <1>1 DEF DeOf, ScalarTypes, IntegerTypes, FloatTypes, Signed
<1>4. ReadBean(t, j) = Wrap("newtype", readers[t.of].bean[j])
  BY <1>1 DEF ReadBeanOf
<1> QED
  BY <1>2, <1>3, <1>4 DEF ReadBean

\* A JavaBean.
LEMMA BeanRead ==
  ASSUME NEW t \in Types, t.k = "bean", NEW j \in Java
  PROVE  /\ De(t, j) = IF IsBeanMarkerMap(j) THEN Wrap("bean", De(t.of, Entry(j, ValueKey)[2]))
                       ELSE IF j = Null THEN Error("null")
                       ELSE Wrap("bean", ReadBean(t.of, j))
         /\ ReadBean(t, j) = Wrap("bean", ReadBean(t.of, j))
<1>1. PICK readers, de : /\ \A p \in Parts(t) : readers[p] = Reader[p]
                         /\ De(t, j) = DeOf(t, readers, j)
                         /\ ReadBean(t, j) = ReadBeanOf(t, readers, j)
  BY ReadersOf
<1>2. readers[t.of] = Reader[t.of]
  BY <1>1, TypeShape
<1>3. De(t, j) = ReadNested(t, readers, j)
  BY <1>1 DEF DeOf, ScalarTypes, IntegerTypes, FloatTypes, Signed
<1>4. De(t, j) = IF IsBeanMarkerMap(j) THEN Wrap("bean", readers[t.of].de[Entry(j, ValueKey)[2]])
                 ELSE IF j = Null THEN Error("null")
                 ELSE Wrap("bean", readers[t.of].bean[j])
  <2>1. IsBeanMarkerMap(j) => j # Null
    BY DEF IsBeanMarkerMap, Null
  <2> QED
    BY <1>3, <2>1 DEF ReadNested
<1>5. ReadBean(t, j) = Wrap("bean", readers[t.of].bean[j])
  BY <1>1 DEF ReadBeanOf
<1> QED
  BY <1>2, <1>4, <1>5 DEF De, ReadBean

\* A sequence,
LEMMA SeqRead ==
  ASSUME NEW t \in Types, t.k = "seq", NEW j \in Java
  PROVE  /\ De(t, j) = IF j[1] = "ArrayList" THEN Made("seq", [i \in DOMAIN j[2] |-> De(t.of, j[2][i])])
                       ELSE Error("type")
         /\ ReadBean(t, j) = Error("not a struct")
<1>1. PICK readers, de : /\ \A p \in Parts(t) : \A x : de[p][x] = De(p, x)
                         /\ de = [p \in Parts(t) |-> readers[p].de]
                         /\ De(t, j) = DeOf(t, readers, j)
                         /\ ReadBean(t, j) = ReadBeanOf(t, readers, j)
  BY ReadersOf
<1>2. \A x : de[t.of][x] = De(t.of, x)
  BY <1>1, TypeShape
<1>3. De(t, j) = IF j[1] = "ArrayList" THEN Made("seq", [i \in DOMAIN j[2] |-> de[t.of][j[2][i]]])
                 ELSE Error("type")
  BY <1>1 DEF DeOf, ScalarTypes, IntegerTypes, FloatTypes, Signed
<1>4. ReadBean(t, j) = Error("not a struct")
  BY <1>1 DEF ReadBeanOf
<1>5. [i \in DOMAIN j[2] |-> de[t.of][j[2][i]]] = [i \in DOMAIN j[2] |-> De(t.of, j[2][i])]
  BY <1>2
<1> QED
  BY <1>3, <1>4, <1>5

\* and a tuple.
LEMMA TupleRead ==
  ASSUME NEW t \in Types, t.k = "tuple", NEW j \in Java
  PROVE  /\ De(t, j) = IF j[1] = "ArrayList" /\ Len(j[2]) >= Len(t.parts)
                         THEN Made("seq", [i \in DOMAIN t.parts |-> De(t.parts[i], j[2][i])])
                       ELSE Error("type")
         /\ ReadBean(t, j) = Error("not a struct")
<1>1. PICK readers, de : /\ \A p \in Parts(t) : \A x : de[p][x] = De(p, x)
                         /\ de = [p \in Parts(t) |-> readers[p].de]
                         /\ De(t, j) = DeOf(t, readers, j)
                         /\ ReadBean(t, j) = ReadBeanOf(t, readers, j)
  BY ReadersOf
<1>2. \A i \in DOMAIN t.parts : \A x : de[t.parts[i]][x] = De(t.parts[i], x)
  BY <1>1, TypeShape
<1>3. De(t, j) = IF j[1] = "ArrayList" /\ Len(j[2]) >= Len(t.parts)
                   THEN Made("seq", [i \in DOMAIN t.parts |-> de[t.parts[i]][j[2][i]]])
                 ELSE Error("type")
  BY <1>1 DEF DeOf, ScalarTypes, IntegerTypes, FloatTypes, Signed
<1>4. ReadBean(t, j) = Error("not a struct")
  BY <1>1 DEF ReadBeanOf
<1>5. [i \in DOMAIN t.parts |-> de[t.parts[i]][j[2][i]]]
        = [i \in DOMAIN t.parts |-> De(t.parts[i], j[2][i])]
  BY <1>2
<1> QED
  BY <1>3, <1>4, <1>5

\* The result of reading parts is the first failure there is, or has them all.
LEMMA MadeIs ==
  ASSUME NEW k, NEW parts
  PROVE  /\ (\A i \in DOMAIN parts : ~Failed(parts[i])) => Made(k, parts) = <<k, parts>>
         /\ (\E i \in DOMAIN parts : Failed(parts[i])) =>
              \E i \in DOMAIN parts : Failed(parts[i]) /\ Made(k, parts) = parts[i]
<1>1. (\E i \in DOMAIN parts : Failed(parts[i])) =>
        Made(k, parts) = parts[CHOOSE i \in DOMAIN parts : Failed(parts[i])]
  BY DEF Made
<1>2. (\A i \in DOMAIN parts : ~Failed(parts[i])) => Made(k, parts) = <<k, parts>>
  BY DEF Made
<1> QED
  BY <1>1, <1>2

\* Without a failure, it has all of them.
LEMMA MadeOf ==
  ASSUME NEW k, NEW parts, ~Failed(Made(k, parts))
  PROVE  Made(k, parts) = <<k, parts>> /\ \A i \in DOMAIN parts : ~Failed(parts[i])
BY MadeIs

\* A map has, for each key that is read, what is read of an entry of the key.
LEMMA MapRead ==
  ASSUME NEW t \in Types, t.k = "map", NEW j \in Java
  PROVE  /\ j[1] # "HashMap" => De(t, j) = Error("type")
         /\ j[1] = "HashMap" /\ (\E e \in j[2] : Failed(De(t.key, e[1])) \/ Failed(De(t.of, e[2]))) =>
              De(t, j) = Error("entry")
         /\ ReadBean(t, j) = Error("not a struct")
<1>1. PICK readers, de : /\ \A p \in Parts(t) : \A x : de[p][x] = De(p, x)
                         /\ de = [p \in Parts(t) |-> readers[p].de]
                         /\ De(t, j) = DeOf(t, readers, j)
                         /\ ReadBean(t, j) = ReadBeanOf(t, readers, j)
  BY ReadersOf
<1>2. (\A x : de[t.key][x] = De(t.key, x)) /\ \A x : de[t.of][x] = De(t.of, x)
  BY <1>1, TypeShape
<1>3. De(t, j) = IF j[1] = "HashMap" THEN MapOf(t, de, j) ELSE Error("type")
  BY <1>1 DEF DeOf, ScalarTypes, IntegerTypes, FloatTypes, Signed
<1>4. ReadBean(t, j) = Error("not a struct")
  BY <1>1 DEF ReadBeanOf
<1>5. (\E e \in j[2] : Failed(de[t.key][e[1]]) \/ Failed(de[t.of][e[2]])) => MapOf(t, de, j) = Error("entry")
  BY DEF MapOf
<1> QED
  BY <1>2, <1>3, <1>4, <1>5

\* The entries of the map that is read.
LEMMA MapReadOf ==
  ASSUME NEW t \in Types, t.k = "map", NEW j \in Java, j[1] = "HashMap",
         \A e \in j[2] : ~Failed(De(t.key, e[1])) /\ ~Failed(De(t.of, e[2]))
  PROVE  \E m : /\ De(t, j) = <<"map", m>>
                /\ \A x \in m : \E e \in j[2] : x = <<De(t.key, e[1]), De(t.of, e[2])>>
                /\ \A e \in j[2] : \E x \in m : x[1] = De(t.key, e[1])
                /\ \A x, y \in m : x[1] = y[1] => x = y
<1>1. PICK readers, de : /\ \A p \in Parts(t) : \A x : de[p][x] = De(p, x)
                         /\ de = [p \in Parts(t) |-> readers[p].de]
                         /\ De(t, j) = DeOf(t, readers, j)
  BY ReadersOf
<1>2. (\A x : de[t.key][x] = De(t.key, x)) /\ \A x : de[t.of][x] = De(t.of, x)
  BY <1>1, TypeShape
<1>3. De(t, j) = MapOf(t, de, j)
  BY <1>1 DEF DeOf, ScalarTypes, IntegerTypes, FloatTypes, Signed
<1> DEFINE last(x) == CHOOSE e \in j[2] : de[t.key][e[1]] = x
           keys == {de[t.key][e[1]] : e \in j[2]}
           m == {<<x, de[t.of][last(x)[2]]>> : x \in keys}
<1>4. De(t, j) = <<"map", m>>
  <2>1. ~\E e \in j[2] : Failed(de[t.key][e[1]]) \/ Failed(de[t.of][e[2]])
    BY <1>2
  <2>2. MapOf(t, de, j) =
          IF \E e \in j[2] : Failed(de[t.key][e[1]]) \/ Failed(de[t.of][e[2]]) THEN Error("entry")
          ELSE <<"map", m>>
    BY DEF MapOf
  <2> HIDE DEF m
  <2> QED
    BY <1>3, <2>1, <2>2
<1>5. \A x \in keys : last(x) \in j[2] /\ x = De(t.key, last(x)[1])
  <2> TAKE x \in keys
  <2>1. \E e \in j[2] : de[t.key][e[1]] = x
    OBVIOUS
  <2>2. last(x) \in j[2] /\ de[t.key][last(x)[1]] = x
    BY <2>1
  <2> HIDE DEF last
  <2> QED
    BY <1>2, <2>2
<1>6. \A e \in j[2] : De(t.key, e[1]) \in keys
  BY <1>2
<1> HIDE DEF keys, last
<1>7. \A x \in m : \E e \in j[2] : x = <<De(t.key, e[1]), De(t.of, e[2])>>
  BY <1>2, <1>5
<1>8. \A x \in keys : \E y \in m : y[1] = x
  <2> TAKE x \in keys
  <2>1. PICK y : y = <<x, de[t.of][last(x)[2]]>>
    OBVIOUS
  <2>2. y \in m /\ y[1] = x
    BY <2>1
  <2> QED
    BY <2>2
<1>9. \A x, y \in m : x[1] = y[1] => x = y
  OBVIOUS
<1> HIDE DEF m
<1>10. \A e \in j[2] : \E x \in m : x[1] = De(t.key, e[1])
  BY <1>6, <1>8
<1> QED
  BY <1>4, <1>7, <1>9, <1>10

\* A struct from a list,
LEMMA StructFromList ==
  ASSUME NEW t \in Types, t.k = "struct", NEW j \in Java, j[1] # "HashMap"
  PROVE  De(t, j) = IF j[1] = "ArrayList" /\ Len(j[2]) >= Len(t.fields)
                      THEN Made("struct", [i \in DOMAIN t.fields |-> De(t.fields[i].type, j[2][i])])
                    ELSE Error("type")
<1>1. PICK readers, de : /\ \A p \in Parts(t) : \A x : de[p][x] = De(p, x)
                         /\ de = [p \in Parts(t) |-> readers[p].de]
                         /\ De(t, j) = DeOf(t, readers, j)
  BY ReadersOf
<1>2. \A i \in DOMAIN t.fields : \A x : de[t.fields[i].type][x] = De(t.fields[i].type, x)
  BY <1>1, TypeShape
<1>3. De(t, j) = IF j[1] = "ArrayList" /\ Len(j[2]) >= Len(t.fields)
                   THEN Made("struct", [i \in DOMAIN t.fields |-> de[t.fields[i].type][j[2][i]]])
                 ELSE Error("type")
  BY <1>1 DEF DeOf, ScalarTypes, IntegerTypes, FloatTypes, Signed
<1>4. [i \in DOMAIN t.fields |-> de[t.fields[i].type][j[2][i]]]
        = [i \in DOMAIN t.fields |-> De(t.fields[i].type, j[2][i])]
  BY <1>2
<1> QED
  BY <1>3, <1>4

\* What is read for a field from a map.
FromMap(f, j) ==
  IF HasKey(j, f.name) THEN De(f.type, Entry(j, f.name)[2])
  ELSE IF f.type.k = "option" THEN NoneValue
  ELSE Error("missing")

\* from a map
LEMMA StructFromMap ==
  ASSUME NEW t \in Types, t.k = "struct", NEW j \in Java, j[1] = "HashMap"
  PROVE  \/ De(t, j) \in {Error("key"), Error("type")}
            /\ \/ \E e \in j[2] : e[1][1] # "String"
               \/ \E e \in j[2] : e[1][2] \notin {t.fields[i].name : i \in DOMAIN t.fields}
         \/ De(t, j) = Made("struct", [i \in DOMAIN t.fields |-> FromMap(t.fields[i], j)])
<1>1. PICK readers, de : /\ \A p \in Parts(t) : \A x : de[p][x] = De(p, x)
                         /\ de = [p \in Parts(t) |-> readers[p].de]
                         /\ De(t, j) = DeOf(t, readers, j)
  BY ReadersOf
<1>2. \A i \in DOMAIN t.fields : \A x : de[t.fields[i].type][x] = De(t.fields[i].type, x)
  BY <1>1, TypeShape
<1>3. De(t, j) = StructOfMap(t, de, j)
  BY <1>1 DEF DeOf, ScalarTypes, IntegerTypes, FloatTypes, Signed
<1> DEFINE names == {t.fields[i].name : i \in DOMAIN t.fields}
           read(i) == CASE HasKey(j, t.fields[i].name) ->
                             de[t.fields[i].type][Entry(j, t.fields[i].name)[2]]
                        [] t.fields[i].type.k = "option" /\ ~HasKey(j, t.fields[i].name) -> NoneValue
                        [] OTHER -> Error("missing")
           fields == [i \in DOMAIN t.fields |-> read(i)]
           given == [i \in DOMAIN t.fields |-> FromMap(t.fields[i], j)]
<1>4. StructOfMap(t, de, j) =
        IF \E e \in j[2] : e[1][1] # "String" THEN Error("key")
        ELSE IF \E e \in j[2] : e[1][2] \notin names /\ ~Ignorable(e[2]) THEN Error("type")
        ELSE Made("struct", fields)
  BY DEF StructOfMap
<1>5. fields = given
  <2>1. \A i \in DOMAIN t.fields : read(i) = FromMap(t.fields[i], j)
    <3> TAKE i \in DOMAIN t.fields
    <3>1. CASE HasKey(j, t.fields[i].name)
      BY <1>2, <3>1 DEF FromMap
    <3>2. CASE ~HasKey(j, t.fields[i].name)
      BY <3>2 DEF FromMap
    <3> QED
      BY <3>1, <3>2
  <2> HIDE DEF read
  <2> QED
    BY <2>1
<1> HIDE DEF names, fields
<1>6. CASE \E e \in j[2] : e[1][1] # "String"
  BY <1>3, <1>4, <1>6
<1>7. CASE /\ ~\E e \in j[2] : e[1][1] # "String"
           /\ \E e \in j[2] : e[1][2] \notin names /\ ~Ignorable(e[2])
  BY <1>3, <1>4, <1>7 DEF names
<1>8. CASE /\ ~\E e \in j[2] : e[1][1] # "String"
           /\ ~\E e \in j[2] : e[1][2] \notin names /\ ~Ignorable(e[2])
  BY <1>3, <1>4, <1>5, <1>8
<1> QED
  BY <1>6, <1>7, <1>8

\* What is read for a field from an object.
FromObject(f, j) ==
  LET got == IF j[1] = "object" THEN Getter(j, f.name) ELSE Error("no getter")
  IN IF Failed(got) THEN got ELSE De(f.type, got)

\* and from a bean.
LEMMA StructFromBean ==
  ASSUME NEW t \in Types, t.k = "struct", NEW j \in Java
  PROVE  ReadBean(t, j) = Made("struct", [i \in DOMAIN t.fields |-> FromObject(t.fields[i], j)])
<1>1. PICK readers, de : /\ \A p \in Parts(t) : readers[p] = Reader[p]
                         /\ ReadBean(t, j) = ReadBeanOf(t, readers, j)
  BY ReadersOf
<1>2. \A i \in DOMAIN t.fields : readers[t.fields[i].type] = Reader[t.fields[i].type]
  BY <1>1, TypeShape
<1>3. ReadBean(t, j) = Made("struct", [i \in DOMAIN t.fields |-> ReadField(t.fields[i], readers, j)])
  BY <1>1 DEF ReadBeanOf
<1>4. \A i \in DOMAIN t.fields : ReadField(t.fields[i], readers, j) = FromObject(t.fields[i], j)
  BY <1>2 DEF ReadField, FromObject, De
<1>5. [i \in DOMAIN t.fields |-> ReadField(t.fields[i], readers, j)]
        = [i \in DOMAIN t.fields |-> FromObject(t.fields[i], j)]
  BY <1>4
<1> QED
  BY <1>3, <1>5

-----------------------------------------------------------------------------
(***************************************************************************)
(* What is read is there.                                                  *)
(***************************************************************************)

\* A value of a type that a Java value stands for.
Stands(t, v, j) == v \in Values[t] /\ Shows[t][v][j]

\* What is read of each Java value is one that it stands for.  An object apart,
\* nothing of a value is looked at that is read as a bean.
ReadStands(t) ==
  \A j \in Java :
    /\ ~Failed(De(t, j)) => Stands(t, De(t, j), j)
    /\ ~Failed(ReadBean(t, j)) => Stands(t, ReadBean(t, j), j)
    /\ j[1] # "object" /\ ~Failed(ReadBean(t, j)) => \A x \in Java : Stands(t, ReadBean(t, j), x)

\* Errors fail, and so does what is wrapped of a failure.
LEMMA Failures ==
  /\ \A kind : Failed(Error(kind))
  /\ \A k, v : ~Failed(Wrap(k, v)) => ~Failed(v) /\ Wrap(k, v) = <<k, v>>
BY DEF Failed, Error, Wrap

\* The entry of a key.
LEMMA EntryOf ==
  ASSUME NEW j \in Java, j[1] = "HashMap", NEW name, HasKey(j, name)
  PROVE  Entry(j, name) \in j[2] /\ Entry(j, name)[1] = JavaString(name) /\ Entry(j, name)[2] \in Java
<1>1. \E e \in j[2] : e[1] = JavaString(name)
  BY DEF HasKey
<1>2. Entry(j, name) \in j[2] /\ Entry(j, name)[1] = JavaString(name)
  BY <1>1 DEF Entry
<1> QED
  BY <1>2, MapEntries

\* A scalar is read from a wrapper or a string.
LEMMA VisitStands ==
  ASSUME NEW t \in Types, t.k \in ScalarTypes, t.k # "unit", NEW j \in Java,
         j[1] = "Character" => j[2] \notin Surrogates,
         ~Failed(VisitScalar(t.k, j))
  PROVE  Stands(t, VisitScalar(t.k, j), j)
<1> DEFINE v == VisitScalar(t.k, j)
<1>1. \A kind : Failed(Error(kind))
  BY Failures
<1>2. ASSUME t.k \in IntegerTypes PROVE Stands(t, v, j)
  <2>1. j[1] \in NumberClasses /\ j[2] \in IntRange(t.k) /\ v = <<"int", j[2]>>
    BY <1>1, <1>2 DEF VisitScalar, IntegerTypes, FloatTypes, Signed
  <2> HIDE DEF v
  <2>2. v \in Values[t]
    BY <1>2, <2>1, AtomValues
  <2>3. v[2] = j[2]
    BY <2>1
  <2> QED
    BY <1>2, <2>1, <2>2, <2>3, ShowsScalars DEF Stands
<1>3. ASSUME t.k \in FloatTypes PROVE Stands(t, v, j)
  <2>1. j[1] \in NumberClasses \cup FloatClasses /\ v = <<"float", Cast[t.k][j[2]]>>
    BY <1>1, <1>3 DEF VisitScalar, IntegerTypes, FloatTypes, Signed
  <2> HIDE DEF v
  <2>2. Cast[t.k][j[2]] \in Floats(t.k) /\ RoundsTo(t.k, j[2], Cast[t.k][j[2]])
    BY <1>3, <2>1, ScalarContents, CastRounds
  <2>3. v \in Values[t] /\ v[2] = Cast[t.k][j[2]]
    BY <1>3, <2>1, <2>2, AtomValues
  <2> QED
    BY <1>3, <2>1, <2>2, <2>3, ShowsScalars DEF Stands
<1>4. ASSUME t.k = "bool" PROVE Stands(t, v, j)
  <2>1. j[1] = "Boolean" /\ v = <<"bool", j[2]>>
    BY <1>1, <1>4 DEF VisitScalar, IntegerTypes, FloatTypes, Signed
  <2> HIDE DEF v
  <2>2. j[2] \in BOOLEAN /\ j = <<"Boolean", j[2]>>
    BY <2>1, ScalarContents
  <2>3. v \in Values[t] /\ v[2] = j[2]
    BY <1>4, <2>1, <2>2, AtomValues
  <2>4. j = <<"Boolean", v[2]>>
    BY <2>2, <2>3
  <2> QED
    BY <1>4, <2>3, <2>4, ShowsScalars DEF Stands
<1>5. ASSUME t.k = "char" PROVE Stands(t, v, j)
  <2>1. j[1] \in {"Character", "String"} /\ j[2] \in Characters /\ v = <<"char", j[2]>>
    BY <1>1, <1>5 DEF VisitScalar, IntegerTypes, FloatTypes, Signed
  <2> HIDE DEF v
  <2>2. v \in Values[t] /\ v[2] = j[2]
    BY <1>5, <2>1, AtomValues
  <2> QED
    BY <1>5, <2>1, <2>2, ShowsScalars DEF Stands
<1>6. ASSUME t.k = "str" PROVE Stands(t, v, j)
  <2>1. j[1] \in {"Character", "String"} /\ v = <<"str", j[2]>>
    BY <1>1, <1>6 DEF VisitScalar, IntegerTypes, FloatTypes, Signed
  <2> HIDE DEF v
  <2>2. j[2] \in Texts
    BY <2>1, ScalarContents, ScalarsAssumption
  <2>3. v \in Values[t] /\ v[2] = j[2]
    BY <1>6, <2>1, <2>2, AtomValues
  <2> QED
    BY <1>6, <2>1, <2>3, ShowsScalars DEF Stands
<1> HIDE DEF v
<1>7. Stands(t, v, j)
  BY <1>2, <1>3, <1>4, <1>5, <1>6 DEF ScalarTypes, FloatTypes
<1> QED
  BY <1>7 DEF v

\* A byte may be a u8.
LEMMA ScalarStands ==
  ASSUME NEW t \in Types, t.k \in ScalarTypes, NEW j \in Java, ~Failed(De(t, j))
  PROVE  Stands(t, De(t, j), j)
<1>1. De(t, j) = ReadScalar(t.k, j)
  BY AtomRead
<1>2. CASE t.k = "unit"
  <2>1. De(t, j) = <<"unit">>
    BY <1>1, <1>2 DEF ReadScalar
  <2>2. De(t, j) \in Values[t]
    BY <1>2, <2>1, AtomValues
  <2> QED
    BY <1>2, <2>2, ShowsScalars DEF Stands
<1>3. CASE t.k = "u8" /\ j[1] = "Byte"
  <2>1. De(t, j) = <<"int", AsUnsigned(j[2])>>
    BY <1>1, <1>3 DEF ReadScalar
  <2>2. j[2] \in IntRange("i8")
    BY <1>3, ScalarContents
  <2>3. /\ AsUnsigned(j[2]) \in IntRange("u8")
        /\ AsUnsigned(j[2]) = j[2] \/ AsUnsigned(j[2]) - j[2] = 2 * Half["u8"]
    <3>1. Half["u8"] \in Nat \ {0} /\ Half["i8"] = Half["u8"]
      BY ScalarsAssumption DEF IntegerTypes, FloatTypes, Signed
    <3>2. j[2] \in (-Half["u8"])..(Half["u8"] - 1)
      BY <2>2, <3>1 DEF IntRange, Signed
    <3>3. IntRange("u8") = 0..(2 * Half["u8"] - 1)
      BY DEF IntRange, Signed
    <3> QED
      BY <3>1, <3>2, <3>3 DEF AsUnsigned
  <2>4. De(t, j) \in Values[t] /\ De(t, j)[2] = AsUnsigned(j[2])
    BY <1>3, <2>1, <2>3, AtomValues DEF IntegerTypes, FloatTypes
  <2>5. j[1] \in NumberClasses
    BY <1>3 DEF NumberClasses
  <2> QED
    BY <1>3, <2>3, <2>4, <2>5, ShowsScalars DEF Stands, IntegerTypes, FloatTypes
<1>4. CASE t.k # "unit" /\ ~(t.k = "u8" /\ j[1] = "Byte")
  <2>1. /\ j[1] = "Character" => j[2] \notin Surrogates
        /\ De(t, j) = VisitScalar(t.k, j)
    BY <1>1, <1>4, Failures DEF ReadScalar
  <2>2. Stands(t, VisitScalar(t.k, j), j)
    BY <1>4, <2>1, VisitStands
  <2> QED
    BY <2>1, <2>2
<1> QED
  BY <1>2, <1>3, <1>4

\* An Option.
LEMMA OptionStands ==
  ASSUME NEW t \in Types, t.k = "option", ReadStands(t.of), NEW j \in Java, ~Failed(De(t, j))
  PROVE  Stands(t, De(t, j), j)
<1>1. De(t, j) = IF j = Null THEN NoneValue ELSE Wrap("some", De(t.of, j))
  BY OptionRead
<1>2. Values[t] = {NoneValue} \cup ({"some"} \X Values[t.of])
  BY OptionValues
<1>3. \A v \in Values[t] : Shows[t][v][j] <=> IF v = NoneValue THEN j = Null ELSE Shows[t.of][v[2]][j]
  BY OptionIs
<1>4. CASE j = Null
  BY <1>1, <1>2, <1>3, <1>4 DEF Stands
<1>5. CASE j # Null
  <2>1. ~Failed(De(t.of, j)) /\ De(t, j) = <<"some", De(t.of, j)>>
    BY <1>1, <1>5, Failures
  <2>2. Stands(t.of, De(t.of, j), j)
    BY <2>1 DEF ReadStands
  <2> DEFINE x == De(t.of, j)
  <2> HIDE DEF x
  <2>3. <<"some", x>> # NoneValue /\ <<"some", x>>[2] = x
    BY DEF NoneValue
  <2>4. x \in Values[t.of] /\ Shows[t.of][x][j] /\ De(t, j) = <<"some", x>>
    BY <2>1, <2>2 DEF Stands, x
  <2>5. De(t, j) \in Values[t]
    BY <1>2, <2>4
  <2> QED
    BY <1>3, <2>3, <2>4, <2>5 DEF Stands
<1> QED
  BY <1>4, <1>5

\* A newtype holds what its value does,
LEMMA NewtypeStands ==
  ASSUME NEW t \in Types, t.k = "newtype", NEW x, NEW j \in Java, Stands(t.of, x, j)
  PROVE  /\ Stands(t, <<"newtype", x>>, j)
         /\ \A l \in Java : l[1] = "ArrayList" /\ l[2] # <<>> /\ l[2][1] = j =>
              Stands(t, <<"newtype", x>>, l)
<1> DEFINE v == <<"newtype", x>>
<1>1. v \in Values[t] /\ v[2] = x
  BY WrapperValues DEF Stands
<1> HIDE DEF v
<1>2. \A l \in Java : Shows[t][v][l] <=>
        \/ Shows[t.of][x][l]
        \/ l[1] = "ArrayList" /\ l[2] # <<>> /\ Shows[t.of][x][l[2][1]]
  BY <1>1, NewtypeIs
<1>3. /\ Stands(t, v, j)
      /\ \A l \in Java : l[1] = "ArrayList" /\ l[2] # <<>> /\ l[2][1] = j => Stands(t, v, l)
  BY <1>1, <1>2 DEF Stands
<1> QED
  BY <1>3 DEF v

\* and so does a JavaBean.
LEMMA BeanStands ==
  ASSUME NEW t \in Types, t.k = "bean", NEW x, NEW j \in Java,
         Stands(t.of, x, IF IsBeanMarkerMap(j) THEN Entry(j, ValueKey)[2] ELSE j)
  PROVE  Stands(t, <<"bean", x>>, j)
<1> DEFINE v == <<"bean", x>>
<1>1. v \in Values[t] /\ v[2] = x
  BY WrapperValues DEF Stands
<1> HIDE DEF v
<1>2. Shows[t][v][j] <=> IF IsBeanMarkerMap(j) THEN Shows[t.of][x][Entry(j, ValueKey)[2]]
                                               ELSE Shows[t.of][x][j]
  BY <1>1, BeanIs
<1>3. Stands(t, v, j)
  BY <1>1, <1>2 DEF Stands
<1> QED
  BY <1>3 DEF v

\* What is nested is read from a marker map or from a bean.
LEMMA NestedStands ==
  ASSUME NEW t \in Types, t.k = "bean", ReadStands(t.of), NEW j \in Java
  PROVE  /\ ~Failed(De(t, j)) => Stands(t, De(t, j), j)
         /\ ~Failed(ReadBean(t, j)) => Stands(t, ReadBean(t, j), j)
         /\ j[1] # "object" /\ ~Failed(ReadBean(t, j)) =>
              \A x \in Java : Stands(t, ReadBean(t, j), x)
<1>1. \A x \in Java : IsBeanMarkerMap(x) => x[1] = "HashMap" /\ Entry(x, ValueKey)[2] \in Java
  BY EntryOf DEF IsBeanMarkerMap
<1>2. ReadBean(t, j) = Wrap("bean", ReadBean(t.of, j))
  BY BeanRead
<1>3. ASSUME j[1] # "object", ~Failed(ReadBean(t.of, j)), NEW x \in Java
      PROVE  Stands(t, <<"bean", ReadBean(t.of, j)>>, x)
  <2>1. \A y \in Java : Stands(t.of, ReadBean(t.of, j), y)
    BY <1>3 DEF ReadStands
  <2>2. Stands(t.of, ReadBean(t.of, j), IF IsBeanMarkerMap(x) THEN Entry(x, ValueKey)[2] ELSE x)
    BY <1>1, <2>1
  <2> QED
    BY <2>2, BeanStands
<1>4. ASSUME ~Failed(ReadBean(t.of, j)) PROVE Stands(t, <<"bean", ReadBean(t.of, j)>>, j)
  <2>1. CASE IsBeanMarkerMap(j)
    BY <1>1, <1>3, <1>4, <2>1
  <2>2. CASE ~IsBeanMarkerMap(j)
    <3>1. Stands(t.of, ReadBean(t.of, j), IF IsBeanMarkerMap(j) THEN Entry(j, ValueKey)[2] ELSE j)
      BY <1>4, <2>2 DEF ReadStands
    <3> QED
      BY <3>1, BeanStands
  <2> QED
    BY <2>1, <2>2
<1>5. ASSUME ~Failed(De(t, j)) PROVE Stands(t, De(t, j), j)
  <2>1. De(t, j) = IF IsBeanMarkerMap(j) THEN Wrap("bean", De(t.of, Entry(j, ValueKey)[2]))
                   ELSE IF j = Null THEN Error("null")
                   ELSE Wrap("bean", ReadBean(t.of, j))
    BY BeanRead
  <2>2. CASE IsBeanMarkerMap(j)
    <3>1. /\ De(t, j) = <<"bean", De(t.of, Entry(j, ValueKey)[2])>>
          /\ ~Failed(De(t.of, Entry(j, ValueKey)[2]))
      BY <1>5, <2>1, <2>2, Failures
    <3>2. Stands(t.of, De(t.of, Entry(j, ValueKey)[2]),
                 IF IsBeanMarkerMap(j) THEN Entry(j, ValueKey)[2] ELSE j)
      BY <1>1, <2>2, <3>1 DEF ReadStands
    <3> QED
      BY <3>1, <3>2, BeanStands
  <2>3. CASE ~IsBeanMarkerMap(j)
    <3>1. De(t, j) = <<"bean", ReadBean(t.of, j)>> /\ ~Failed(ReadBean(t.of, j))
      BY <1>5, <2>1, <2>3, Failures
    <3> QED
      BY <1>4, <3>1
  <2> QED
    BY <2>2, <2>3
<1> QED
  BY <1>2, <1>3, <1>4, <1>5, Failures

\* A sequence,
LEMMA SeqStands ==
  ASSUME NEW t \in Types, t.k = "seq", ReadStands(t.of), NEW j \in Java, ~Failed(De(t, j))
  PROVE  Stands(t, De(t, j), j)
<1> DEFINE parts == [i \in DOMAIN j[2] |-> De(t.of, j[2][i])]
<1>1. j[1] = "ArrayList" /\ De(t, j) = Made("seq", parts)
  <2>1. De(t, j) = IF j[1] = "ArrayList" THEN Made("seq", parts) ELSE Error("type")
    BY SeqRead
  <2>2. Failed(Error("type"))
    BY Failures
  <2> HIDE DEF parts
  <2> QED
    BY <2>1, <2>2
<1>2. De(t, j) = <<"seq", parts>> /\ \A i \in DOMAIN parts : ~Failed(parts[i])
  <2> HIDE DEF parts
  <2> QED
    BY <1>1, MadeOf
<1>3. /\ DOMAIN j[2] = 1..Len(j[2]) /\ Len(j[2]) \in Nat
      /\ \A i \in DOMAIN j[2] : j[2][i] \in Java
  BY <1>1, ListElements
<1>4. \A i \in DOMAIN j[2] : Stands(t.of, parts[i], j[2][i])
  BY <1>2, <1>3 DEF ReadStands
<1>5. parts = [i \in 1..Len(j[2]) |-> parts[i]] /\ DOMAIN parts = 1..Len(j[2])
  BY <1>3
<1> HIDE DEF parts
<1>6. parts \in Seq(Values[t.of]) /\ Len(parts) = Len(j[2])
  <2> DEFINE n == Len(j[2])
             S == Values[t.of]
  <2>1. n \in Nat /\ \A i \in 1..n : parts[i] \in S
    BY <1>3, <1>4 DEF Stands
  <2>2. parts = [i \in 1..n |-> parts[i]]
    BY <1>5
  <2> HIDE DEF n, S
  <2>3. parts \in Seq(S) /\ Len(parts) = n
    BY <2>1, <2>2, SequenceOf
  <2> QED
    BY <2>3 DEF n, S
<1>7. <<"seq", parts>> \in Values[t]
  BY <1>6, SeqValues
<1>8. Shows[t][<<"seq", parts>>][j]
  <2> DEFINE v == <<"seq", parts>>
  <2>1. v[2] = parts /\ v \in Values[t]
    BY <1>7
  <2> HIDE DEF v
  <2>2. Shows[t][v][j] <=>
          /\ j[1] = "ArrayList" /\ Len(j[2]) = Len(v[2])
          /\ \A i \in DOMAIN v[2] : Shows[t.of][v[2][i]][j[2][i]]
    BY <2>1, SeqShown
  <2>3. Shows[t][v][j]
    BY <1>1, <1>3, <1>4, <1>5, <1>6, <2>1, <2>2 DEF Stands
  <2> QED
    BY <2>3 DEF v
<1> QED
  BY <1>2, <1>7, <1>8 DEF Stands

\* and a tuple, of as many elements as it has types.
LEMMA TupleStands ==
  ASSUME NEW t \in Types, t.k = "tuple", \A p \in Parts(t) : ReadStands(p),
         NEW j \in Java, ~Failed(De(t, j))
  PROVE  Stands(t, De(t, j), j)
<1> DEFINE parts == [i \in DOMAIN t.parts |-> De(t.parts[i], j[2][i])]
<1>1. j[1] = "ArrayList" /\ Len(j[2]) >= Len(t.parts) /\ De(t, j) = Made("seq", parts)
  <2>1. De(t, j) = IF j[1] = "ArrayList" /\ Len(j[2]) >= Len(t.parts) THEN Made("seq", parts)
                   ELSE Error("type")
    BY TupleRead
  <2>2. Failed(Error("type"))
    BY Failures
  <2> HIDE DEF parts
  <2> QED
    BY <2>1, <2>2
<1>2. De(t, j) = <<"seq", parts>> /\ \A i \in DOMAIN parts : ~Failed(parts[i])
  <2> HIDE DEF parts
  <2> QED
    BY <1>1, MadeOf
<1>3. /\ DOMAIN j[2] = 1..Len(j[2]) /\ Len(j[2]) \in Nat
      /\ \A i \in DOMAIN j[2] : j[2][i] \in Java
  BY <1>1, ListElements
<1>4. /\ DOMAIN t.parts = 1..Len(t.parts) /\ Len(t.parts) \in Nat
      /\ \A i \in DOMAIN t.parts : t.parts[i] \in Parts(t)
  BY TypeShape
<1>5. \A i \in DOMAIN t.parts : Stands(t.parts[i], parts[i], j[2][i])
  <2> TAKE i \in DOMAIN t.parts
  <2>1. i \in DOMAIN j[2]
    BY <1>1, <1>3, <1>4
  <2> QED
    BY <1>2, <1>3, <1>4, <2>1 DEF ReadStands
<1>6. parts = [i \in DOMAIN t.parts |-> parts[i]]
  OBVIOUS
<1> HIDE DEF parts
<1>7. <<"seq", parts>> \in Values[t]
  BY <1>5, <1>6, TupleOfValues DEF Stands
<1>8. Shows[t][<<"seq", parts>>][j]
  <2> DEFINE v == <<"seq", parts>>
  <2>1. v[2] = parts /\ v \in Values[t]
    BY <1>7
  <2> HIDE DEF v
  <2>2. Shows[t][v][j] <=>
          /\ j[1] = "ArrayList" /\ Len(j[2]) >= Len(t.parts)
          /\ \A i \in DOMAIN t.parts : Shows[t.parts[i]][v[2][i]][j[2][i]]
    BY <2>1, TupleShown
  <2>3. Shows[t][v][j]
    BY <1>1, <1>5, <2>1, <2>2 DEF Stands
  <2> QED
    BY <2>3 DEF v
<1> QED
  BY <1>2, <1>7, <1>8 DEF Stands

\* A map.
LEMMA MapStands ==
  ASSUME NEW t \in Types, t.k = "map", ReadStands(t.key), ReadStands(t.of),
         NEW j \in Java, ~Failed(De(t, j))
  PROVE  Stands(t, De(t, j), j)
<1>1. j[1] = "HashMap" /\ \A e \in j[2] : ~Failed(De(t.key, e[1])) /\ ~Failed(De(t.of, e[2]))
  <2>1. /\ j[1] # "HashMap" => De(t, j) = Error("type")
        /\ j[1] = "HashMap" /\ (\E e \in j[2] : Failed(De(t.key, e[1])) \/ Failed(De(t.of, e[2]))) =>
             De(t, j) = Error("entry")
        /\ ReadBean(t, j) = Error("not a struct")
    BY MapRead
  <2>2. \A kind : Failed(Error(kind))
    BY Failures
  <2> QED
    BY <2>1, <2>2
<1>2. PICK m : /\ De(t, j) = <<"map", m>>
               /\ \A x \in m : \E e \in j[2] : x = <<De(t.key, e[1]), De(t.of, e[2])>>
               /\ \A e \in j[2] : \E x \in m : x[1] = De(t.key, e[1])
               /\ \A x, y \in m : x[1] = y[1] => x = y
  BY <1>1, MapReadOf
<1>3. \A e \in j[2] : e[1] \in Java /\ e[2] \in Java
  BY <1>1, MapEntries
<1>4. \A e \in j[2] : Stands(t.key, De(t.key, e[1]), e[1]) /\ Stands(t.of, De(t.of, e[2]), e[2])
  BY <1>1, <1>3 DEF ReadStands
<1>5. m \in SUBSET (Values[t.key] \X Values[t.of])
  BY <1>2, <1>4 DEF Stands
<1> DEFINE v == <<"map", m>>
<1>6. v \in Values[t] /\ v[2] = m
  BY <1>2, <1>5, MapValues
<1> HIDE DEF v
<1>7. \A e \in m : \E d \in j[2] : Shows[t.key][e[1]][d[1]] /\ Shows[t.of][e[2]][d[2]]
  <2> TAKE x \in m
  <2>1. PICK e \in j[2] : x = <<De(t.key, e[1]), De(t.of, e[2])>>
    BY <1>2
  <2>2. x[1] = De(t.key, e[1]) /\ x[2] = De(t.of, e[2])
    BY <2>1
  <2> QED
    BY <1>4, <2>2 DEF Stands
<1>8. \A d \in j[2] : \E e \in m : Shows[t.key][e[1]][d[1]]
  BY <1>2, <1>4 DEF Stands
<1>9. Shows[t][v][j] <=>
        /\ j[1] = "HashMap"
        /\ \A e \in v[2] : \E d \in j[2] : Shows[t.key][e[1]][d[1]] /\ Shows[t.of][e[2]][d[2]]
        /\ \A d \in j[2] : \E e \in v[2] : Shows[t.key][e[1]][d[1]]
  BY <1>6, MapShown
<1>10. Stands(t, v, j)
  BY <1>1, <1>6, <1>7, <1>8, <1>9 DEF Stands
<1> QED
  BY <1>2, <1>10 DEF v

\* A struct stands for what its fields do.
LEMMA StructStands ==
  ASSUME NEW t \in Types, t.k = "struct", NEW s, s = [i \in DOMAIN t.fields |-> s[i]],
         \A i \in DOMAIN t.fields : s[i] \in Values[t.fields[i].type],
         NEW j \in Java,
         IF j[1] = "ArrayList"
           THEN /\ Len(j[2]) >= Len(t.fields)
                /\ \A i \in DOMAIN t.fields : Shows[t.fields[i].type][s[i]][j[2][i]]
           ELSE \A i \in DOMAIN t.fields :
                  ShowsField(t.fields[i], Shows[t.fields[i].type], s[i], j)
  PROVE  Stands(t, <<"struct", s>>, j)
<1> DEFINE v == <<"struct", s>>
<1>1. v \in Values[t]
  BY StructOfValues
<1>2. v[2] = s
  OBVIOUS
<1> HIDE DEF v
<1>3. Shows[t][v][j] <=>
        IF j[1] = "ArrayList"
          THEN /\ Len(j[2]) >= Len(t.fields)
               /\ \A i \in DOMAIN t.fields : Shows[t.fields[i].type][v[2][i]][j[2][i]]
          ELSE \A i \in DOMAIN t.fields :
                 ShowsField(t.fields[i], Shows[t.fields[i].type], v[2][i], j)
  BY <1>1, StructIs
<1>4. Stands(t, v, j)
  BY <1>1, <1>2, <1>3 DEF Stands
<1> QED
  BY <1>4 DEF v

\* It may be read from a list or a map,
LEMMA StructReadStands ==
  ASSUME NEW t \in Types, t.k = "struct", \A p \in Parts(t) : ReadStands(p),
         NEW j \in Java, ~Failed(De(t, j))
  PROVE  Stands(t, De(t, j), j)
<1>1. /\ DOMAIN t.fields = 1..Len(t.fields) /\ Len(t.fields) \in Nat
      /\ \A i \in DOMAIN t.fields : t.fields[i].type \in Parts(t) /\ t.fields[i].type \in Types
  BY TypeShape, PartsAreTypes
<1>2. CASE j[1] # "HashMap"
  <2> DEFINE s == [i \in DOMAIN t.fields |-> De(t.fields[i].type, j[2][i])]
  <2>1. j[1] = "ArrayList" /\ Len(j[2]) >= Len(t.fields) /\ De(t, j) = Made("struct", s)
    BY <1>2, StructFromList, Failures
  <2>2. De(t, j) = <<"struct", s>> /\ \A i \in DOMAIN s : ~Failed(s[i])
    <3> HIDE DEF s
    <3> QED
      BY <2>1, MadeOf
  <2>3. /\ DOMAIN j[2] = 1..Len(j[2]) /\ Len(j[2]) \in Nat
        /\ \A i \in DOMAIN j[2] : j[2][i] \in Java
    BY <2>1, ListElements
  <2>4. \A i \in DOMAIN t.fields : Stands(t.fields[i].type, s[i], j[2][i])
    <3> TAKE i \in DOMAIN t.fields
    <3>1. i \in DOMAIN j[2]
      BY <1>1, <2>1, <2>3
    <3> QED
      BY <1>1, <2>2, <2>3, <3>1 DEF ReadStands
  <2>5. s = [i \in DOMAIN t.fields |-> s[i]]
    OBVIOUS
  <2> HIDE DEF s
  <2>6. Stands(t, <<"struct", s>>, j)
    BY <2>1, <2>4, <2>5, StructStands DEF Stands
  <2> QED
    BY <2>2, <2>6
<1>3. CASE j[1] = "HashMap"
  <2> DEFINE s == [i \in DOMAIN t.fields |-> FromMap(t.fields[i], j)]
  <2>1. De(t, j) = Made("struct", s)
    BY <1>3, StructFromMap, Failures
  <2>2. De(t, j) = <<"struct", s>> /\ \A i \in DOMAIN s : ~Failed(s[i])
    <3> HIDE DEF s
    <3> QED
      BY <2>1, MadeOf
  <2>3. ASSUME NEW i \in DOMAIN t.fields
        PROVE  /\ s[i] \in Values[t.fields[i].type]
               /\ ShowsField(t.fields[i], Shows[t.fields[i].type], s[i], j)
    <3> DEFINE f == t.fields[i]
    <3>1. f.type \in Types /\ ReadStands(f.type) /\ s[i] = FromMap(f, j) /\ ~Failed(s[i])
      BY <1>1, <2>2
    <3> HIDE DEF f, s
    <3>2. CASE HasKey(j, f.name)
      <4>1. s[i] = De(f.type, Entry(j, f.name)[2]) /\ Entry(j, f.name)[2] \in Java
        BY <1>3, <3>1, <3>2, EntryOf DEF FromMap
      <4>2. Stands(f.type, s[i], Entry(j, f.name)[2])
        BY <3>1, <4>1 DEF ReadStands
      <4> QED
        BY <1>3, <3>2, <4>2 DEF Stands, ShowsField, f
    <3>3. CASE ~HasKey(j, f.name)
      <4>1. f.type.k = "option" /\ s[i] = NoneValue
        BY <3>1, <3>3, Failures DEF FromMap
      <4>2. s[i] \in Values[f.type]
        BY <3>1, <4>1, OptionValues
      <4> QED
        BY <1>3, <3>3, <4>1, <4>2 DEF ShowsField, f
    <3> QED
      BY <3>2, <3>3
  <2>4. s = [i \in DOMAIN t.fields |-> s[i]]
    OBVIOUS
  <2>5. j[1] # "ArrayList"
    BY <1>3
  <2> HIDE DEF s
  <2>6. Stands(t, <<"struct", s>>, j)
    BY <2>3, <2>4, <2>5, StructStands
  <2> QED
    BY <2>2, <2>6
<1> QED
  BY <1>2, <1>3

\* and from a bean.  What is not an object has no properties, so that a struct
\* that is read from it has no fields.
LEMMA StructBeanStands ==
  ASSUME NEW t \in Types, t.k = "struct", \A p \in Parts(t) : ReadStands(p),
         NEW j \in Java, ~Failed(ReadBean(t, j))
  PROVE  /\ Stands(t, ReadBean(t, j), j)
         /\ j[1] # "object" => \A x \in Java : Stands(t, ReadBean(t, j), x)
<1> DEFINE s == [i \in DOMAIN t.fields |-> FromObject(t.fields[i], j)]
<1>1. /\ DOMAIN t.fields = 1..Len(t.fields) /\ Len(t.fields) \in Nat
      /\ \A i \in DOMAIN t.fields : t.fields[i].type \in Parts(t) /\ t.fields[i].type \in Types
  BY TypeShape, PartsAreTypes
<1>2. ReadBean(t, j) = Made("struct", s)
  BY StructFromBean
<1>3. ReadBean(t, j) = <<"struct", s>> /\ \A i \in DOMAIN s : ~Failed(s[i])
  <2> HIDE DEF s
  <2> QED
    BY <1>2, MadeOf
<1>4. s = [i \in DOMAIN t.fields |-> s[i]] /\ \A i \in DOMAIN t.fields : s[i] = FromObject(t.fields[i], j)
  OBVIOUS
<1> HIDE DEF s
<1>5. ASSUME j[1] # "object", NEW x \in Java PROVE Stands(t, ReadBean(t, j), x)
  <2>1. \A i \in DOMAIN t.fields : Failed(s[i])
    BY <1>4, <1>5, Failures DEF FromObject
  <2>2. DOMAIN t.fields = {}
    BY <1>3, <1>4, <2>1
  <2>3. Len(t.fields) = 0
    BY <1>1, <2>2
  <2>4. x[1] = "ArrayList" => Len(x[2]) \in Nat
    BY <1>5, ListElements
  <2>5. IF x[1] = "ArrayList"
          THEN /\ Len(x[2]) >= Len(t.fields)
               /\ \A i \in DOMAIN t.fields : Shows[t.fields[i].type][s[i]][x[2][i]]
          ELSE \A i \in DOMAIN t.fields :
                 ShowsField(t.fields[i], Shows[t.fields[i].type], s[i], x)
    BY <2>2, <2>3, <2>4
  <2>6. \A i \in DOMAIN t.fields : s[i] \in Values[t.fields[i].type]
    BY <2>2
  <2>7. Stands(t, <<"struct", s>>, x)
    BY <1>4, <1>5, <2>5, <2>6, StructStands
  <2> QED
    BY <1>3, <2>7
<1>6. ASSUME j[1] = "object" PROVE Stands(t, ReadBean(t, j), j)
  <2>1. j[2] \in DOMAIN Classes /\ j[3] \in [AllProperties -> Java]
    BY <1>6, ObjectProperties
  <2>2. ASSUME NEW i \in DOMAIN t.fields
        PROVE  /\ s[i] \in Values[t.fields[i].type]
               /\ ShowsField(t.fields[i], Shows[t.fields[i].type], s[i], j)
    <3> DEFINE f == t.fields[i]
               got == Getter(j, f.name)
    <3>1. f.type \in Types /\ ReadStands(f.type) /\ s[i] = FromObject(f, j) /\ ~Failed(s[i])
      BY <1>1, <1>3, <1>4
    <3> HIDE DEF f
    <3>2. ~Failed(got) /\ s[i] = De(f.type, got)
      BY <1>6, <3>1 DEF FromObject
    <3>3. PICK g \in Classes[j[2]].getters :
            /\ \/ g.name \in {"get", "is"} \X {CamelCase[f.name]}
               \/ Classes[j[2]].record /\ g.name = <<"", f.name>>
            /\ got = j[3][g.prop]
      <4>1. \/ got \in {Error("no getter"), Error("exception")}
            \/ \E g \in Classes[j[2]].getters :
                 /\ \/ g.name \in {"get", "is"} \X {CamelCase[f.name]}
                    \/ Classes[j[2]].record /\ g.name = <<"", f.name>>
                 /\ got = j[3][g.prop]
        BY <2>1, GetterIs
      <4> HIDE DEF got
      <4> QED
        BY <3>2, <4>1, Failures
    <3>4. got \in Java
      <4>1. g.prop \in AllProperties
        BY <2>1, PropertiesAre
      <4> QED
        BY <2>1, <3>3, <4>1
    <3>5. got \in Property(j, f.name)
      <4> DEFINE named == {h \in Classes[j[2]].getters :
                             \/ h.name \in {"get", "is"} \X {CamelCase[f.name]}
                             \/ Classes[j[2]].record /\ h.name = <<"", f.name>>}
                          \cup {h \in Classes[j[2]].setters : h.name = CamelCase[f.name]}
      <4>1. Property(j, f.name) = {j[3][h.prop] : h \in named}
        BY DEF Property
      <4>2. g \in named
        BY <3>3
      <4> HIDE DEF named, got
      <4> QED
        BY <3>3, <4>1, <4>2
    <3> HIDE DEF got
    <3>6. Stands(f.type, s[i], got)
      BY <3>1, <3>2, <3>4 DEF ReadStands
    <3>7. s[i] \in Values[f.type] /\ ShowsField(f, Shows[f.type], s[i], j)
      BY <1>6, <3>5, <3>6 DEF Stands, ShowsField
    <3> QED
      BY <3>7 DEF f
  <2>3. j[1] # "ArrayList"
    BY <1>6
  <2>4. Stands(t, <<"struct", s>>, j)
    BY <1>4, <2>2, <2>3, StructStands
  <2> QED
    BY <1>3, <2>4
<1> QED
  BY <1>5, <1>6

\* What is read of a type is there, if that is so of its parts.
LEMMA ReadStep ==
  ASSUME NEW t \in Types, \A p \in Parts(t) : ReadStands(p)
  PROVE  ReadStands(t)
<1> SUFFICES ASSUME NEW j \in Java
             PROVE  /\ ~Failed(De(t, j)) => Stands(t, De(t, j), j)
                    /\ ~Failed(ReadBean(t, j)) => Stands(t, ReadBean(t, j), j)
                    /\ j[1] # "object" /\ ~Failed(ReadBean(t, j)) =>
                         \A x \in Java : Stands(t, ReadBean(t, j), x)
  BY DEF ReadStands
<1>0. \A kind : Failed(Error(kind))
  BY Failures
<1>1. CASE t.k \in Atomic
  <2>1. /\ t.k \in ScalarTypes => De(t, j) = ReadScalar(t.k, j)
        /\ t.k = "enum" => De(t, j) = Error("type")
        /\ t.k \in Atomic => ReadBean(t, j) = Error("not a struct")
    BY AtomRead
  <2>2. Failed(ReadBean(t, j))
    BY <1>0, <1>1, <2>1
  <2>3. ~Failed(De(t, j)) => t.k \in ScalarTypes
    BY <1>0, <1>1, <2>1 DEF Atomic
  <2> QED
    BY <2>2, <2>3, ScalarStands
<1>2. CASE t.k = "option"
  <2>1. ReadStands(t.of)
    BY <1>2, TypeShape
  <2>2. ReadBean(t, j) = Error("not a struct")
    BY <1>2, OptionRead
  <2>3. ~Failed(De(t, j)) => Stands(t, De(t, j), j)
    BY <1>2, <2>1, OptionStands
  <2> QED
    BY <1>0, <2>2, <2>3
<1>3. CASE t.k = "newtype"
  <2>1. ReadStands(t.of)
    BY <1>3, TypeShape
  <2>2. /\ De(t, j) = IF j[1] = "ArrayList" /\ j[2] # <<>> THEN Wrap("newtype", De(t.of, j[2][1]))
                      ELSE Error("type")
        /\ ReadBean(t, j) = Wrap("newtype", ReadBean(t.of, j))
    BY <1>3, NewtypeRead
  <2>3. ASSUME ~Failed(De(t, j)) PROVE Stands(t, De(t, j), j)
    <3>1. /\ j[1] = "ArrayList" /\ j[2] # <<>> /\ ~Failed(De(t.of, j[2][1]))
          /\ De(t, j) = <<"newtype", De(t.of, j[2][1])>>
      BY <2>2, <2>3, Failures
    <3>2. j[2][1] \in Java
      BY <3>1, ListElements
    <3>3. Stands(t.of, De(t.of, j[2][1]), j[2][1])
      BY <2>1, <3>1, <3>2 DEF ReadStands
    <3> QED
      BY <1>3, <3>1, <3>2, <3>3, NewtypeStands
  <2>4. ASSUME ~Failed(ReadBean(t, j)), NEW x \in Java, x = j \/ j[1] # "object"
        PROVE  Stands(t, ReadBean(t, j), x)
    <3>1. ~Failed(ReadBean(t.of, j)) /\ ReadBean(t, j) = <<"newtype", ReadBean(t.of, j)>>
      BY <2>2, <2>4, Failures
    <3>2. Stands(t.of, ReadBean(t.of, j), x)
      BY <2>1, <2>4, <3>1 DEF ReadStands
    <3> QED
      BY <1>3, <3>1, <3>2, NewtypeStands
  <2> QED
    BY <2>3, <2>4
<1>4. CASE t.k = "bean"
  <2>1. ReadStands(t.of)
    BY <1>4, TypeShape
  <2> QED
    BY <1>4, <2>1, NestedStands
<1>5. CASE t.k = "seq"
  <2>1. ReadStands(t.of)
    BY <1>5, TypeShape
  <2>2. ReadBean(t, j) = Error("not a struct")
    BY <1>5, SeqRead
  <2>3. ~Failed(De(t, j)) => Stands(t, De(t, j), j)
    BY <1>5, <2>1, SeqStands
  <2> QED
    BY <1>0, <2>2, <2>3
<1>6. CASE t.k = "tuple"
  <2>1. ReadBean(t, j) = Error("not a struct")
    BY <1>6, TupleRead
  <2>2. ~Failed(De(t, j)) => Stands(t, De(t, j), j)
    BY <1>6, TupleStands
  <2> QED
    BY <1>0, <2>1, <2>2
<1>7. CASE t.k = "map"
  <2>1. ReadStands(t.key) /\ ReadStands(t.of)
    BY <1>7, TypeShape
  <2>2. ReadBean(t, j) = Error("not a struct")
    BY <1>7, MapRead
  <2>3. ~Failed(De(t, j)) => Stands(t, De(t, j), j)
    BY <1>7, <2>1, MapStands
  <2> QED
    BY <1>0, <2>2, <2>3
<1>8. CASE t.k = "struct"
  BY <1>8, StructReadStands, StructBeanStands
<1> QED
  BY <1>1, <1>2, <1>3, <1>4, <1>5, <1>6, <1>7, <1>8, TypeShape

\* So it is there of every type.
LEMMA ReadAll == \A t \in Types : ReadStands(t)
<1> DEFINE Good == {t \in Types : ReadStands(t)}
<1>1. \A t \in Types : (\A p \in Parts(t) : p \in Good) => t \in Good
  BY ReadStep
<1> HIDE DEF Good
<1>2. Types \subseteq Good
  BY <1>1, TypeInduction
<1> QED
  BY <1>2 DEF Good

-----------------------------------------------------------------------------
(***************************************************************************)
(* What is written is read back.                                           *)
(***************************************************************************)

\* A value is no error.
LEMMA ValuesDoNotFail == \A t \in Types : \A v \in Values[t] : ~Failed(v)
<1> SUFFICES ASSUME NEW t \in Types, NEW v \in Values[t] PROVE ~Failed(v)
  OBVIOUS
<1>1. CASE t.k \in Atomic
  <2>1. v[1] \in {"int", "float", "bool", "char", "str", "unit", "variant"}
    BY <1>1, AtomValues DEF Atomic, ScalarTypes, FloatTypes
  <2> QED
    BY <2>1 DEF Failed
<1>2. CASE t.k \notin Atomic
  <2>1. v[1] \in {"none", "some", "newtype", "bean", "seq", "map", "struct"}
    <3>1. /\ t.k = "option" => v = NoneValue \/ v = <<"some", v[2]>>
          /\ t.k \in {"newtype", "bean"} => v = <<t.k, v[2]>>
          /\ t.k = "seq" => v = <<"seq", v[2]>>
          /\ t.k = "tuple" => v = <<"seq", v[2]>>
          /\ t.k = "map" => v = <<"map", v[2]>>
          /\ t.k = "struct" => v = <<"struct", v[2]>>
      BY ValueShape
    <3>2. t.k \in {"option", "newtype", "seq", "tuple", "map", "bean", "struct"}
      BY <1>2, TypeShape
    <3> QED
      BY <3>1, <3>2 DEF NoneValue
  <2> QED
    BY <2>1 DEF Failed
<1> QED
  BY <1>1, <1>2

\* What is reversible is so within.
LEMMA ReversibleParts ==
  ASSUME NEW t \in Types, Reversible(t)
  PROVE  /\ \A p \in Parts(t) : Reversible(p)
         /\ t.k # "newtype"
         /\ t.k = "option" => t.of.k \notin {"option", "unit", "newtype"}
<1>1. t \in Within[t] /\ \A p \in Parts(t) : Within[p] \subseteq Within[t]
  BY WithinParts
<1>2. /\ \A p \in Parts(t) : Reversible(p)
      /\ t.k # "newtype"
      /\ t.k = "option" => t.of.k \notin {"option", "unit"}
  BY <1>1 DEF Reversible
<1>3. t.k = "option" => t.of.k # "newtype"
  <2> SUFFICES ASSUME t.k = "option" PROVE t.of.k # "newtype"
    OBVIOUS
  <2>1. t.of \in Parts(t) /\ t.of \in Types
    BY TypeShape, PartsAreTypes
  <2>2. t.of \in Within[t.of] /\ Reversible(t.of)
    BY <1>2, <2>1, WithinParts
  <2> QED
    BY <2>2 DEF Reversible
<1> QED
  BY <1>2, <1>3

\* An accessor may be missing or throw.
Refused == {Error("no getter"), Error("exception")}

\* What the serializer writes is read back; what the others write is read back
\* or refused.
ReadBack(t) ==
  Reversible(t) /\ OneFieldPerProperty(t) =>
    \A v \in Values[t] :
      /\ ~Failed(Ser[t][v]) => De(t, Ser[t][v]) = v
      /\ ~Failed(Writer[t].property[v]) => De(t, Writer[t].property[v]) \in {v} \cup Refused
      /\ \A class :
           /\ ~Failed(Build(class, Writer[t].nested[v])) =>
                ReadBean(t, Build(class, Writer[t].nested[v])) \in {v} \cup Refused
           /\ ~Failed(Build(class, Writer[t].bean[v])) =>
                ReadBean(t, Build(class, Writer[t].bean[v])) \in {v} \cup Refused

\* What is written is a Java value.
LEMMA WrittenIsJava ==
  ASSUME NEW t \in Types, NEW v \in Values[t], ~Failed(Ser[t][v])
  PROVE  /\ Ser[t][v] \in Java
         /\ t.k \notin {"option", "unit", "newtype"} => Ser[t][v] # Null
<1>1. SerIsWhole(t, v)
  BY SerWhole
<1>2. JavaAt[Height + Depth[t]] \subseteq Java
  BY JavaLevels
<1> QED
  BY <1>1, <1>2 DEF SerIsWhole

\* A byte keeps its bits.
LEMMA ByteKept == \A n \in IntRange("u8") : AsUnsigned(AsSigned(n)) = n
<1>1. Half["u8"] \in Nat \ {0} /\ Half["i8"] = Half["u8"]
  BY ScalarsAssumption DEF IntegerTypes, FloatTypes, Signed
<1>2. IntRange("u8") = 0..(2 * Half["u8"] - 1)
  BY DEF IntRange, Signed
<1> QED
  BY <1>1, <1>2 DEF AsUnsigned, AsSigned

\* A scalar.
LEMMA ScalarBack ==
  ASSUME NEW t \in Types, t.k \in Atomic, NEW v \in Values[t], ~Failed(Ser[t][v])
  PROVE  De(t, Ser[t][v]) = v
<1> DEFINE j == Ser[t][v]
<1>1. j \in Java
  BY WrittenIsJava
<1>2. t.k \in ScalarTypes
  <2>1. t.k = "enum" => j = Error("unsupported")
    BY SerKinds
  <2> QED
    BY <2>1, Failures DEF Atomic
<1>3. j = SerScalar(t.k, v)
  BY <1>2, SerKinds
<1>4. De(t, j) = ReadScalar(t.k, j)
  BY <1>1, <1>2, AtomRead
<1> HIDE DEF j
<1>5. ~Failed(j)
  BY DEF j
<1>6. \A kind : Failed(Error(kind))
  BY Failures
<1>7. CASE t.k = "unit"
  <2>1. v = <<"unit">>
    BY <1>7, AtomValues
  <2> QED
    BY <1>4, <1>7, <2>1 DEF ReadScalar, j
<1>8. CASE t.k = "u32"
  BY <1>3, <1>5, <1>6, <1>8 DEF SerScalar
<1>9. CASE t.k = "u8"
  <2>1. PICK n \in IntRange("u8") : v = <<"int", n>>
    BY <1>9, AtomValues DEF IntegerTypes, FloatTypes
  <2>2. j = <<"Byte", AsSigned(n)>>
    BY <1>3, <1>9, <2>1 DEF SerScalar
  <2>3. De(t, j) = <<"int", AsUnsigned(AsSigned(n))>>
    BY <1>4, <1>9, <2>2 DEF ReadScalar
  <2> QED
    BY <2>1, <2>3, ByteKept DEF j
<1>10. CASE t.k \in Signed
  <2>1. PICK n \in IntRange(t.k) : v = <<"int", n>>
    BY <1>10, AtomValues DEF IntegerTypes, FloatTypes
  <2>2. j = <<WrapperClass[t.k], n>>
    BY <1>3, <1>10, <2>1 DEF SerScalar, Signed
  <2>3. WrapperClass[t.k] \in NumberClasses
    BY <1>10 DEF WrapperClass, ScalarTypes, IntegerTypes, FloatTypes, Signed, NumberClasses
  <2>4. ReadScalar(t.k, j) = VisitScalar(t.k, j)
    BY <1>10, <2>2, <2>3 DEF ReadScalar, NumberClasses, Signed
  <2>5. j[1] \in NumberClasses /\ j[2] = n /\ n \in IntRange(t.k) /\ t.k \in IntegerTypes
    BY <1>10, <2>1, <2>2, <2>3 DEF IntegerTypes, FloatTypes
  <2>6. VisitScalar(t.k, j) = <<"int", n>>
    BY <1>10, <2>5 DEF VisitScalar, FloatTypes, Signed
  <2> QED
    BY <1>4, <2>1, <2>4, <2>6 DEF j
<1>11. CASE t.k \in FloatTypes
  <2>1. PICK n \in Floats(t.k) : v = <<"float", n>>
    BY <1>11, AtomValues
  <2>2. j = <<WrapperClass[t.k], n>> /\ WrapperClass[t.k] \in FloatClasses
    BY <1>3, <1>11, <2>1
    DEF SerScalar, WrapperClass, ScalarTypes, IntegerTypes, FloatTypes, Signed, FloatClasses
  <2>3. ReadScalar(t.k, j) = <<"float", Cast[t.k][n]>>
    BY <1>11, <2>2 DEF ReadScalar, VisitScalar, IntegerTypes, FloatTypes, FloatClasses, Signed
  <2> QED
    BY <1>4, <1>11, <2>1, <2>3, FloatIsItself DEF j
<1>12. CASE t.k = "bool"
  <2>1. PICK b \in BOOLEAN : v = <<"bool", b>>
    BY <1>12, AtomValues
  <2>2. j = <<"Boolean", b>>
    BY <1>3, <1>12, <2>1 DEF SerScalar, WrapperClass, ScalarTypes, FloatTypes
  <2> QED
    BY <1>4, <1>12, <2>1, <2>2 DEF ReadScalar, VisitScalar, IntegerTypes, FloatTypes, Signed, j
<1>13. CASE t.k = "char"
  <2>1. PICK c \in Characters : v = <<"char", c>>
    BY <1>13, AtomValues
  <2>2. c \notin Astral
    BY <1>3, <1>5, <1>6, <1>13, <2>1 DEF SerScalar
  <2>3. j = <<"Character", c>>
    BY <1>3, <1>13, <2>1, <2>2 DEF SerScalar, WrapperClass, ScalarTypes, FloatTypes
  <2>4. c \notin Surrogates
    BY ScalarsAssumption
  <2> QED
    BY <1>4, <1>13, <2>1, <2>3, <2>4 DEF ReadScalar, VisitScalar, IntegerTypes, FloatTypes, Signed, j
<1>14. CASE t.k = "str"
  <2>1. PICK c \in Texts : v = <<"str", c>>
    BY <1>14, AtomValues
  <2>2. j = <<"String", c>>
    BY <1>3, <1>14, <2>1 DEF SerScalar, WrapperClass, ScalarTypes, FloatTypes
  <2> QED
    BY <1>4, <1>14, <2>1, <2>2 DEF ReadScalar, VisitScalar, IntegerTypes, FloatTypes, Signed, j
<1> QED
  BY <1>2, <1>7, <1>8, <1>9, <1>10, <1>11, <1>12, <1>13, <1>14 DEF ScalarTypes, IntegerTypes, FloatTypes

\* An Option.
LEMMA OptionBack ==
  ASSUME NEW t \in Types, t.k = "option", t.of.k \notin {"option", "unit", "newtype"},
         \A x \in Values[t.of] : ~Failed(Ser[t.of][x]) => De(t.of, Ser[t.of][x]) = x,
         NEW v \in Values[t], ~Failed(Ser[t][v])
  PROVE  De(t, Ser[t][v]) = v
<1>1. Ser[t][v] \in Java
  BY WrittenIsJava
<1>2. De(t, Ser[t][v]) = IF Ser[t][v] = Null THEN NoneValue ELSE Wrap("some", De(t.of, Ser[t][v]))
  BY <1>1, OptionRead
<1>3. CASE v = NoneValue
  <2>1. Ser[t][v] = Null
    BY <1>3, OptionIs
  <2> QED
    BY <1>2, <1>3, <2>1
<1>4. CASE v # NoneValue
  <2>1. /\ t.of \in Parts(t) /\ v[2] \in Values[t.of] /\ v = <<"some", v[2]>>
        /\ Ser[t][v] = Ser[t.of][v[2]]
    BY <1>4, OptionIs
  <2>2. t.of \in Types
    BY <2>1, PartsAreTypes
  <2>3. Ser[t.of][v[2]] # Null
    BY <2>1, <2>2, WrittenIsJava
  <2>4. De(t.of, Ser[t][v]) = v[2]
    BY <2>1
  <2>5. ~Failed(v[2])
    BY <2>1, <2>2, ValuesDoNotFail
  <2>6. De(t, Ser[t][v]) = Wrap("some", v[2])
    BY <1>2, <2>1, <2>3, <2>4
  <2> QED
    BY <2>1, <2>5, <2>6 DEF Wrap
<1> QED
  BY <1>3, <1>4

\* A sequence.
LEMMA SeqBack ==
  ASSUME NEW t \in Types, t.k = "seq",
         \A x \in Values[t.of] : ~Failed(Ser[t.of][x]) => De(t.of, Ser[t.of][x]) = x,
         NEW v \in Values[t], ~Failed(Ser[t][v])
  PROVE  De(t, Ser[t][v]) = v
<1> DEFINE j == Ser[t][v]
           s == [i \in DOMAIN v[2] |-> Ser[t.of][v[2][i]]]
           parts == [i \in DOMAIN j[2] |-> De(t.of, j[2][i])]
           n == Len(v[2])
<1>1. /\ t.of \in Types /\ v = <<"seq", v[2]>> /\ n \in Nat /\ DOMAIN v[2] = 1..n
      /\ v[2] = [i \in DOMAIN v[2] |-> v[2][i]]
      /\ \A i \in 1..n : v[2][i] \in Values[t.of]
  BY SeqIs, PartsAreTypes
<1>2. s = [i \in 1..n |-> s[i]] /\ DOMAIN s = 1..n /\ \A i \in 1..n : s[i] = Ser[t.of][v[2][i]]
  BY <1>1
<1>3. j = ArrayList(s) /\ ~Failed(j)
  BY SeqWritten
<1>4. j \in Java
  BY WrittenIsJava
<1>5. De(t, j) = IF j[1] = "ArrayList" THEN Made("seq", parts) ELSE Error("type")
  BY <1>4, SeqRead
<1> HIDE DEF j, s, n
<1>6. j = <<"ArrayList", s>> /\ \A i \in 1..n : ~Failed(s[i])
  BY <1>1, <1>2, <1>3, ArrayListOf
<1>7. j[1] = "ArrayList" /\ j[2] = s
  BY <1>6
<1>8. DOMAIN parts = 1..n /\ parts = [i \in 1..n |-> parts[i]] /\ \A i \in 1..n : parts[i] = v[2][i]
  BY <1>1, <1>2, <1>6, <1>7
<1> HIDE DEF parts
<1>9. parts = v[2]
  BY <1>1, <1>8
<1>10. \A i \in DOMAIN parts : ~Failed(parts[i])
  BY <1>1, <1>8, ValuesDoNotFail
<1>11. Made("seq", parts) = <<"seq", parts>>
  BY <1>10, MadeIs
<1> QED
  BY <1>1, <1>5, <1>7, <1>9, <1>11 DEF j

\* A tuple.
LEMMA TupleBack ==
  ASSUME NEW t \in Types, t.k = "tuple",
         \A p \in Parts(t) : \A x \in Values[p] : ~Failed(Ser[p][x]) => De(p, Ser[p][x]) = x,
         NEW v \in Values[t], ~Failed(Ser[t][v])
  PROVE  De(t, Ser[t][v]) = v
<1> DEFINE j == Ser[t][v]
           s == [i \in DOMAIN t.parts |-> Ser[t.parts[i]][v[2][i]]]
           parts == [i \in DOMAIN t.parts |-> De(t.parts[i], j[2][i])]
           n == Len(t.parts)
<1>1. /\ v = <<"seq", v[2]>> /\ n \in Nat /\ DOMAIN t.parts = 1..n
      /\ v[2] = [i \in DOMAIN t.parts |-> v[2][i]]
      /\ \A i \in 1..n : t.parts[i] \in Parts(t) /\ v[2][i] \in Values[t.parts[i]]
  BY TupleIs
<1>0. \A i \in 1..n : t.parts[i] \in Types
  BY <1>1, PartsAreTypes
<1>2. s = [i \in 1..n |-> s[i]] /\ DOMAIN s = 1..n /\ \A i \in 1..n : s[i] = Ser[t.parts[i]][v[2][i]]
  BY <1>1
<1>3. j = ArrayList(s) /\ ~Failed(j)
  BY TupleWritten
<1>4. j \in Java
  BY WrittenIsJava
<1>5. De(t, j) = IF j[1] = "ArrayList" /\ Len(j[2]) >= n THEN Made("seq", parts) ELSE Error("type")
  BY <1>4, TupleRead
<1> HIDE DEF j, s, n
<1>6. j = <<"ArrayList", s>> /\ Len(s) = n /\ \A i \in 1..n : ~Failed(s[i])
  BY <1>1, <1>2, <1>3, ArrayListOf
<1>7. j[1] = "ArrayList" /\ j[2] = s /\ Len(j[2]) >= n
  BY <1>1, <1>6
<1>8. DOMAIN parts = 1..n /\ parts = [i \in 1..n |-> parts[i]] /\ \A i \in 1..n : parts[i] = v[2][i]
  BY <1>1, <1>2, <1>6, <1>7
<1> HIDE DEF parts
<1>9. parts = v[2]
  BY <1>1, <1>8
<1>10. \A i \in DOMAIN parts : ~Failed(parts[i])
  BY <1>0, <1>1, <1>8, ValuesDoNotFail
<1>11. Made("seq", parts) = <<"seq", parts>>
  BY <1>10, MadeIs
<1> QED
  BY <1>1, <1>5, <1>7, <1>9, <1>11 DEF j

\* A map: two keys are written as two, as each is read back.
LEMMA MapBack ==
  ASSUME NEW t \in Types, t.k = "map",
         \A p \in Parts(t) : \A x \in Values[p] : ~Failed(Ser[p][x]) => De(p, Ser[p][x]) = x,
         NEW v \in Values[t], ~Failed(Ser[t][v])
  PROVE  De(t, Ser[t][v]) = v
<1> DEFINE j == Ser[t][v]
           entries == {<<Ser[t.key][e[1]], Ser[t.of][e[2]]>> : e \in v[2]}
<1>1. /\ t.key \in Parts(t) /\ t.of \in Parts(t) /\ v = <<"map", v[2]>>
      /\ \A e \in v[2] : e[1] \in Values[t.key] /\ e[2] \in Values[t.of] /\ e = <<e[1], e[2]>>
      /\ \A e, f \in v[2] : e[1] = f[1] => e = f
  BY MapIs
<1>2. t.key \in Types /\ t.of \in Types
  BY <1>1, PartsAreTypes
<1>3. j = HashMap(entries) /\ ~Failed(j)
  BY MapWritten
<1>4. j \in Java
  BY WrittenIsJava
<1>5. /\ \A e \in v[2] : <<Ser[t.key][e[1]], Ser[t.of][e[2]]>> \in entries
      /\ \A d \in entries : \E e \in v[2] : d = <<Ser[t.key][e[1]], Ser[t.of][e[2]]>>
  OBVIOUS
<1> HIDE DEF j, entries
<1>6. j = <<"HashMap", entries>> /\ \A d \in entries : ~Failed(d[1]) /\ ~Failed(d[2])
  BY <1>3, HashMapOf
<1>7. j[1] = "HashMap" /\ j[2] = entries
  BY <1>6
<1>8. ASSUME NEW e \in v[2]
      PROVE  De(t.key, Ser[t.key][e[1]]) = e[1] /\ De(t.of, Ser[t.of][e[2]]) = e[2]
  <2>1. ~Failed(Ser[t.key][e[1]]) /\ ~Failed(Ser[t.of][e[2]])
    BY <1>5, <1>6
  <2> QED
    BY <1>1, <2>1
<1>9. \A d \in j[2] : \E e \in v[2] : De(t.key, d[1]) = e[1] /\ De(t.of, d[2]) = e[2]
  <2> TAKE d \in j[2]
  <2>1. PICK e \in v[2] : d = <<Ser[t.key][e[1]], Ser[t.of][e[2]]>>
    BY <1>5, <1>7
  <2> QED
    BY <1>8, <2>1
<1>10. \A e \in v[2] : ~Failed(e[1]) /\ ~Failed(e[2])
  BY <1>1, <1>2, ValuesDoNotFail
<1>11. \A d \in j[2] : ~Failed(De(t.key, d[1])) /\ ~Failed(De(t.of, d[2]))
  BY <1>9, <1>10
<1>12. PICK m : /\ De(t, j) = <<"map", m>>
                /\ \A x \in m : \E d \in j[2] : x = <<De(t.key, d[1]), De(t.of, d[2])>>
                /\ \A d \in j[2] : \E x \in m : x[1] = De(t.key, d[1])
                /\ \A x, y \in m : x[1] = y[1] => x = y
  BY <1>4, <1>7, <1>11, MapReadOf
<1>13. \A x \in m : x \in v[2]
  <2> TAKE x \in m
  <2>1. PICK d \in j[2] : x = <<De(t.key, d[1]), De(t.of, d[2])>>
    BY <1>12
  <2>2. PICK e \in v[2] : De(t.key, d[1]) = e[1] /\ De(t.of, d[2]) = e[2]
    BY <1>9
  <2>3. x = <<e[1], e[2]>>
    BY <2>1, <2>2
  <2> QED
    BY <1>1, <2>3
<1>14. \A e \in v[2] : e \in m
  <2> TAKE e \in v[2]
  <2>1. <<Ser[t.key][e[1]], Ser[t.of][e[2]]>> \in j[2]
    BY <1>5, <1>7
  <2>2. PICK x \in m : x[1] = e[1]
    BY <1>8, <1>12, <2>1
  <2>3. x = e
    BY <1>1, <1>13, <2>2
  <2> QED
    BY <2>3
<1>15. m = v[2]
  BY <1>13, <1>14
<1> QED
  BY <1>1, <1>12, <1>15 DEF j

\* What is written of a struct or a JavaBean is a map of its fields.
LEMMA FieldsWritten ==
  ASSUME NEW t \in Types, t.k \in {"struct", "bean"}, NEW v \in Values[t], ~Failed(Ser[t][v])
  PROVE  /\ Ser[t][v][1] = "HashMap"
         /\ \A i \in DOMAIN Fields(t) :
              /\ ~Failed(Ser[Fields(t)[i].type][FieldValues(t, v)[i]])
              /\ HasKey(Ser[t][v], Fields(t)[i].name)
              /\ Entry(Ser[t][v], Fields(t)[i].name) \in Ser[t][v][2]
              /\ Entry(Ser[t][v], Fields(t)[i].name)[2] = Ser[Fields(t)[i].type][FieldValues(t, v)[i]]
         /\ \A e \in Ser[t][v][2] : \E i \in DOMAIN Fields(t) :
              e[1] = JavaString(Fields(t)[i].name) /\ e = Entry(Ser[t][v], Fields(t)[i].name)
<1> DEFINE D == DOMAIN Fields(t)
           x == [i \in D |-> Ser[Fields(t)[i].type][FieldValues(t, v)[i]]]
           entries == {<<JavaString(Fields(t)[i].name), x[i]>> : i \in D}
           j == Ser[t][v]
<1>1. j = HashMap(entries)
  <2>1. j = HashMap({<<JavaString(Fields(t)[i].name),
                       Ser[Fields(t)[i].type][FieldValues(t, v)[i]]>> : i \in D})
    BY FieldsAre
  <2>2. {<<JavaString(Fields(t)[i].name), Ser[Fields(t)[i].type][FieldValues(t, v)[i]]>> : i \in D}
          = entries
    OBVIOUS
  <2> HIDE DEF j
  <2> QED
    BY <2>1, <2>2
<1>2. ~Failed(j)
  OBVIOUS
<1>3. \A i \in D : x[i] = Ser[Fields(t)[i].type][FieldValues(t, v)[i]]
  OBVIOUS
<1> HIDE DEF x, j
<1>4. /\ \A i \in DOMAIN Fields(t) : <<JavaString(Fields(t)[i].name), x[i]>> \in entries
      /\ \A e \in entries : \E i \in DOMAIN Fields(t) : e = <<JavaString(Fields(t)[i].name), x[i]>>
  OBVIOUS
<1> HIDE DEF entries
<1>5. j = <<"HashMap", entries>> /\ \A e \in entries : ~Failed(e[1]) /\ ~Failed(e[2])
  BY <1>1, <1>2, HashMapOf
<1>6. j[1] = "HashMap" /\ j[2] = entries
  BY <1>5
<1>7. ASSUME NEW i \in DOMAIN Fields(t)
      PROVE  /\ ~Failed(x[i])
             /\ HasKey(j, Fields(t)[i].name)
             /\ Entry(j, Fields(t)[i].name) = <<JavaString(Fields(t)[i].name), x[i]>>
             /\ Entry(j, Fields(t)[i].name) \in j[2]
  <2>1. /\ \A k \in DOMAIN Fields(t) : <<JavaString(Fields(t)[k].name), x[k]>> \in j[2]
        /\ \A e \in j[2] : \E k \in DOMAIN Fields(t) : e = <<JavaString(Fields(t)[k].name), x[k]>>
    BY <1>4, <1>6
  <2>2. /\ HasKey(j, Fields(t)[i].name)
        /\ Entry(j, Fields(t)[i].name) = <<JavaString(Fields(t)[i].name), x[i]>>
        /\ Entry(j, Fields(t)[i].name) \in j[2]
    BY <2>1, FieldEntries
  <2>3. ~Failed(x[i])
    BY <1>4, <1>5
  <2> QED
    BY <2>2, <2>3
<1>8. \A e \in j[2] : \E i \in DOMAIN Fields(t) :
        e[1] = JavaString(Fields(t)[i].name) /\ e = Entry(j, Fields(t)[i].name)
  <2> TAKE e \in j[2]
  <2>1. PICK i \in DOMAIN Fields(t) : e = <<JavaString(Fields(t)[i].name), x[i]>>
    BY <1>4, <1>6
  <2> QED
    BY <1>7, <2>1
<1>9. \A i \in DOMAIN Fields(t) : /\ ~Failed(Ser[Fields(t)[i].type][FieldValues(t, v)[i]])
                                  /\ HasKey(j, Fields(t)[i].name)
                                  /\ Entry(j, Fields(t)[i].name) \in j[2]
                                  /\ Entry(j, Fields(t)[i].name)[2] =
                                       Ser[Fields(t)[i].type][FieldValues(t, v)[i]]
  <2> TAKE i \in DOMAIN Fields(t)
  <2>1. x[i] = Ser[Fields(t)[i].type][FieldValues(t, v)[i]]
    BY <1>3
  <2> QED
    BY <1>7, <2>1
<1> QED
  BY <1>6, <1>8, <1>9 DEF j

\* A struct.
LEMMA StructBack ==
  ASSUME NEW t \in Types, t.k = "struct",
         \A p \in Parts(t) : \A x \in Values[p] : ~Failed(Ser[p][x]) => De(p, Ser[p][x]) = x,
         NEW v \in Values[t], ~Failed(Ser[t][v])
  PROVE  De(t, Ser[t][v]) = v
<1> DEFINE j == Ser[t][v]
           s == [i \in DOMAIN t.fields |-> FromMap(t.fields[i], j)]
<1>1. /\ Fields(t) = t.fields /\ FieldValues(t, v) = v[2]
      /\ v = <<"struct", v[2]>> /\ v[2] = [i \in DOMAIN t.fields |-> v[2][i]]
      /\ \A i \in DOMAIN t.fields : /\ t.fields[i].type \in Parts(t)
                                    /\ v[2][i] \in Values[t.fields[i].type]
  BY StructIs
<1>2. \A i \in DOMAIN t.fields : t.fields[i].type \in Types
  BY <1>1, PartsAreTypes
<1>3. j \in Java
  BY WrittenIsJava
<1>4. /\ j[1] = "HashMap"
      /\ \A i \in DOMAIN t.fields : /\ ~Failed(Ser[t.fields[i].type][v[2][i]])
                                    /\ HasKey(j, t.fields[i].name)
                                    /\ Entry(j, t.fields[i].name)[2] = Ser[t.fields[i].type][v[2][i]]
      /\ \A e \in j[2] : \E i \in DOMAIN t.fields : e[1] = JavaString(t.fields[i].name)
  <2>1. /\ Ser[t][v][1] = "HashMap"
        /\ \A i \in DOMAIN Fields(t) :
             /\ ~Failed(Ser[Fields(t)[i].type][FieldValues(t, v)[i]])
             /\ HasKey(Ser[t][v], Fields(t)[i].name)
             /\ Entry(Ser[t][v], Fields(t)[i].name) \in Ser[t][v][2]
             /\ Entry(Ser[t][v], Fields(t)[i].name)[2] = Ser[Fields(t)[i].type][FieldValues(t, v)[i]]
        /\ \A e \in Ser[t][v][2] : \E i \in DOMAIN Fields(t) :
             e[1] = JavaString(Fields(t)[i].name) /\ e = Entry(Ser[t][v], Fields(t)[i].name)
    BY FieldsWritten
  <2> HIDE DEF j
  <2>2. j = Ser[t][v] /\ Fields(t) = t.fields /\ FieldValues(t, v) = v[2]
    BY <1>1 DEF j
  <2>3. \A i \in DOMAIN t.fields : /\ ~Failed(Ser[t.fields[i].type][v[2][i]])
                                   /\ HasKey(j, t.fields[i].name)
                                   /\ Entry(j, t.fields[i].name)[2] = Ser[t.fields[i].type][v[2][i]]
    BY <2>1, <2>2
  <2>4. \A e \in j[2] : \E i \in DOMAIN t.fields : e[1] = JavaString(t.fields[i].name)
    BY <2>1, <2>2
  <2> QED
    BY <2>1, <2>2, <2>3, <2>4
<1>5. \/ De(t, j) \in {Error("key"), Error("type")}
         /\ \/ \E e \in j[2] : e[1][1] # "String"
            \/ \E e \in j[2] : e[1][2] \notin {t.fields[i].name : i \in DOMAIN t.fields}
      \/ De(t, j) = Made("struct", s)
  BY <1>3, <1>4, StructFromMap
<1> HIDE DEF j
<1>6. \A e \in j[2] : e[1][1] = "String" /\ e[1][2] \in {t.fields[i].name : i \in DOMAIN t.fields}
  BY <1>4 DEF JavaString
<1>7. ASSUME NEW i \in DOMAIN t.fields PROVE s[i] = v[2][i] /\ ~Failed(s[i])
  <2>1. s[i] = De(t.fields[i].type, Ser[t.fields[i].type][v[2][i]])
    BY <1>4 DEF FromMap
  <2>2. s[i] = v[2][i]
    BY <1>1, <1>4, <2>1
  <2> QED
    BY <1>1, <1>2, <2>2, ValuesDoNotFail
<1>8. DOMAIN s = DOMAIN t.fields /\ s = [i \in DOMAIN t.fields |-> s[i]]
  OBVIOUS
<1> HIDE DEF s
<1>9. s = v[2]
  BY <1>1, <1>7, <1>8
<1>10. \A i \in DOMAIN s : ~Failed(s[i])
  BY <1>7, <1>8
<1>11. Made("struct", s) = <<"struct", s>>
  BY <1>10, MadeIs
<1>12. De(t, j) = Made("struct", s)
  BY <1>5, <1>6
<1> QED
  BY <1>1, <1>9, <1>11, <1>12 DEF j

\* A JavaBean in a value tree is a map of two keys.
LEMMA BeanBack ==
  ASSUME NEW t \in Types, t.k = "bean",
         \A x \in Values[t.of] : ~Failed(Ser[t.of][x]) => De(t.of, Ser[t.of][x]) = x,
         NEW v \in Values[t], ~Failed(Ser[t][v])
  PROVE  De(t, Ser[t][v]) = v
<1> DEFINE j == Ser[t][v]
<1>1. /\ t.of \in Types /\ v[2] \in Values[t.of] /\ v = <<"bean", v[2]>>
  BY BeanIs, PartsAreTypes
<1>2. /\ Fields(t) = <<[name |-> ClassKey, type |-> [k |-> "str"]], [name |-> ValueKey, type |-> t.of]>>
      /\ FieldValues(t, v) = <<<<"str", t.class>>, v[2]>>
  BY BeanIs
<1>3. /\ DOMAIN Fields(t) = {1, 2}
      /\ Fields(t)[1].name = ClassKey /\ Fields(t)[2].name = ValueKey
      /\ Fields(t)[2].type = t.of /\ FieldValues(t, v)[2] = v[2]
  BY <1>2
<1>4. j \in Java
  BY WrittenIsJava
<1>5. /\ j[1] = "HashMap"
      /\ \A i \in {1, 2} :
           /\ ~Failed(Ser[Fields(t)[i].type][FieldValues(t, v)[i]])
           /\ HasKey(j, Fields(t)[i].name)
           /\ Entry(j, Fields(t)[i].name) \in j[2]
           /\ Entry(j, Fields(t)[i].name)[2] = Ser[Fields(t)[i].type][FieldValues(t, v)[i]]
      /\ \A e \in j[2] : \E i \in {1, 2} : e = Entry(j, Fields(t)[i].name)
  <2>1. /\ Ser[t][v][1] = "HashMap"
        /\ \A i \in DOMAIN Fields(t) :
             /\ ~Failed(Ser[Fields(t)[i].type][FieldValues(t, v)[i]])
             /\ HasKey(Ser[t][v], Fields(t)[i].name)
             /\ Entry(Ser[t][v], Fields(t)[i].name) \in Ser[t][v][2]
             /\ Entry(Ser[t][v], Fields(t)[i].name)[2] = Ser[Fields(t)[i].type][FieldValues(t, v)[i]]
        /\ \A e \in Ser[t][v][2] : \E i \in DOMAIN Fields(t) :
             e[1] = JavaString(Fields(t)[i].name) /\ e = Entry(Ser[t][v], Fields(t)[i].name)
    BY FieldsWritten
  <2> QED
    BY <1>3, <2>1
<1> HIDE DEF j
<1>6. /\ HasKey(j, ClassKey) /\ HasKey(j, ValueKey)
      /\ Entry(j, ClassKey) \in j[2] /\ Entry(j, ValueKey) \in j[2]
      /\ Entry(j, ValueKey)[2] = Ser[t.of][v[2]] /\ ~Failed(Ser[t.of][v[2]])
      /\ \A e \in j[2] : e = Entry(j, ClassKey) \/ e = Entry(j, ValueKey)
  BY <1>3, <1>5
<1>7. j[2] = {Entry(j, ClassKey), Entry(j, ValueKey)}
  BY <1>6
<1>8. IsBeanMarkerMap(j)
  BY <1>5, <1>6, <1>7 DEF IsBeanMarkerMap
<1>9. De(t, j) = Wrap("bean", De(t.of, Entry(j, ValueKey)[2]))
  BY <1>4, <1>8, BeanRead
<1>10. De(t, j) = Wrap("bean", v[2])
  BY <1>1, <1>6, <1>9
<1>11. ~Failed(v[2])
  BY <1>1, ValuesDoNotFail
<1> QED
  BY <1>1, <1>10, <1>11 DEF Wrap, j

\* A value of one more level is read back as it was written.
LEMMA SerBack ==
  ASSUME NEW t \in Types, Reversible(t),
         \A p \in Parts(t) : \A x \in Values[p] : ~Failed(Ser[p][x]) => De(p, Ser[p][x]) = x,
         NEW v \in Values[t], ~Failed(Ser[t][v])
  PROVE  De(t, Ser[t][v]) = v
<1>1. t.k # "newtype" /\ (t.k = "option" => t.of.k \notin {"option", "unit", "newtype"})
  BY ReversibleParts
<1>2. t.k \in {"option", "seq", "bean"} =>
        \A x \in Values[t.of] : ~Failed(Ser[t.of][x]) => De(t.of, Ser[t.of][x]) = x
  BY TypeShape
<1>3. CASE t.k \in Atomic
  BY <1>3, ScalarBack
<1>4. CASE t.k = "option"
  BY <1>1, <1>2, <1>4, OptionBack
<1>5. CASE t.k = "seq"
  BY <1>2, <1>5, SeqBack
<1>6. CASE t.k = "tuple"
  BY <1>6, TupleBack
<1>7. CASE t.k = "map"
  BY <1>7, MapBack
<1>8. CASE t.k = "struct"
  BY <1>8, StructBack
<1>9. CASE t.k = "bean"
  BY <1>2, <1>9, BeanBack
<1> QED
  BY <1>1, <1>3, <1>4, <1>5, <1>6, <1>7, <1>8, <1>9, TypeShape

\* A property is read back, or refused where a JavaBean in it is.
LEMMA PropertyBack ==
  ASSUME NEW t \in Types, Reversible(t), OneFieldPerProperty(t), \A p \in Parts(t) : ReadBack(p),
         \A x \in Values[t] : ~Failed(Ser[t][x]) => De(t, Ser[t][x]) = x,
         NEW v \in Values[t], ~Failed(Writer[t].property[v])
  PROVE  De(t, Writer[t].property[v]) \in {v} \cup Refused
<1> DEFINE j == Writer[t].property[v]
<1>1. j \in Java
  <2>1. PropertyIsWhole(t, v)
    BY WriterWhole DEF WriterIsWhole
  <2>2. JavaAt[Height + Depth[t]] \subseteq Java
    BY JavaLevels
  <2> QED
    BY <2>1, <2>2 DEF PropertyIsWhole
<1>2. ~Failed(j)
  OBVIOUS
<1>3. \A p \in Parts(t) : Reversible(p) /\ OneFieldPerProperty(p)
  BY ReversibleParts, OneFieldParts
<1>4. \A x, k : x \in Refused => Wrap(k, x) = x
  BY Failures DEF Refused, Wrap
<1> HIDE DEF j
<1>5. CASE t.k = "option" /\ v # NoneValue
  <2>1. j = Writer[t.of].property[v[2]]
    BY <1>5, WriterKinds DEF j
  <2>2. t.of \in Parts(t) /\ v[2] \in Values[t.of] /\ v = <<"some", v[2]>>
    BY <1>5, OptionIs
  <2>3. t.of \in Types
    BY <2>2, PartsAreTypes
  <2>4. De(t.of, j) \in {v[2]} \cup Refused
    BY <1>2, <1>3, <2>1, <2>2 DEF ReadBack
  <2>5. j # Null
    <3>1. PropertyIsWhole(t.of, v[2])
      BY <2>2, <2>3, WriterWhole DEF WriterIsWhole
    <3>2. t.of.k \notin {"option", "unit", "newtype"}
      BY <1>5, ReversibleParts
    <3> QED
      BY <1>2, <2>1, <3>1, <3>2 DEF PropertyIsWhole
  <2>6. De(t, j) = Wrap("some", De(t.of, j))
    BY <1>1, <1>5, <2>5, OptionRead
  <2>7. ~Failed(v[2])
    BY <2>2, <2>3, ValuesDoNotFail
  <2>8. Wrap("some", v[2]) = v
    BY <2>2, <2>7 DEF Wrap
  <2>9. De(t, j) \in {v} \cup Refused
    BY <1>4, <2>4, <2>6, <2>8
  <2> QED
    BY <2>9 DEF j
<1>6. CASE t.k = "bean"
  <2>1. j = Build(t.class, Writer[t.of].nested[v[2]])
    BY <1>6, WriterKinds DEF j
  <2>2. t.of \in Parts(t) /\ v[2] \in Values[t.of] /\ v = <<"bean", v[2]>>
    BY <1>6, BeanIs
  <2>3. t.of \in Types
    BY <2>2, PartsAreTypes
  <2>4. ReadBean(t.of, j) \in {v[2]} \cup Refused
    BY <1>2, <1>3, <2>1, <2>2 DEF ReadBack
  <2>5. j[1] = "object"
    <3>1. BuiltIsWhole(t.of, v[2], Writer[t.of].nested[v[2]])
      BY <2>2, <2>3, WriterWhole DEF WriterIsWhole
    <3> QED
      BY <1>2, <2>1, <3>1 DEF BuiltIsWhole
  <2>6. De(t, j) = Wrap("bean", ReadBean(t.of, j))
    <3>1. ~IsBeanMarkerMap(j) /\ j # Null
      BY <2>5 DEF IsBeanMarkerMap, Null
    <3> QED
      BY <1>1, <1>6, <3>1, BeanRead
  <2>7. ~Failed(v[2])
    BY <2>2, <2>3, ValuesDoNotFail
  <2>8. Wrap("bean", v[2]) = v
    BY <2>2, <2>7 DEF Wrap
  <2>9. De(t, j) \in {v} \cup Refused
    BY <1>4, <2>4, <2>6, <2>8
  <2> QED
    BY <2>9 DEF j
<1>7. CASE t.k # "bean" /\ (t.k = "option" => v = NoneValue)
  <2>1. t.k # "newtype"
    BY ReversibleParts
  <2>2. j = Ser[t][v]
    BY <1>7, <2>1, WriterKinds DEF j
  <2>3. De(t, j) = v
    BY <1>2, <2>2
  <2> QED
    BY <2>3 DEF j
<1> QED
  BY <1>5, <1>6, <1>7

\* A bean that is built of a struct is read back, or an accessor refuses.
LEMMA BuiltBack ==
  ASSUME NEW t \in Types, t.k = "struct", Reversible(t), OneFieldPerProperty(t),
         \A p \in Parts(t) : ReadBack(p),
         NEW v \in Values[t], NEW class, ~Failed(Build(class, Pairs(t, Writer, v)))
  PROVE  ReadBean(t, Build(class, Pairs(t, Writer, v))) \in {v} \cup Refused
<1> DEFINE captured == Pairs(t, Writer, v)
           o == Build(class, captured)
           n == Len(t.fields)
           s == [i \in DOMAIN t.fields |-> FromObject(t.fields[i], o)]
           written(i) == Writer[t.fields[i].type].property[v[2][i]]
<1>1. /\ n \in Nat /\ DOMAIN t.fields = 1..n /\ Fields(t) = t.fields /\ FieldValues(t, v) = v[2]
      /\ v = <<"struct", v[2]>> /\ v[2] = [i \in DOMAIN t.fields |-> v[2][i]]
      /\ \A i \in 1..n : t.fields[i].type \in Parts(t) /\ v[2][i] \in Values[t.fields[i].type]
  <2>1. v = <<"struct", v[2]>> /\ v[2] = [i \in DOMAIN t.fields |-> v[2][i]]
    BY StructIs
  <2> QED
    BY <2>1, StructFields
<1>2. \A i \in 1..n : t.fields[i].type \in Types
  BY <1>1, PartsAreTypes
<1>3. /\ captured[1] = "pairs" /\ DOMAIN captured[2] = 1..n
      /\ \A i \in 1..n : captured[2][i].name = t.fields[i].name /\ captured[2][i].value = written(i)
  BY StructPairs
<1>4. o \in Java /\ o[1] = "object"
  <2>1. BuiltIsWhole(t, v, captured)
    <3>1. \A p \in Parts(t) : \A x \in Values[p] : PropertyIsWhole(p, x)
      BY WriterWhole, PartsAreTypes DEF WriterIsWhole
    <3> QED
      BY <3>1, StructBuilt
  <2>2. JavaAt[Height + Depth[t]] \subseteq Java
    BY JavaLevels
  <2>3. o \in JavaAt[Height + Depth[t]] /\ o[1] = "object"
    BY <2>1 DEF BuiltIsWhole
  <2> QED
    BY <2>2, <2>3
<1>5. ReadBean(t, o) = Made("struct", s)
  <2> HIDE DEF o
  <2> QED
    BY <1>4, StructFromBean
<1> HIDE DEF captured, n, written
<1>6. n \in Nat /\ captured[1] = "pairs" /\ DOMAIN captured[2] = 1..n
  BY <1>1, <1>3
<1>7. \A i \in 1..n : ~Failed(written(i))
  <2>1. \A i \in 1..n : ~Failed(captured[2][i].value)
    BY <1>6, BuildIs DEF captured
  <2> QED
    BY <1>3, <2>1
<1>8. Apart(captured[2])
  <2>1. \A i, k \in 1..n : CamelCase[t.fields[i].name] = CamelCase[t.fields[k].name] => i = k
    BY <1>1, OneFieldParts
  <2> QED
    BY <1>3, <2>1 DEF Apart
<1>9. ~Failed(o)
  BY DEF captured
<1>10. ASSUME NEW i \in 1..n PROVE Getter(o, t.fields[i].name) \in {written(i)} \cup Refused
  <2>1. /\ captured[2][i].value \in Property(Build(class, captured), captured[2][i].name)
        /\ Getter(Build(class, captured), captured[2][i].name)
             \in {captured[2][i].value, Error("no getter"), Error("exception")}
    BY <1>6, <1>8, <1>9, BuiltProperty
  <2> HIDE DEF o
  <2>2. Getter(o, captured[2][i].name)
          \in {captured[2][i].value, Error("no getter"), Error("exception")}
    BY <2>1 DEF o
  <2> QED
    BY <1>3, <2>2 DEF Refused
<1> HIDE DEF o
<1>11. \A p \in Parts(t) : Reversible(p) /\ OneFieldPerProperty(p)
  BY ReversibleParts, OneFieldParts
<1>12. ASSUME NEW i \in DOMAIN t.fields PROVE s[i] \in {v[2][i]} \cup Refused
  <2>1. i \in 1..n /\ s[i] = FromObject(t.fields[i], o)
    BY <1>1
  <2>2. De(t.fields[i].type, written(i)) \in {v[2][i]} \cup Refused
    BY <1>1, <1>7, <1>11, <2>1 DEF ReadBack, written
  <2> DEFINE got == Getter(o, t.fields[i].name)
  <2>3. s[i] = IF Failed(got) THEN got ELSE De(t.fields[i].type, got)
    BY <1>4, <2>1 DEF FromObject
  <2>4. got \in {written(i)} \cup Refused
    BY <1>10, <2>1
  <2>5. \A x \in Refused : Failed(x)
    BY Failures DEF Refused
  <2> HIDE DEF got, s
  <2> QED
    BY <1>7, <2>1, <2>2, <2>3, <2>4, <2>5
<1>13. DOMAIN s = DOMAIN t.fields /\ s = [i \in DOMAIN t.fields |-> s[i]]
  OBVIOUS
<1> HIDE DEF s
<1>14. \A i \in DOMAIN t.fields : ~Failed(v[2][i])
  BY <1>1, <1>2, ValuesDoNotFail
<1>15. CASE \E i \in DOMAIN s : Failed(s[i])
  <2>1. PICK i \in DOMAIN s : Failed(s[i]) /\ Made("struct", s) = s[i]
    BY <1>15, MadeIs
  <2>2. Made("struct", s) \in Refused
    BY <1>12, <1>13, <1>14, <2>1
  <2> QED
    BY <1>5, <2>2 DEF o, captured
<1>16. CASE \A i \in DOMAIN s : ~Failed(s[i])
  <2>1. \A x \in Refused : Failed(x)
    BY Failures DEF Refused
  <2>2. \A i \in DOMAIN t.fields : s[i] = v[2][i]
    BY <1>12, <1>13, <1>16, <2>1
  <2>3. s = v[2]
    BY <1>1, <1>13, <2>2
  <2>4. Made("struct", s) = <<"struct", s>>
    BY <1>16, MadeIs
  <2>5. ReadBean(t, o) = v
    BY <1>1, <1>5, <2>3, <2>4
  <2> QED
    BY <2>5 DEF o, captured
<1> QED
  BY <1>15, <1>16

\* What is written is read back of a type, if it is of its parts.
LEMMA BackStep ==
  ASSUME NEW t \in Types, \A p \in Parts(t) : ReadBack(p)
  PROVE  ReadBack(t)
<1> SUFFICES ASSUME Reversible(t), OneFieldPerProperty(t), NEW v \in Values[t]
             PROVE  /\ ~Failed(Ser[t][v]) => De(t, Ser[t][v]) = v
                    /\ ~Failed(Writer[t].property[v]) =>
                         De(t, Writer[t].property[v]) \in {v} \cup Refused
                    /\ \A class :
                         /\ ~Failed(Build(class, Writer[t].nested[v])) =>
                              ReadBean(t, Build(class, Writer[t].nested[v])) \in {v} \cup Refused
                         /\ ~Failed(Build(class, Writer[t].bean[v])) =>
                              ReadBean(t, Build(class, Writer[t].bean[v])) \in {v} \cup Refused
  BY DEF ReadBack
<1>1. \A p \in Parts(t) : Reversible(p) /\ OneFieldPerProperty(p)
  BY ReversibleParts, OneFieldParts
<1>2. \A p \in Parts(t) : \A x \in Values[p] : ~Failed(Ser[p][x]) => De(p, Ser[p][x]) = x
  BY <1>1 DEF ReadBack
<1>3. \A x \in Values[t] : ~Failed(Ser[t][x]) => De(t, Ser[t][x]) = x
  BY <1>2, SerBack
<1>4. ~Failed(Writer[t].property[v]) => De(t, Writer[t].property[v]) \in {v} \cup Refused
  BY <1>3, PropertyBack
<1>5. ASSUME NEW class
      PROVE  /\ ~Failed(Build(class, Writer[t].nested[v])) =>
                  ReadBean(t, Build(class, Writer[t].nested[v])) \in {v} \cup Refused
             /\ ~Failed(Build(class, Writer[t].bean[v])) =>
                  ReadBean(t, Build(class, Writer[t].bean[v])) \in {v} \cup Refused
  <2>1. CASE t.k = "struct"
    <3>1. Writer[t].nested[v] = Pairs(t, Writer, v) /\ Writer[t].bean[v] = Pairs(t, Writer, v)
      BY <2>1, WriterKinds
    <3>2. ~Failed(Build(class, Pairs(t, Writer, v))) =>
            ReadBean(t, Build(class, Pairs(t, Writer, v))) \in {v} \cup Refused
      BY <2>1, BuiltBack
    <3> QED
      BY <3>1, <3>2
  <2>2. CASE t.k = "bean"
    <3>1. Writer[t].bean[v] = Pairs(t, Writer, v) /\ Failed(Writer[t].nested[v])
      BY <2>2, WriterKinds
    <3>2. Failed(Build(class, Writer[t].bean[v]))
      BY <2>2, <3>1, BeanNotBuilt
    <3>3. Failed(Build(class, Writer[t].nested[v]))
      BY <3>1, BuildFails
    <3> QED
      BY <3>2, <3>3
  <2>3. CASE t.k \notin {"struct", "bean"}
    <3>1. t.k # "newtype"
      BY ReversibleParts
    <3>2. Failed(Writer[t].nested[v]) /\ Failed(Writer[t].bean[v])
      BY <2>3, <3>1, WriterKinds
    <3> QED
      BY <3>2, BuildFails
  <2> QED
    BY <2>1, <2>2, <2>3
<1> QED
  BY <1>3, <1>4, <1>5

\* So it is of every type.
LEMMA AllReadBack == \A t \in Types : ReadBack(t)
<1> DEFINE Good == {t \in Types : ReadBack(t)}
<1>1. \A t \in Types : (\A p \in Parts(t) : p \in Good) => t \in Good
  BY BackStep
<1> HIDE DEF Good
<1>2. Types \subseteq Good
  BY <1>1, TypeInduction
<1> QED
  BY <1>2 DEF Good

-----------------------------------------------------------------------------
(***************************************************************************)
(* The theorems.                                                           *)
(***************************************************************************)

\* What is written as a value or as a bean, and what is read as either.
WrittenOf(s) ==
  IF s.as = "value" THEN Ser[s.type][s.value] ELSE SerBean(s.type, s.value, s.class)
ReadOf(r, j) ==
  CASE r.as = "value" -> De(r.type, j)
    [] r.as = "bean" /\ j = Null -> Error("null")
    [] OTHER -> ReadBean(r.type, j)

\* What Java has was written of a subject, or is a value that Java makes; and
\* what was read, was read of it.
Mapped ==
  /\ subject # Nobody => /\ subject \in Subjects /\ java = WrittenOf(subject)
                         /\ java # Nothing
  /\ java = Nothing \/ Failed(java) \/ java \in Java
  /\ back # Nothing => /\ java # Nothing /\ ~Failed(java)
                       /\ reader \in Readers /\ back = ReadOf(reader, java)

\* The subjects and the readers.
LEMMA SubjectsAre ==
  /\ \A s \in Subjects : s.as \in {"value", "bean"} /\ s.type \in Types /\ s.value \in Values[s.type]
  /\ \A r \in Readers : r.as \in {"value", "bean"} /\ r.type \in Types /\ r = [as |-> r.as, type |-> r.type]
BY MappingAssumption

\* A subject that is written is a Java value, or fails.
LEMMA WrittenIsMapped ==
  ASSUME NEW s \in Subjects
  PROVE  Failed(WrittenOf(s)) \/ WrittenOf(s) \in Java
<1>1. s.as \in {"value", "bean"} /\ s.type \in Types /\ s.value \in Values[s.type]
  BY SubjectsAre
<1>2. CASE s.as = "value"
  BY <1>1, <1>2, WrittenIsJava DEF WrittenOf
<1>3. CASE s.as = "bean"
  <2>1. WrittenOf(s) = Build(s.class, Writer[s.type].bean[s.value])
    BY <1>3 DEF WrittenOf, SerBean
  <2>2. BuiltIsWhole(s.type, s.value, Writer[s.type].bean[s.value])
    BY <1>1, WriterWhole DEF WriterIsWhole
  <2>3. JavaAt[Height + Depth[s.type]] \subseteq Java
    BY <1>1, JavaLevels
  <2> QED
    BY <2>1, <2>2, <2>3 DEF BuiltIsWhole
<1> QED
  BY <1>1, <1>2, <1>3

\* Nothing is no Java value, and no error.
LEMMA NothingIs == ~Failed(Nothing) /\ Nothing \notin Java
<1>1. ~Failed(Nothing)
  BY DEF Failed, Nothing
<1>2. Nothing \notin JavaScalars
  BY DEF Nothing, JavaScalars, Null
<1>3. Nothing \notin Collections(Java)
  BY DEF Nothing, Collections
<1>4. Nothing \notin {"object"} \X (DOMAIN Classes) \X [AllProperties -> Java]
  BY DEF Nothing
<1> QED
  BY <1>1, <1>2, <1>3, <1>4, JavaIsClosed

\* Each step keeps this.
THEOREM MappedInvariant == Spec => []Mapped
<1>1. Init => Mapped
  BY DEF Init, Mapped
<1>2. Mapped /\ [Next]_vars => Mapped'
  <2> SUFFICES ASSUME Mapped, [Next]_vars PROVE Mapped'
    OBVIOUS
  <2>1. CASE Write
    <3>1. java = Nothing /\ subject' \in Subjects /\ java' = WrittenOf(subject') /\ back' = back
      BY <2>1 DEF Write, WrittenOf
    <3>2. back = Nothing
      BY <3>1 DEF Mapped
    <3>3. Failed(java') \/ java' \in Java
      BY <3>1, WrittenIsMapped
    <3>4. java' # Nothing
      BY <3>3, NothingIs
    <3> QED
      BY <3>1, <3>2, <3>3, <3>4 DEF Mapped
  <2>2. CASE JavaMakes
    <3>1. /\ java = Nothing /\ java' \in JavaValues
          /\ subject' = subject /\ reader' = reader /\ back' = back
      BY <2>2 DEF JavaMakes
    <3>2. back = Nothing
      BY <3>1 DEF Mapped
    <3>3. java' \in Java
      <4>1. JavaValues \subseteq JavaAt[Height]
        BY MappingAssumption
      <4>2. JavaAt[Height] \subseteq Java
        <5>1. Height \in Nat /\ Deepest \in Nat
          BY MappingAssumption, TypesAssumption
        <5>2. Height \in 0..(Height + Deepest) /\ Height + Deepest \in 0..(Height + Deepest)
              /\ Height <= Height + Deepest
          BY <5>1
        <5> QED
          BY <5>2, JavaAtGrows DEF Java
      <4> QED
        BY <3>1, <4>1, <4>2
    <3>4. subject = Nobody
      BY <3>1 DEF Mapped
    <3> QED
      BY <3>1, <3>2, <3>3, <3>4 DEF Mapped
  <2>3. CASE Read
    <3>1. /\ java # Nothing /\ ~Failed(java) /\ reader' \in Readers /\ back' = ReadOf(reader', java)
          /\ subject' = subject /\ java' = java
      BY <2>3 DEF Read, ReadOf
    <3> QED
      BY <3>1 DEF Mapped
  <2>4. CASE UNCHANGED vars
    BY <2>4 DEF vars, Mapped
  <2> QED
    BY <2>1, <2>2, <2>3, <2>4 DEF Next
<1> QED
  BY <1>1, <1>2, PTL DEF Spec

\* "The mapping never silently skips a field", "they fail rather than partially
\* filling an object" (serde.rs, bean.rs): what Java gets is all of the value,
\* or an error; a value tree is refused for nothing but what is unsupported.
THEOREM WrittenWhole == Spec => []WrittenIsWhole
<1>1. Mapped => WrittenIsWhole
  <2> SUFFICES ASSUME Mapped, Written PROVE WrittenIsWhole
    BY DEF WrittenIsWhole
  <2> DEFINE t == subject.type
             v == subject.value
  <2>1. subject \in Subjects /\ java = WrittenOf(subject)
    BY DEF Mapped, Written
  <2>2. subject.as \in {"value", "bean"} /\ t \in Types /\ v \in Values[t]
    BY <2>1, SubjectsAre
  <2>3. CASE subject.as = "value"
    <3>1. java = Ser[t][v]
      BY <2>1, <2>3 DEF WrittenOf
    <3>2. SerIsWhole(t, v)
      BY <2>2, SerWhole
    <3>3. Failed(java) <=> Unsupported(t, v)
      BY <3>1, <3>2 DEF SerIsWhole
    <3>4. ~Failed(java) => Shows[t][v][java]
      BY <3>1, <3>2 DEF SerIsWhole
    <3> QED
      BY <2>3, <3>3, <3>4 DEF WrittenIsWhole
  <2>4. CASE subject.as = "bean"
    <3> DEFINE captured == Writer[t].bean[v]
    <3>1. java = Build(subject.class, captured)
      BY <2>1, <2>4 DEF WrittenOf, SerBean
    <3>2. BuiltIsWhole(t, v, captured)
      BY <2>2, WriterWhole DEF WriterIsWhole
    <3> HIDE DEF captured
    <3>3. ~Failed(java) => /\ ~Unsupported(t, v)
                           /\ java[1] = "object" /\ java[2] = subject.class
                           /\ OneFieldPerProperty(t) => Shows[t][v][java]
      BY <3>1, <3>2 DEF BuiltIsWhole
    <3>4. ~Failed(java) => ClassOf(java) = subject.class
      BY <3>3 DEF ClassOf
    <3> QED
      BY <2>4, <3>3, <3>4 DEF WrittenIsWhole
  <2> QED
    BY <2>2, <2>3, <2>4
<1> QED
  BY <1>1, MappedInvariant, PTL

\* Nothing is made up: what from_object and JavaMap::from_java read (serde.rs,
\* bean.rs) is a value of the type that was asked for, and Java has it.
THEOREM ReadThere == Spec => []ReadIsThere
<1>1. Mapped => ReadIsThere
  <2> SUFFICES ASSUME Mapped, back # Nothing, ~Failed(back)
               PROVE  back \in Values[reader.type] /\ Shows[reader.type][back][java]
    BY DEF ReadIsThere
  <2> DEFINE t == reader.type
  <2>1. /\ java \in Java /\ reader \in Readers /\ back = ReadOf(reader, java)
    BY DEF Mapped
  <2>2. t \in Types /\ reader.as \in {"value", "bean"}
    BY <2>1, SubjectsAre
  <2>3. ReadStands(t)
    BY <2>2, ReadAll
  <2>4. CASE reader.as = "value"
    <3>1. back = De(t, java)
      BY <2>1, <2>4 DEF ReadOf
    <3>2. Stands(t, back, java)
      BY <2>1, <2>3, <3>1 DEF ReadStands
    <3> QED
      BY <3>2 DEF Stands
  <2>5. CASE reader.as = "bean"
    <3>1. java # Null
      BY <2>1, <2>5, Failures DEF ReadOf
    <3>2. back = ReadBean(t, java)
      BY <2>1, <2>5, <3>1 DEF ReadOf
    <3>3. Stands(t, back, java)
      BY <2>1, <2>3, <3>2 DEF ReadStands
    <3> QED
      BY <3>3 DEF Stands
  <2> QED
    BY <2>2, <2>4, <2>5
<1> QED
  BY <1>1, MappedInvariant, PTL

\* "every u8 round-trips" (serde.rs), "struct -> object -> struct must
\* round-trip" (tests of bean.rs): what is written is read back as it was, or a
\* bean's class has no accessor for a property, or one that throws.
THEOREM RoundTrips == Spec => []RoundTrip
<1>1. Mapped => RoundTrip
  <2> DEFINE t == subject.type
             v == subject.value
  <2> SUFFICES ASSUME Mapped, Written, back # Nothing,
                      reader = [as |-> subject.as, type |-> t],
                      Reversible(t), OneFieldPerProperty(t)
               PROVE  \/ back = v
                      \/ subject.as = "bean" /\ back \in Refused
    BY DEF RoundTrip, Refused
  <2>1. /\ subject \in Subjects /\ java = WrittenOf(subject)
        /\ ~Failed(java) /\ back = ReadOf(reader, java)
    BY DEF Mapped, Written
  <2>2. subject.as \in {"value", "bean"} /\ t \in Types /\ v \in Values[t]
    BY <2>1, SubjectsAre
  <2>3. reader.as = subject.as /\ reader.type = t
    OBVIOUS
  <2>4. /\ ~Failed(Ser[t][v]) => De(t, Ser[t][v]) = v
        /\ \A class : ~Failed(Build(class, Writer[t].bean[v])) =>
             ReadBean(t, Build(class, Writer[t].bean[v])) \in {v} \cup Refused
    <3>1. ReadBack(t)
      BY <2>2, AllReadBack
    <3> QED
      BY <2>2, <3>1 DEF ReadBack
  <2>5. CASE subject.as = "value"
    <3>1. java = Ser[t][v]
      BY <2>1, <2>5 DEF WrittenOf
    <3>2. back = De(t, java)
      BY <2>1, <2>3, <2>5 DEF ReadOf
    <3> QED
      BY <2>1, <2>4, <3>1, <3>2
  <2>6. CASE subject.as = "bean"
    <3>1. java = Build(subject.class, Writer[t].bean[v])
      BY <2>1, <2>6 DEF WrittenOf, SerBean
    <3>2. java # Null
      <4>1. BuiltIsWhole(t, v, Writer[t].bean[v])
        BY <2>2, WriterWhole DEF WriterIsWhole
      <4>2. java[1] = "object"
        BY <2>1, <3>1, <4>1 DEF BuiltIsWhole
      <4> QED
        BY <4>2 DEF Null
    <3>3. back = ReadBean(t, java)
      BY <2>1, <2>3, <2>6, <3>2 DEF ReadOf
    <3> QED
      BY <2>1, <2>4, <2>6, <3>1, <3>3
  <2> QED
    BY <2>2, <2>5, <2>6
<1> QED
  BY <1>1, MappedInvariant, PTL
=============================================================================
