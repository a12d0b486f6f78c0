----------------------------- MODULE MCJArrays -----------------------------
EXTENDS JArrays

I32 == Ty("i32")
U8 == Ty("u8")
I8 == Ty("i8")
Char == Ty("char")
Str == Ty("String")
JObj == Ty("JObject")
JCls == Ty("JClass")

MCFieldTypes == {Desc(0, "I"), Desc(0, "B"), Desc(0, "C"), String, Object, Class,
                 Desc(1, "I"), Desc(1, "B"), Desc(1, "C"), Desc(1, "String"),
                 Desc(1, "Object"), Desc(1, "Class"), Desc(2, "I"), Desc(2, "Object")}

MCTypes == {I32, I8, U8, Char, Str, JObj, JCls, JArrayOf(I32), JArrayOf(JObj)}
           \cup {OptionOf(t) : t \in {I32, Str, JObj}}
           \cup {VecOf(t) : t \in {I32, U8, Char, Str, JObj, JCls, JArrayOf(I32),
                                   JArrayOf(JObj), OptionOf(I32), OptionOf(Str)}}
           \cup {OptionOf(VecOf(Str))}

(* Three types for every place, those that it is not of included. *)
MCStrangers == {U8, OptionOf(Str), JArrayOf(JObj)}

MCMaxLen(d) == IF d = Object THEN 1 ELSE 2

MCClasses == {Object, String, Desc(1, "Object")}
=============================================================================
