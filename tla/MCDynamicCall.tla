---------------------------- MODULE MCDynamicCall ----------------------------
EXTENDS DynamicCall

MCPrimitives == {"int", "boolean"}
MCWrapperOf == [p \in MCPrimitives |-> IF p = "int" THEN "Integer" ELSE "Boolean"]
MCSupers == [c \in {"Object", "String", "Integer", "Boolean"} |-> {c, "Object"}]

Method(name, params, ret) ==
  [name |-> name, params |-> params, ret |-> ret, static |-> FALSE]

\* Overloads of one name, one of them static, a constructor, a method that
\* reflection does not list, an accessor.
fInt == Method("f", <<"int">>, "int")
fObject == Method("f", <<"Object">>, "void")
fBoolean == Method("f", <<"Boolean">>, "String")
fStatic == [Method("f", <<"String">>, "void") EXCEPT !.static = TRUE]
init == Method("<init>", <<"Object">>, "void")
hidden == Method("h", <<"int">>, "int")
isReady == Method("isReady", <<>>, "boolean")

MCMembers == {fInt, fObject, fBoolean, fStatic, init, hidden, isReady}
\* The overloads in any order.
MCOrders ==
  {<<p[1], fStatic, p[2], p[3], init, isReady>> :
     p \in {q \in [1..3 -> {fInt, fObject, fBoolean}] :
              \A i, j \in 1..3 : i # j => q[i] # q[j]}}

MCFields == {[name |-> "count", type |-> "int", static |-> FALSE]}

Request(op, form, name, frags, args, ret) ==
  [op |-> op, form |-> form, name |-> name, static |-> FALSE, frags |-> frags,
   args |-> args, ret |-> ret, opt |-> FALSE,
   accessor |-> [getter |-> "getReady", isGetter |-> "isReady"]]

MCRequests ==
  {Request("call", "dynamic", "f", <<"int">>, <<"int">>, "int"),
   Request("call", "dynamic", "f", <<"int">>, <<"int">>, "void"),
   [Request("call", "dynamic", "f", <<"Object">>, <<Null>>, "String") EXCEPT !.opt = TRUE],
   [Request("call", "dynamic", "f", <<"Object">>, <<"String">>, "void") EXCEPT !.static = TRUE],
   [Request("call", "bound", "f", <<"int">>, <<"int">>, "Object") EXCEPT !.static = TRUE],
   Request("call", "raw", "f", <<>>, <<"Integer">>, "Object"),
   Request("call", "dynamic", "h", <<"int">>, <<"int">>, "int"),
   Request("call", "dynamic", "h", <<"Object">>, <<"Integer">>, "Object"),
   Request("new", "dynamic", "<init>", <<"int">>, <<"int">>, "void"),
   Request("get", "dynamic", "count", <<>>, <<>>, "int"),
   Request("get", "dynamic", "count", <<>>, <<>>, "Object"),
   Request("set", "dynamic", "count", <<"int">>, <<"int">>, "void"),
   Request("bool", "dynamic", "ready", <<>>, <<>>, "boolean")}
=============================================================================
