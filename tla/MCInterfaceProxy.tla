--------------------------- MODULE MCInterfaceProxy ---------------------------
(***************************************************************************)
(* A small instance of InterfaceProxy: a reserved method, an overload of   *)
(* its name, a domain method, two overloads of another and a default       *)
(* method, called on a closure and on a typed handler.                     *)
(***************************************************************************)
EXTENDS InterfaceProxy, TLC

Method(name, params) == [name |-> name, params |-> params, default |-> FALSE]

MCMethods ==
  {Method("toString", <<>>), Method("toString", <<"int">>), Method("add", <<"int">>),
   Method("add", <<"String">>), [Method("greet", <<>>) EXCEPT !.default = TRUE]}

MCDeclares ==
  [h \in {"typed"} |->
     <<[name |-> "add", params |-> <<"Object">>], [name |-> "toString", params |-> <<"int">>],
       [name |-> "greet", params |-> <<>>]>>]

MCSymmetry == Permutations(Threads) \cup Permutations(Shells)
=============================================================================
