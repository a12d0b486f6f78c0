-------------------------- MODULE MCNativeRegistry --------------------------
(***************************************************************************)
(* A small instance of NativeRegistry: two functions of one signature that *)
(* returns JObject and an explicit one that returns int; two Java methods  *)
(* of their name and parameters, which return Object and int (for the      *)
(* functions the second is as a method that returns a concrete class would *)
(* be), and one with other parameters.                                     *)
(***************************************************************************)
EXTENDS NativeRegistry

CONSTANTS f, g, x, shared, objectSlot, intSlot, otherSlot

MCCallables == {f, g, x}
MCTrampolineOf == [c \in {f, g} |-> shared]
MCSlots == {objectSlot, intSlot, otherSlot}

MCFit ==
  [p \in MCCallables \X MCSlots |->
     CASE p[2] = objectSlot /\ p[1] # x -> "exact"
       [] p[2] = intSlot /\ p[1] = x -> "exact"
       [] p[2] = otherSlot -> "missing"
       [] OTHER -> "otherReturn"]
=============================================================================
