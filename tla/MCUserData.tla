----------------------------- MODULE MCUserData -----------------------------
(***************************************************************************)
(* A small instance of UserData: two objects whose identity hashes collide *)
(* and two Rust states of different types.                                 *)
(***************************************************************************)
EXTENDS UserData

CONSTANTS o1, o2, key, counter, buffer

MCObjects == {o1, o2}
MCHashOf == [o \in MCObjects |-> key]
MCStates == {counter, buffer}
MCTypeOf == [s \in MCStates |-> IF s = counter THEN "Counter" ELSE "Buffer"]
=============================================================================
