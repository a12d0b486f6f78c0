---------------------------- MODULE ObjectState ----------------------------
(***************************************************************************)
(* What the module docs of userdata.rs promise, with no identity hash, no  *)
(* registry and no lock in sight: Rust state is attached to a Java object, *)
(* every operation takes effect at one instant, and the state goes when    *)
(* the object does.                                                        *)
(***************************************************************************)

CONSTANTS
  Objects,   \* the Java objects
  States,    \* the Rust values that may be attached to one
  NoState,   \* nothing is attached
  NoAnswer   \* no lookup was made yet

VARIABLES
  attached,  \* the state of every object
  answer     \* the last lookup: the object asked for and what it was given

vars == <<attached, answer>>

Init ==
  /\ attached = [o \in Objects |-> NoState]
  /\ answer = NoAnswer

\* Binding replaces what was attached before.
Attach(o, s) ==
  /\ attached' = [attached EXCEPT ![o] = s]
  /\ UNCHANGED answer

\* Unbound, or collected with the object.
Detach(o) ==
  /\ attached' = [attached EXCEPT ![o] = NoState]
  /\ UNCHANGED answer

LookUp(o) ==
  /\ answer' = [obj |-> o, is |-> attached[o]]
  /\ UNCHANGED attached

Next ==
  \E o \in Objects :
    \/ \E s \in States : Attach(o, s)
    \/ Detach(o)
    \/ LookUp(o)

Spec == Init /\ [][Next]_vars
=============================================================================
