---------------------------- MODULE MCJavaFuture ----------------------------
(***************************************************************************)
(* Small instances of JavaFuture: a value T accepts, one it rejects, one   *)
(* its FromJava panics on; a plain exception, one with a cause of its own, *)
(* and a cancellation.                                                     *)
(***************************************************************************)
EXTENDS JavaFuture

CONSTANTS w1, w2, w3, good, odd, poison, plain, nested, cancelled

MCWakers == {w1, w2, w3}
MCValues == {good, odd, poison}
MCThrowables == {plain, nested, cancelled}
MCCauseOf ==
  [t \in MCThrowables |-> IF t = nested THEN plain ELSE NoThrowable]
=============================================================================
