-------------------------- MODULE MCCallbackFuture --------------------------
(***************************************************************************)
(* A small instance of CallbackFuture: two tasks, two different events and *)
(* room for two sends, so that a second event races the first one.         *)
(***************************************************************************)
EXTENDS CallbackFuture

CONSTANTS event1, event2

MCEvents == {event1, event2}
MCOutcomes == MCEvents \cup {Closed}
=============================================================================
