------------------------------ MODULE OneShot ------------------------------
(***************************************************************************)
(* What every awaitable bridge of the crate promises to the code that      *)
(* awaits it, whatever the event source behind it: an outcome is fixed at  *)
(* most once, it is handed out at most once and only after it was fixed,   *)
(* and a future that was abandoned hands out nothing.  The module docs of  *)
(* future.rs, rx.rs and the docs of call_async call this "fused".          *)
(***************************************************************************)
EXTENDS Naturals, Sequences

CONSTANTS
  Outcomes,   \* everything an awaited bridge may resolve with
  NoOutcome   \* the bridge has not resolved

VARIABLES
  value,      \* the outcome, once fixed
  delivered,  \* the outcomes returned by polls: empty, or the one outcome
  abandoned   \* the future was dropped

vars == <<value, delivered, abandoned>>

Init ==
  /\ value = NoOutcome
  /\ delivered = <<>>
  /\ abandoned = FALSE

\* The source of the bridge produced its outcome.
Resolve(o) ==
  /\ value = NoOutcome
  /\ value' = o
  /\ UNCHANGED <<delivered, abandoned>>

\* The awaiting task receives the outcome.
Deliver ==
  /\ ~abandoned
  /\ value # NoOutcome
  /\ delivered = <<>>
  /\ delivered' = <<value>>
  /\ UNCHANGED <<value, abandoned>>

\* The bridge fails while it is being started: fixed and received at once.
FailFast(o) ==
  /\ ~abandoned
  /\ value = NoOutcome
  /\ value' = o
  /\ delivered' = <<o>>
  /\ UNCHANGED abandoned

Abandon ==
  /\ ~abandoned
  /\ abandoned' = TRUE
  /\ UNCHANGED <<value, delivered>>

Next ==
  \/ \E o \in Outcomes : Resolve(o) \/ FailFast(o)
  \/ Deliver
  \/ Abandon

Spec == Init /\ [][Next]_vars
=============================================================================
