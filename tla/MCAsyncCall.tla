---------------------------- MODULE MCAsyncCall ----------------------------
(***************************************************************************)
(* A small instance of AsyncCall: a task inside the tokio runtime and one  *)
(* outside of it, a value and an exception as answers, one refusal.        *)
(***************************************************************************)
EXTENDS AsyncCall

CONSTANTS tokioTask, otherTask, value, exception, badArgument

MCWakers == {tokioTask, otherTask}
MCAnswers == {value, exception}
MCOutcomes == {value, exception, badArgument}
=============================================================================
