--------------------------- MODULE MCAsyncNative ---------------------------
(***************************************************************************)
(* Small instances of AsyncNative: a call served by a thread and one by    *)
(* tasks of a runtime with a single thread; a value, one to_java rejects   *)
(* and one it panics on; an exception, one of an unknown class and another *)
(* error.                                                                  *)
(***************************************************************************)
EXTENDS AsyncNative

CONSTANTS onThread, onTask, good, odd, poison, thrown, unheard, other

MCCalls == {onThread, onTask}
MCValues == {good, odd, poison}
MCCalmValues == {good, odd}
MCErrors == {thrown, unheard, other}
MCJavaExceptions == {thrown, unheard}
=============================================================================
