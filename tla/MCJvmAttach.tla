---------------------------- MODULE MCJvmAttach ----------------------------
(* Two threads, the second one started by Java if a Java process loaded the *)
(* program; two guards, operations nested two deep; two classes of the      *)
(* wrapper's name, the first of them on the class path of the JVM.          *)
EXTENDS BoundClass, TLC

CONSTANTS t1, t2

MCThreads == {t1, t2}
Symmetry == Permutations(Guards)
=============================================================================
