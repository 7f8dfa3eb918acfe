--------------------------- MODULE MCServiceLock ---------------------------
EXTENDS ServiceLock, TLC

(* No pid is special.  Not used where a temporal property is checked.       *)
Symmetry == Permutations(Pids)
=============================================================================
