--------------------------- MODULE AtomicRestore ---------------------------
(***************************************************************************)
(* What a restore of two databases promises whoever looks at them when no  *)
(* restore is under way: both hold what they held before it, or both hold  *)
(* the archive it was begun with.  One that cannot be ended is marked for  *)
(* the operator and stays so.  There are no steps, failures or recoveries, *)
(* but a restore may forfeit the promise.                                  *)
(***************************************************************************)
CONSTANTS Live, Archives

VARIABLES
    local, remote,  \* the databases, as they were when the restore under way began
    target,         \* its archive
    status          \* "settled", "open", "marked" or "forfeit"

vars == <<local, remote, target, status>>

Init == local = Live /\ remote = Live /\ target = Live /\ status = "settled"

\* A restore begins.
Open(a) ==
    /\ status = "settled" /\ status' = "open"
    /\ target' = a
    /\ UNCHANGED <<local, remote>>

\* It ends with both databases restored ...
Restore ==
    /\ status = "open" /\ status' = "settled"
    /\ local' = target /\ remote' = target
    /\ target' = Live

\* ... or as they were.
Undo ==
    /\ status = "open" /\ status' = "settled"
    /\ target' = Live
    /\ UNCHANGED <<local, remote>>

\* The operator has to look, also when the mark comes after the end.
Mark ==
    /\ status # "marked" /\ status' = "marked"
    /\ UNCHANGED <<local, remote, target>>

\* Something failed that the restore has no answer to: anything may happen.
Forfeit == status' = "forfeit"

Next == (\E a \in Archives : Open(a)) \/ Restore \/ Undo \/ Mark \/ Forfeit

Spec == Init /\ [][Next]_vars
=============================================================================
