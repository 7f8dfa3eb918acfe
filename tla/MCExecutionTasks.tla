------------------------- MODULE MCExecutionTasks -------------------------
EXTENDS ExecutionTasks

CONSTANTS g, x, e, f

MCSpaceOf == (g :> "a") @@ (x :> "a") @@ (e :> "b") @@ (f :> "b")
MCSpaces == <<"broken", "a", "b">>

=============================================================================
