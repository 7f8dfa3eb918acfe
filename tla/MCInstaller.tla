------------------------- MODULE MCInstaller -------------------------
EXTENDS Installer, TLC

MCSchema == ("v1" :> 1) @@ ("v2" :> 2)
MCChoices == [Agents -> {"none", "enabled"}]
MCSetups ==
    {[place |-> where, kind |-> [a \in Agents |-> kind], file |-> [a \in Agents |-> file]] :
        <<where, kind, file>> \in {<<"default", "hooks", "none">>, <<"default", "plugin", "user">>,
                                  <<"default", "hermes", "none">>, <<"named", "hooks", "none">>}}
MCSymmetry == Permutations(Gens)

\* Two states differ only by what some action still reads or some property is about:
\* what an operation remembers, by the step it is at; how it ended, by its kind.
Restoring == op.kind \in {"install", "update", "configure"}
Begun == IF Restoring THEN <<before, lapsed, returned, inner, outer, switched>> ELSE <<>>
Going ==
    <<op, outcome, Begun,
      IF pc \in {"stop", "binlink", "connect", "adapter", "persist", "disconnect", "remove"}
      THEN todo ELSE {},
      IF pc = "adapter" THEN <<seen, step>> ELSE <<>>>>
Ended ==
    CASE outcome = "failed" /\ Restoring -> <<op.kind, op.ver, before, lapsed, returned>>
      [] op.kind = "update" /\ outcome \in {"ok", "partial"} -> <<op.kind>>
      [] op.kind = "disconnect" /\ outcome = "ok" -> <<op.agent>>
      [] OTHER -> <<>>
MCView == <<releases, spoiled, current, disk, db, agent, barrier, runtime, place, disturbed, mine,
            replaced, captured, ops, faults, pc, IF pc = "idle" THEN Ended ELSE Going>>
======================================================================
