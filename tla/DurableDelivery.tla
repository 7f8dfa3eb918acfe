-------------------------- MODULE DurableDelivery --------------------------
(***************************************************************************)
(* What capture and delivery promise a client, with no workers, leases,    *)
(* retries or crashes: a captured round stays open until it is settled     *)
(* once; it is accepted only when Core has it; accepted and abandoned are  *)
(* final; a refused round can be opened again by the operator.             *)
(***************************************************************************)
CONSTANT Rounds

VARIABLES
    stage,  \* what the outbox says of each round
    known   \* rounds Core has ingested

vars == <<stage, known>>

Init ==
    /\ stage = [r \in Rounds |-> "none"]
    /\ known = {}

\* The capture transaction commits.
Record(r) ==
    /\ stage[r] = "none"
    /\ stage' = [stage EXCEPT ![r] = "open"]
    /\ UNCHANGED known

\* Core ingests a recorded round, once; Local may never hear of it.
Ingest(r) ==
    /\ stage[r] # "none"
    /\ r \notin known
    /\ known' = known \cup {r}
    /\ UNCHANGED stage

\* The outbox settles an open round.
Settle(r) ==
    /\ stage[r] = "open"
    /\ \E s \in {"accepted", "refused", "abandoned"} :
          /\ s = "accepted" => r \in known
          /\ stage' = [stage EXCEPT ![r] = s]
    /\ UNCHANGED known

\* The operator opens refused rounds again.
Reopen ==
    /\ \E S \in SUBSET {r \in Rounds : stage[r] = "refused"} :
          stage' = [r \in Rounds |-> IF r \in S THEN "open" ELSE stage[r]]
    /\ UNCHANGED known

Next ==
    \/ \E r \in Rounds : Record(r) \/ Ingest(r) \/ Settle(r)
    \/ Reopen

Spec == Init /\ [][Next]_vars
=============================================================================
