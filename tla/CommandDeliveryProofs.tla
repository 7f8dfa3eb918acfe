----------------------- MODULE CommandDeliveryProofs -----------------------
(***************************************************************************)
(* Proofs about CommandDelivery for any rounds, bodies, workers, replay    *)
(* requests and time bounds.                                               *)
(***************************************************************************)
EXTENDS CommandDelivery, TLAPS

(* The inductive invariant.  What a worker remembers is only as good as its *)
(* claim: the conjuncts about the payload it read, the count it read and    *)
(* the rejection it is about to record are stated while it holds the claim, *)
(* and a claim that is lost is regained only by claiming again.             *)

RowsAgree ==
    \A r \in Rounds :
        /\ digest[r] = Nil <=> status[r] = "none"
        /\ payload[r] # Nil => payload[r] = digest[r]
        /\ core[r] # Nil => core[r] = digest[r]
        /\ status[r] = "completed" => core[r] # Nil

WorkersAgree ==
    \A w \in Workers :
        /\ pc[w] = "idle" => job[w] = Nil /\ body[w] = Nil /\ outcome[w] = "none"
        /\ pc[w] # "idle" => status[job[w]] # "none"
        /\ pc[w] # "idle" /\ body[w] # Nil => body[w] = digest[job[w]]
        /\ outcome[w] = "completed" => core[job[w]] # Nil

ClaimsAgree ==
    \A w \in Workers :
        HoldsClaim(w) =>
            /\ tries[w] = attempts[job[w]]
            /\ pc[w] = "calling" /\ body[w] = Nil => retention_in[job[w]] = 0
            /\ outcome[w] \in {"rejected", "budget"} =>
                  retention_in[job[w]] = 0 \/ job[w] \in refused

DeliveryInv ==
    /\ TypeOK
    /\ RowsAgree
    /\ WorkersAgree
    /\ ClaimsAgree
    /\ RejectionIsCores
    /\ PayloadKeptUntilSettled
    /\ FailedAfterAllAttempts

-----------------------------------------------------------------------------
(* Type correctness.                                                        *)

LEMMA NextAttemptType ==
    ASSUME NEW n \in 0..MaxAttempts
    PROVE  NextAttempt(n) \in 0..MaxAttempts
BY DeliveryAssumption DEF NextAttempt

LEMMA AtTheBound ==
    ASSUME NEW m \in Nat, NEW n \in 0..m, n >= m
    PROVE  n = m
OBVIOUS

LEMMA FinishStatusType ==
    ASSUME NEW w
    PROVE  FinishStatus(w) \in {"completed", "rejected", "failed", "retry_wait"}
BY DEF FinishStatus

LEMMA DeliveryStatusType ==
    ASSUME NEW s
    PROVE  DeliveryStatus(s) \in {"accepted", "rejected", "retry_wait"}
BY DEF DeliveryStatus

LEMMA LastErrorType ==
    ASSUME NEW o
    PROVE  LastError(o) \in {"none", "budget", "other"}
BY DEF LastError

LEMMA InitType == Init => TypeOK
BY DeliveryAssumption DEF Init, TypeOK, Status, Transport, Outcome

\* Each action of a worker keeps the types.
LEMMA WorkerType ==
    ASSUME TypeOK, NEW w \in Workers, Work(w) \/ FinishFails(w) \/ Crash(w)
    PROVE  TypeOK'
<1> USE DEF TypeOK, Outcome, capture, command, process, replays, coreSide
<1>1. ASSUME NEW r \in Rounds, Claim(w, r)
      PROVE  TypeOK'
  <2>1. NextAttempt(attempts[r]) \in 0..MaxAttempts
    BY NextAttemptType
  <2>2. QED
    BY <1>1, <2>1, DeliveryAssumption DEF Claim, Status
<1>2. CASE ReadPayload(w)
  BY <1>2 DEF ReadPayload
<1>3. CASE RefuseEmptyPayload(w)
  BY <1>3 DEF RefuseEmptyPayload, Answer
<1>4. CASE CoreAccepts(w)
  BY <1>4 DEF CoreAccepts, Answer, CoreIngest
<1>5. ASSUME NEW o \in {"rejected", "budget"}, CoreRejects(w, o)
      PROVE  TypeOK'
  BY <1>5 DEF CoreRejects, Answer
<1>6. CASE CoreFails(w)
  BY <1>6 DEF CoreFails, Answer, CoreIngest
<1>7. CASE Finish(w)
  <2>1. job[w] \in Rounds /\ FinishStatus(w) \in Status
    BY <1>7, FinishStatusType DEF Finish, UpdateCoreRawRoundDelivery,
                                  ClearRawRoundPayload, Status
  <2>2. DeliveryStatus(FinishStatus(w)) \in Transport
    BY DeliveryStatusType DEF Transport
  <2>3. LastError(outcome[w]) \in {"none", "budget", "other"}
    BY LastErrorType
  <2>4. QED
    BY <1>7, <2>1, <2>2, <2>3, DeliveryAssumption DEF Finish,
                                                      UpdateCoreRawRoundDelivery,
                                                      ClearRawRoundPayload,
                                                      BecomeIdle
<1>8. CASE LeaseLost(w)
  BY <1>8, DeliveryAssumption DEF LeaseLost, BecomeIdle
<1>9. CASE FinishFails(w)
  BY <1>9, DeliveryAssumption DEF FinishFails, BecomeIdle
<1>10. CASE Crash(w)
  BY <1>10, DeliveryAssumption DEF Crash, BecomeIdle, CoreIngest
<1>11. QED
  BY <1>1, <1>2, <1>3, <1>4, <1>5, <1>6, <1>7, <1>8, <1>9, <1>10 DEF Work, CallEnds

LEMMA NextType == TypeOK /\ [Next]_vars => TypeOK'
<1> SUFFICES ASSUME TypeOK, [Next]_vars
             PROVE  TypeOK'
  OBVIOUS
<1> USE DEF TypeOK, capture, command, process, replays, coreSide
<1>1. ASSUME NEW r \in Rounds, NEW b \in Bodies, Capture(r, b)
      PROVE  TypeOK'
  BY <1>1, DeliveryAssumption DEF Capture, Insert, CreateCoreCommand,
                                  CreateCoreRawRoundDelivery, Status, Transport
<1>2. ASSUME NEW r \in Rounds, NEW b \in Bodies, CaptureDuplicate(r, b)
      PROVE  TypeOK'
  BY <1>2 DEF CaptureDuplicate, vars
<1>3. ASSUME NEW w \in Workers, Work(w) \/ FinishFails(w) \/ Crash(w)
      PROVE  TypeOK'
  BY <1>3, WorkerType
<1>4. CASE PurgeExpired
  BY <1>4 DEF PurgeExpired
<1>5. ASSUME NEW p \in Replayers, ReplaySelect(p)
      PROVE  TypeOK'
  BY <1>5 DEF ReplaySelect, Replayable
<1>6. ASSUME NEW p \in Replayers, ReplayCommit(p)
      PROVE  TypeOK'
  BY <1>6, DeliveryAssumption DEF ReplayCommit, Requeue, Status, Transport
<1>7. CASE Tick
  BY <1>7, DeliveryAssumption DEF Tick
<1>8. CASE UNCHANGED vars
  BY <1>8 DEF vars
<1>9. QED
  BY <1>1, <1>2, <1>3, <1>4, <1>5, <1>6, <1>7, <1>8 DEF Next

\* The rows and the workers keep their types: the statuses stay within the
\* CHECK constraints of core_commands and raw_round_core_deliveries.
THEOREM TypeInvariant == Spec => []TypeOK
BY InitType, NextType, PTL DEF Spec
-----------------------------------------------------------------------------
(* The inductive invariant.                                                 *)

LEMMA InitInv == Init => DeliveryInv
<1> SUFFICES ASSUME Init
             PROVE  DeliveryInv
  OBVIOUS
<1>1. TypeOK
  BY InitType
<1>2. QED
  BY <1>1, DeliveryAssumption
     DEF Init, DeliveryInv, RowsAgree, WorkersAgree, ClaimsAgree, HoldsClaim,
         RejectionIsCores, PayloadKeptUntilSettled, FailedAfterAllAttempts

\* Everything but the types, which NextType has already shown.
Others ==
    /\ RowsAgree
    /\ WorkersAgree
    /\ ClaimsAgree
    /\ RejectionIsCores
    /\ PayloadKeptUntilSettled
    /\ FailedAfterAllAttempts

\* The steps of a delivery worker keep the invariant.
LEMMA WorkerInv ==
    ASSUME DeliveryInv, NEW w \in Workers, Work(w) \/ FinishFails(w) \/ Crash(w)
    PROVE  Others'
<1> USE DeliveryAssumption DEF DeliveryInv, TypeOK, capture, command, process, replays, coreSide,
                               RowsAgree, WorkersAgree
<1>1. ASSUME NEW r \in Rounds, Claim(w, r)
      PROVE  Others'
  <2>1. RowsAgree'
    BY <1>1 DEF Claim, Claimable, RowsAgree
  <2>2. WorkersAgree'
    BY <1>1 DEF Claim, Claimable, WorkersAgree
  <2>3. ClaimsAgree'
    BY <1>1 DEF Claim, Claimable, ClaimsAgree, HoldsClaim
  <2>4. RejectionIsCores'
    BY <1>1 DEF Claim, Claimable, RejectionIsCores
  <2>5. PayloadKeptUntilSettled'
    BY <1>1 DEF Claim, Claimable, PayloadKeptUntilSettled
  <2>6. FailedAfterAllAttempts'
    BY <1>1 DEF Claim, Claimable, FailedAfterAllAttempts
  <2>7. QED
    BY <2>1, <2>2, <2>3, <2>4, <2>5, <2>6 DEF Others
<1>2. CASE ReadPayload(w)
  <2>1. RowsAgree'
    BY <1>2 DEF ReadPayload, PayloadKeptUntilSettled, RowsAgree
  <2>2. WorkersAgree'
    BY <1>2 DEF ReadPayload, PayloadKeptUntilSettled, WorkersAgree
  <2>3. ClaimsAgree'
    BY <1>2 DEF ReadPayload, PayloadKeptUntilSettled, ClaimsAgree, HoldsClaim
  <2>4. RejectionIsCores'
    BY <1>2 DEF ReadPayload, PayloadKeptUntilSettled, RejectionIsCores
  <2>5. PayloadKeptUntilSettled'
    BY <1>2 DEF ReadPayload, PayloadKeptUntilSettled, PayloadKeptUntilSettled
  <2>6. FailedAfterAllAttempts'
    BY <1>2 DEF ReadPayload, PayloadKeptUntilSettled, FailedAfterAllAttempts
  <2>7. QED
    BY <2>1, <2>2, <2>3, <2>4, <2>5, <2>6 DEF Others
<1>3. CASE RefuseEmptyPayload(w)
  <2>1. RowsAgree'
    BY <1>3 DEF RefuseEmptyPayload, Answer, RowsAgree
  <2>2. WorkersAgree'
    BY <1>3 DEF RefuseEmptyPayload, Answer, WorkersAgree
  <2>3. ClaimsAgree'
    BY <1>3 DEF RefuseEmptyPayload, Answer, ClaimsAgree, HoldsClaim
  <2>4. RejectionIsCores'
    BY <1>3 DEF RefuseEmptyPayload, Answer, RejectionIsCores
  <2>5. PayloadKeptUntilSettled'
    BY <1>3 DEF RefuseEmptyPayload, Answer, PayloadKeptUntilSettled
  <2>6. FailedAfterAllAttempts'
    BY <1>3 DEF RefuseEmptyPayload, Answer, FailedAfterAllAttempts
  <2>7. QED
    BY <2>1, <2>2, <2>3, <2>4, <2>5, <2>6 DEF Others
<1>4. CASE CoreAccepts(w)
  <2>1. RowsAgree'
    BY <1>4 DEF CoreAccepts, Answer, CoreIngest, RowsAgree
  <2>2. WorkersAgree'
    BY <1>4 DEF CoreAccepts, Answer, CoreIngest, WorkersAgree
  <2>3. ClaimsAgree'
    BY <1>4 DEF CoreAccepts, Answer, CoreIngest, ClaimsAgree, HoldsClaim
  <2>4. RejectionIsCores'
    BY <1>4 DEF CoreAccepts, Answer, CoreIngest, RejectionIsCores
  <2>5. PayloadKeptUntilSettled'
    BY <1>4 DEF CoreAccepts, Answer, CoreIngest, PayloadKeptUntilSettled
  <2>6. FailedAfterAllAttempts'
    BY <1>4 DEF CoreAccepts, Answer, CoreIngest, FailedAfterAllAttempts
  <2>7. QED
    BY <2>1, <2>2, <2>3, <2>4, <2>5, <2>6 DEF Others
<1>5. ASSUME NEW o \in {"rejected", "budget"}, CoreRejects(w, o)
      PROVE  Others'
  <2>1. RowsAgree'
    BY <1>5 DEF CoreRejects, Answer, RowsAgree
  <2>2. WorkersAgree'
    BY <1>5 DEF CoreRejects, Answer, WorkersAgree
  <2>3. ClaimsAgree'
    BY <1>5 DEF CoreRejects, Answer, ClaimsAgree, HoldsClaim
  <2>4. RejectionIsCores'
    BY <1>5 DEF CoreRejects, Answer, RejectionIsCores
  <2>5. PayloadKeptUntilSettled'
    BY <1>5 DEF CoreRejects, Answer, PayloadKeptUntilSettled
  <2>6. FailedAfterAllAttempts'
    BY <1>5 DEF CoreRejects, Answer, FailedAfterAllAttempts
  <2>7. QED
    BY <2>1, <2>2, <2>3, <2>4, <2>5, <2>6 DEF Others
<1>6. CASE CoreFails(w)
  <2>1. RowsAgree'
    BY <1>6 DEF CoreFails, Answer, CoreIngest, RowsAgree
  <2>2. WorkersAgree'
    BY <1>6 DEF CoreFails, Answer, CoreIngest, WorkersAgree
  <2>3. ClaimsAgree'
    BY <1>6 DEF CoreFails, Answer, CoreIngest, ClaimsAgree, HoldsClaim
  <2>4. RejectionIsCores'
    BY <1>6 DEF CoreFails, Answer, CoreIngest, RejectionIsCores
  <2>5. PayloadKeptUntilSettled'
    BY <1>6 DEF CoreFails, Answer, CoreIngest, PayloadKeptUntilSettled
  <2>6. FailedAfterAllAttempts'
    BY <1>6 DEF CoreFails, Answer, CoreIngest, FailedAfterAllAttempts
  <2>7. QED
    BY <2>1, <2>2, <2>3, <2>4, <2>5, <2>6 DEF Others
<1>7. CASE Finish(w)
  <2>1. RowsAgree'
    BY <1>7, FinishStatusType DEF Finish, UpdateCoreRawRoundDelivery,
                                  ClearRawRoundPayload, BecomeIdle, FinishStatus,
                                  ClaimsAgree, HoldsClaim, RowsAgree
  <2>2. WorkersAgree'
    BY <1>7, FinishStatusType DEF Finish, UpdateCoreRawRoundDelivery,
                                  ClearRawRoundPayload, BecomeIdle, FinishStatus,
                                  ClaimsAgree, HoldsClaim, WorkersAgree
  <2>3. ClaimsAgree'
    BY <1>7, FinishStatusType DEF Finish, UpdateCoreRawRoundDelivery,
                                  ClearRawRoundPayload, BecomeIdle, FinishStatus,
                                  ClaimsAgree, HoldsClaim
  <2>4. RejectionIsCores'
    BY <1>7, FinishStatusType DEF Finish, UpdateCoreRawRoundDelivery,
                                  ClearRawRoundPayload, BecomeIdle, FinishStatus,
                                  ClaimsAgree, HoldsClaim, RejectionIsCores
  <2>5. PayloadKeptUntilSettled'
    BY <1>7, FinishStatusType DEF Finish, UpdateCoreRawRoundDelivery,
                                  ClearRawRoundPayload, BecomeIdle, FinishStatus,
                                  ClaimsAgree, HoldsClaim, PayloadKeptUntilSettled
  <2>6. FailedAfterAllAttempts'
    <3>1. /\ job[w] \in Rounds /\ HoldsClaim(w) /\ attempts' = attempts
          /\ status' = [status EXCEPT ![job[w]] = FinishStatus(w)]
      BY <1>7 DEF Finish, HoldsClaim
    <3>2. FinishStatus(w) = "failed" => attempts[job[w]] = MaxAttempts
      <4>1. FinishStatus(w) = "failed" => tries[w] >= MaxAttempts
        BY DEF FinishStatus
      <4>2. tries[w] = attempts[job[w]] /\ attempts[job[w]] \in 0..MaxAttempts
        BY <3>1 DEF ClaimsAgree
      <4>3. MaxAttempts \in Nat
        OBVIOUS
      <4> QED
        BY ONLY <4>1, <4>2, <4>3, AtTheBound
    <3> QED
      BY <3>1, <3>2 DEF FailedAfterAllAttempts
  <2>7. QED
    BY <2>1, <2>2, <2>3, <2>4, <2>5, <2>6 DEF Others
<1>8. CASE LeaseLost(w)
  <2>1. RowsAgree'
    BY <1>8 DEF LeaseLost, BecomeIdle, RowsAgree
  <2>2. WorkersAgree'
    BY <1>8 DEF LeaseLost, BecomeIdle, WorkersAgree
  <2>3. ClaimsAgree'
    BY <1>8 DEF LeaseLost, BecomeIdle, ClaimsAgree, HoldsClaim
  <2>4. RejectionIsCores'
    BY <1>8 DEF LeaseLost, BecomeIdle, RejectionIsCores
  <2>5. PayloadKeptUntilSettled'
    BY <1>8 DEF LeaseLost, BecomeIdle, PayloadKeptUntilSettled
  <2>6. FailedAfterAllAttempts'
    BY <1>8 DEF LeaseLost, BecomeIdle, FailedAfterAllAttempts
  <2>7. QED
    BY <2>1, <2>2, <2>3, <2>4, <2>5, <2>6 DEF Others
<1>9. CASE FinishFails(w)
  <2>1. RowsAgree'
    BY <1>9 DEF FinishFails, BecomeIdle, RowsAgree
  <2>2. WorkersAgree'
    BY <1>9 DEF FinishFails, BecomeIdle, WorkersAgree
  <2>3. ClaimsAgree'
    BY <1>9 DEF FinishFails, BecomeIdle, ClaimsAgree, HoldsClaim
  <2>4. RejectionIsCores'
    BY <1>9 DEF FinishFails, BecomeIdle, RejectionIsCores
  <2>5. PayloadKeptUntilSettled'
    BY <1>9 DEF FinishFails, BecomeIdle, PayloadKeptUntilSettled
  <2>6. FailedAfterAllAttempts'
    BY <1>9 DEF FinishFails, BecomeIdle, FailedAfterAllAttempts
  <2>7. QED
    BY <2>1, <2>2, <2>3, <2>4, <2>5, <2>6 DEF Others
<1>10. CASE Crash(w)
  <2>1. RowsAgree'
    BY <1>10 DEF Crash, BecomeIdle, CoreIngest, RowsAgree
  <2>2. WorkersAgree'
    BY <1>10 DEF Crash, BecomeIdle, CoreIngest, WorkersAgree
  <2>3. ClaimsAgree'
    BY <1>10 DEF Crash, BecomeIdle, CoreIngest, ClaimsAgree, HoldsClaim
  <2>4. RejectionIsCores'
    BY <1>10 DEF Crash, BecomeIdle, CoreIngest, RejectionIsCores
  <2>5. PayloadKeptUntilSettled'
    BY <1>10 DEF Crash, BecomeIdle, CoreIngest, PayloadKeptUntilSettled
  <2>6. FailedAfterAllAttempts'
    BY <1>10 DEF Crash, BecomeIdle, CoreIngest, FailedAfterAllAttempts
  <2>7. QED
    BY <2>1, <2>2, <2>3, <2>4, <2>5, <2>6 DEF Others
<1>11. QED
  BY <1>1, <1>2, <1>3, <1>4, <1>5, <1>6, <1>7, <1>8, <1>9, <1>10 DEF Work, CallEnds

LEMMA NextInv == DeliveryInv /\ [Next]_vars => DeliveryInv'
<1> SUFFICES ASSUME DeliveryInv, [Next]_vars
             PROVE  Others'
  BY NextType DEF DeliveryInv, Others
<1> USE DeliveryAssumption DEF DeliveryInv, TypeOK, capture, command, process, replays, coreSide,
                               RowsAgree, WorkersAgree
<1>1. ASSUME NEW r \in Rounds, NEW b \in Bodies, Capture(r, b)
      PROVE  Others'
  <2>1. RowsAgree'
    BY <1>1 DEF Capture, Insert, CreateCoreCommand, CreateCoreRawRoundDelivery,
                RowsAgree
  <2>2. WorkersAgree'
    BY <1>1 DEF Capture, Insert, CreateCoreCommand, CreateCoreRawRoundDelivery,
                WorkersAgree
  <2>3. ClaimsAgree'
    BY <1>1 DEF Capture, Insert, CreateCoreCommand, CreateCoreRawRoundDelivery,
                ClaimsAgree, HoldsClaim
  <2>4. RejectionIsCores'
    BY <1>1 DEF Capture, Insert, CreateCoreCommand, CreateCoreRawRoundDelivery,
                RejectionIsCores
  <2>5. PayloadKeptUntilSettled'
    BY <1>1 DEF Capture, Insert, CreateCoreCommand, CreateCoreRawRoundDelivery,
                PayloadKeptUntilSettled
  <2>6. FailedAfterAllAttempts'
    BY <1>1 DEF Capture, Insert, CreateCoreCommand, CreateCoreRawRoundDelivery,
                FailedAfterAllAttempts
  <2>7. QED
    BY <2>1, <2>2, <2>3, <2>4, <2>5, <2>6 DEF Others
<1>2. ASSUME NEW r \in Rounds, NEW b \in Bodies, CaptureDuplicate(r, b)
      PROVE  Others'
  BY <1>2 DEF CaptureDuplicate, vars, Others, ClaimsAgree, HoldsClaim, RejectionIsCores,
              PayloadKeptUntilSettled, FailedAfterAllAttempts
<1>3. ASSUME NEW w \in Workers, Work(w) \/ FinishFails(w) \/ Crash(w)
      PROVE  Others'
  BY <1>3, WorkerInv
<1>4. CASE PurgeExpired
  <2>1. RowsAgree'
    BY <1>4 DEF PurgeExpired, Expired, RowsAgree
  <2>2. WorkersAgree'
    BY <1>4 DEF PurgeExpired, Expired, WorkersAgree
  <2>3. ClaimsAgree'
    BY <1>4 DEF PurgeExpired, Expired, ClaimsAgree, HoldsClaim
  <2>4. RejectionIsCores'
    BY <1>4 DEF PurgeExpired, Expired, RejectionIsCores
  <2>5. PayloadKeptUntilSettled'
    BY <1>4 DEF PurgeExpired, Expired, PayloadKeptUntilSettled
  <2>6. FailedAfterAllAttempts'
    BY <1>4 DEF PurgeExpired, Expired, FailedAfterAllAttempts
  <2>7. QED
    BY <2>1, <2>2, <2>3, <2>4, <2>5, <2>6 DEF Others
<1>5. ASSUME NEW p \in Replayers, ReplaySelect(p)
      PROVE  Others'
  BY <1>5 DEF ReplaySelect, Others, ClaimsAgree, HoldsClaim, RejectionIsCores,
              PayloadKeptUntilSettled, FailedAfterAllAttempts
<1>6. ASSUME NEW p \in Replayers, ReplayCommit(p)
      PROVE  Others'
  <2>1. RowsAgree'
    BY <1>6 DEF ReplayCommit, Requeue, StillRejected, RowsAgree
  <2>2. WorkersAgree'
    BY <1>6 DEF ReplayCommit, Requeue, StillRejected, WorkersAgree
  <2>3. ClaimsAgree'
    BY <1>6 DEF ReplayCommit, Requeue, StillRejected, ClaimsAgree, HoldsClaim
  <2>4. RejectionIsCores'
    BY <1>6 DEF ReplayCommit, Requeue, StillRejected, RejectionIsCores
  <2>5. PayloadKeptUntilSettled'
    BY <1>6 DEF ReplayCommit, Requeue, StillRejected, PayloadKeptUntilSettled
  <2>6. FailedAfterAllAttempts'
    BY <1>6 DEF ReplayCommit, Requeue, StillRejected, FailedAfterAllAttempts
  <2>7. QED
    BY <2>1, <2>2, <2>3, <2>4, <2>5, <2>6 DEF Others
<1>7. CASE Tick
  <2>1. RowsAgree'
    BY <1>7 DEF Tick, RowsAgree
  <2>2. WorkersAgree'
    BY <1>7 DEF Tick, WorkersAgree
  <2>3. ClaimsAgree'
    BY <1>7 DEF Tick, ClaimsAgree, HoldsClaim
  <2>4. RejectionIsCores'
    BY <1>7 DEF Tick, RejectionIsCores
  <2>5. PayloadKeptUntilSettled'
    BY <1>7 DEF Tick, PayloadKeptUntilSettled
  <2>6. FailedAfterAllAttempts'
    BY <1>7 DEF Tick, FailedAfterAllAttempts
  <2>7. QED
    BY <2>1, <2>2, <2>3, <2>4, <2>5, <2>6 DEF Others
<1>8. CASE UNCHANGED vars
  BY <1>8 DEF vars, Others, ClaimsAgree, HoldsClaim, RejectionIsCores,
              PayloadKeptUntilSettled, FailedAfterAllAttempts
<1>9. QED
  BY <1>1, <1>2, <1>3, <1>4, <1>5, <1>6, <1>7, <1>8 DEF Next

\* The inductive invariant holds throughout: rows, workers and claims agree.
THEOREM Invariance == Spec => []DeliveryInv
BY InitInv, NextInv, PTL DEF Spec
-----------------------------------------------------------------------------
(* What the invariant says of the code.                                     *)

\* A completed command's round is in Core with the captured body, for any
\* number of workers and any interleaving of claims, crashes and lost answers.
THEOREM AcceptedIngested == Spec => []AcceptedIsIngested
<1>1. DeliveryInv => AcceptedIsIngested
  BY DEF DeliveryInv, RowsAgree, AcceptedIsIngested
<1>2. QED
  BY <1>1, Invariance, PTL

\* Core's copy of a round is the captured body.
THEOREM CoreHoldsCaptured == Spec => []CoreHoldsWhatWasCaptured
<1>1. DeliveryInv => CoreHoldsWhatWasCaptured
  BY DEF DeliveryInv, RowsAgree, CoreHoldsWhatWasCaptured
<1>2. QED
  BY <1>1, Invariance, PTL

\* Within the retention period a rejection is always Core's own: no worker makes
\* one out of a payload that another worker's success has cleared.
THEOREM RejectionsAreCores == Spec => []RejectionIsCores
<1>1. DeliveryInv => RejectionIsCores
  BY DEF DeliveryInv
<1>2. QED
  BY <1>1, Invariance, PTL

\* Within the retention period a payload is gone only after success.
THEOREM PayloadsKept == Spec => []PayloadKeptUntilSettled
<1>1. DeliveryInv => PayloadKeptUntilSettled
  BY DEF DeliveryInv
<1>2. QED
  BY <1>1, Invariance, PTL

\* A command that failed for good has used every attempt.
THEOREM FailuresAreFinal == Spec => []FailedAfterAllAttempts
<1>1. DeliveryInv => FailedAfterAllAttempts
  BY DEF DeliveryInv
<1>2. QED
  BY <1>1, Invariance, PTL

\* What is accepted is in Core, and Core holds what was captured, whatever was
\* lost, repeated or sent again under the same identity.
THEOREM DeliversIntact == Spec => []DeliveredIntact
BY AcceptedIngested, CoreHoldsCaptured, PTL DEF DeliveredIntact

\* Rejections, failures and cleared payloads have their reasons, however many
\* workers outlive their leases.
THEOREM SettlesForAReason == Spec => []SettledForAReason
BY RejectionsAreCores, PayloadsKept, FailuresAreFinal, PTL DEF SettledForAReason

LEMMA CompletedStays ==
    ASSUME TypeOK, [Next]_vars, NEW r \in Rounds, status[r] = "completed", digest[r] # Nil
    PROVE  status'[r] = "completed"
<1> USE DEF TypeOK, capture, command, process, replays, coreSide
<1>1. ASSUME NEW q \in Rounds, NEW b \in Bodies, Capture(q, b) \/ CaptureDuplicate(q, b)
      PROVE  status'[r] = "completed"
  BY <1>1 DEF Capture, Insert, CreateCoreCommand, CreateCoreRawRoundDelivery,
              CaptureDuplicate, vars
<1>2. ASSUME NEW w \in Workers, Work(w) \/ FinishFails(w) \/ Crash(w)
      PROVE  status'[r] = "completed"
  BY <1>2 DEF Work, CallEnds, Claim, Claimable, ReadPayload, RefuseEmptyPayload,
              CoreAccepts, CoreRejects, CoreFails, Answer, Finish, UpdateCoreRawRoundDelivery,
              ClearRawRoundPayload, HoldsClaim, LeaseLost,
              FinishFails, Crash
<1>3. CASE PurgeExpired
  BY <1>3 DEF PurgeExpired
<1>4. ASSUME NEW p \in Replayers, ReplaySelect(p) \/ ReplayCommit(p)
      PROVE  status'[r] = "completed"
  BY <1>4 DEF ReplaySelect, ReplayCommit, Requeue, StillRejected
<1>5. CASE Tick
  BY <1>5 DEF Tick
<1>6. CASE UNCHANGED vars
  BY <1>6 DEF vars
<1>7. QED
  BY <1>1, <1>2, <1>3, <1>4, <1>5, <1>6 DEF Next

\* No step takes a success back.
THEOREM AcceptedFinal == Spec => AcceptedIsFinal
<1>1. DeliveryInv /\ [Next]_vars =>
        [\A r \in Rounds : status[r] = "completed" => status'[r] = "completed"]_vars
  BY CompletedStays DEF DeliveryInv, RowsAgree
<1>2. QED
  BY <1>1, Invariance, PTL DEF Spec, AcceptedIsFinal

-----------------------------------------------------------------------------
(* The transport status follows the command.                                *)

LEMMA FollowStep ==
    ASSUME DeliveryInv, DeliveryMatchesCommand, [Next]_vars
    PROVE  DeliveryMatchesCommand'
<1> USE DEF DeliveryMatchesCommand, Matching, DeliveryInv, TypeOK, capture, command,
            process, replays, coreSide
<1>1. ASSUME NEW r \in Rounds, NEW b \in Bodies, Capture(r, b)
      PROVE  DeliveryMatchesCommand'
  <2>1. /\ digest[r] = Nil /\ status[r] = "none" /\ overrun' = overrun
        /\ status' = [status EXCEPT ![r] = "pending"]
        /\ delivery' = [delivery EXCEPT ![r] = "queued"]
    BY <1>1 DEF Capture, Insert, CreateCoreCommand, CreateCoreRawRoundDelivery, RowsAgree
  <2> QED
    BY <2>1
<1>2. ASSUME NEW r \in Rounds, NEW b \in Bodies, CaptureDuplicate(r, b)
      PROVE  DeliveryMatchesCommand'
  BY <1>2 DEF CaptureDuplicate, vars
<1>3. ASSUME NEW w \in Workers, NEW r \in Rounds, Claim(w, r)
      PROVE  DeliveryMatchesCommand'
  BY <1>3 DEF Claim, Claimable
<1>4. ASSUME NEW w \in Workers, Finish(w)
      PROVE  DeliveryMatchesCommand'
  <2>1. /\ job[w] \in Rounds /\ status[job[w]] = "delivering"
        /\ status' = [status EXCEPT ![job[w]] = FinishStatus(w)]
        /\ delivery' = [delivery EXCEPT ![job[w]] = DeliveryStatus(FinishStatus(w))]
        /\ overrun' = overrun \ {job[w]}
    BY <1>4 DEF Finish, HoldsClaim, UpdateCoreRawRoundDelivery
  <2>2. FinishStatus(w) \in {"completed", "rejected", "failed", "retry_wait"}
    BY FinishStatusType
  <2>3. DeliveryStatus(FinishStatus(w)) \in Matching(FinishStatus(w))
    BY <2>2 DEF DeliveryStatus
  <2> QED
    BY <2>1, <2>2, <2>3
<1>5. ASSUME UNCHANGED <<status, delivery, overrun>>
      PROVE  DeliveryMatchesCommand'
  BY <1>5
<1>6. ASSUME NEW w \in Workers, Work(w) \/ FinishFails(w) \/ Crash(w)
      PROVE  DeliveryMatchesCommand'
  BY <1>3, <1>4, <1>5, <1>6
     DEF Work, CallEnds, ReadPayload, RefuseEmptyPayload, CoreAccepts, CoreRejects, CoreFails,
         Answer, LeaseLost, FinishFails, Crash
<1>7. CASE PurgeExpired \/ Tick \/ UNCHANGED vars
  BY <1>5, <1>7 DEF PurgeExpired, Tick, vars
<1>8. ASSUME NEW p \in Replayers, ReplaySelect(p)
      PROVE  DeliveryMatchesCommand'
  BY <1>5, <1>8 DEF ReplaySelect
<1>9. ASSUME NEW p \in Replayers, ReplayCommit(p)
      PROVE  DeliveryMatchesCommand'
  <2>1. \A r \in Rounds : r \in StillRejected(replay[p]) <=> r \in replay[p] /\ status[r] = "rejected"
    BY DEF StillRejected
  <2>2. /\ status' = [r \in Rounds |->
                       IF r \in StillRejected(replay[p]) THEN "pending" ELSE status[r]]
        /\ delivery' = [r \in Rounds |-> IF r \in replay[p] THEN "queued" ELSE delivery[r]]
        /\ overrun' = (overrun \cup replay[p]) \ StillRejected(replay[p])
    BY <1>9 DEF ReplayCommit, Requeue
  <2> QED
    BY <2>1, <2>2
<1>10. QED
  BY <1>1, <1>2, <1>6, <1>7, <1>8, <1>9 DEF Next

\* For any number of overlapping replay requests, through every retry, takeover
\* and replay, the transport status that the API reports is the one of the
\* command, but for the rows that a replay has reset after another one had
\* requeued the command: those say "queued" until the next _finish (_finish,
\* retry_failed_round_semantic).
THEOREM DeliveryFollowsCommand == Spec => []DeliveryMatchesCommand
<1>1. Init => DeliveryMatchesCommand
  BY DEF Init, DeliveryMatchesCommand, Matching
<1>2. DeliveryInv /\ DeliveryMatchesCommand /\ [Next]_vars => DeliveryMatchesCommand'
  BY FollowStep
<1>3. QED
  BY <1>1, <1>2, Invariance, PTL DEF Spec

-----------------------------------------------------------------------------
(* The outbox implements DurableDelivery.                                   *)

LEMMA InitImplements == Init => Abstract!Init
BY DEF Init, Abstract!Init, StageOf

\* A step that leaves every status and Core's rounds alone is a stutter.
LEMMA Stutters ==
    ASSUME UNCHANGED <<status, core>>
    PROVE  UNCHANGED Abstract!vars
BY DEF StageOf, Abstract!vars

\* A step in which Core ingests a captured round, and no status changes.
LEMMA IngestImplements ==
    ASSUME DeliveryInv, NEW r \in Rounds, NEW b \in Bodies,
           status[r] # "none", CoreIngest(r, b), UNCHANGED status
    PROVE  [Abstract!Next]_(Abstract!vars)
<1>1. CASE core[r] # Nil
  <2>1. core' = core
    BY <1>1 DEF CoreIngest, DeliveryInv, TypeOK
  <2>2. QED
    BY <2>1, Stutters
<1>2. CASE core[r] = Nil
  <2>1. {q \in Rounds : core'[q] # Nil} = {q \in Rounds : core[q] # Nil} \cup {r}
    BY <1>2, DeliveryAssumption DEF CoreIngest, DeliveryInv, TypeOK
  <2>2. StageOf(r) # "none"
    BY DEF StageOf
  <2>3. [q \in Rounds |-> StageOf(q)]' = [q \in Rounds |-> StageOf(q)]
    BY DEF StageOf
  <2>4. Abstract!Ingest(r)
    BY <1>2, <2>1, <2>2, <2>3 DEF Abstract!Ingest
  <2>5. QED
    BY <2>4 DEF Abstract!Next
<1>3. QED
  BY <1>1, <1>2

\* The steps of a delivery worker: a settlement, an ingestion or nothing.
LEMMA WorkerImplements ==
    ASSUME DeliveryInv, NEW w \in Workers, Work(w) \/ FinishFails(w) \/ Crash(w)
    PROVE  [Abstract!Next]_(Abstract!vars)
<1> USE DEF capture, command, process, replays, coreSide
<1>1. ASSUME NEW r \in Rounds, Claim(w, r)
      PROVE  UNCHANGED Abstract!vars
  <2>1. status[r] \in Open /\ status' = [status EXCEPT ![r] = "delivering"] /\ core' = core
    BY <1>1 DEF Claim, Claimable, Open
  <2>2. ASSUME NEW q \in Rounds
        PROVE  StageOf(q)' = StageOf(q)
    BY <2>1 DEF StageOf, Open, DeliveryInv, TypeOK
  <2>3. QED
    BY <2>1, <2>2 DEF Abstract!vars
<1>2. CASE ReadPayload(w) \/ RefuseEmptyPayload(w) \/ LeaseLost(w) \/ FinishFails(w)
  BY <1>2, Stutters DEF ReadPayload, RefuseEmptyPayload, Answer, LeaseLost, FinishFails
<1>3. ASSUME NEW o \in {"rejected", "budget"}, CoreRejects(w, o)
      PROVE  UNCHANGED Abstract!vars
  BY <1>3, Stutters DEF CoreRejects, Answer
<1>4. CASE CoreAccepts(w) \/ CoreFails(w) \/ Crash(w)
  <2>1. pc[w] # "idle" /\ UNCHANGED status
    BY <1>4 DEF CoreAccepts, CoreFails, Crash, Answer
  <2>2. UNCHANGED core \/ (body[w] # Nil /\ CoreIngest(job[w], body[w]))
    BY <1>4 DEF CoreAccepts, CoreFails, Crash
  <2>3. job[w] \in Rounds /\ status[job[w]] # "none" /\ body[w] \in Bodies \cup {Nil}
    BY <2>1 DEF DeliveryInv, TypeOK, WorkersAgree
  <2>4. QED
    BY <2>1, <2>2, <2>3, Stutters, IngestImplements
<1>5. CASE Finish(w)
  <2> DEFINE r == job[w]
             s == FinishStatus(w)
  <2>1. r \in Rounds /\ status[r] = "delivering"
    BY <1>5 DEF Finish, UpdateCoreRawRoundDelivery, ClearRawRoundPayload, HoldsClaim
  <2>2. status' = [status EXCEPT ![r] = s] /\ UNCHANGED core
    BY <1>5 DEF Finish, UpdateCoreRawRoundDelivery, ClearRawRoundPayload
  <2>3. CASE s = "retry_wait"
    <3>1. ASSUME NEW q \in Rounds
          PROVE  StageOf(q)' = StageOf(q)
      BY <2>1, <2>2, <2>3 DEF StageOf, DeliveryInv, TypeOK
    <3>2. QED
      BY <2>2, <3>1 DEF Abstract!vars
  <2>4. CASE s # "retry_wait"
    <3> DEFINE t == CASE s = "completed" -> "accepted"
                      [] s = "rejected" -> "refused"
                      [] OTHER -> "abandoned"
    <3>1. s \in {"completed", "rejected", "failed"}
      BY <2>4, FinishStatusType
    <3>2. [q \in Rounds |-> StageOf(q)]' = [[q \in Rounds |-> StageOf(q)] EXCEPT ![r] = t]
      <4>1. ASSUME NEW q \in Rounds
            PROVE  StageOf(q)' = IF q = r THEN t ELSE StageOf(q)
        BY <2>1, <2>2, <3>1 DEF StageOf, DeliveryInv, TypeOK
      <4>2. QED
        BY <2>1, <4>1
    <3>3. s = "completed" => core[r] # Nil
      BY DEF FinishStatus, DeliveryInv, WorkersAgree
    <3>4. Abstract!Settle(r)
      <4>1. StageOf(r) = "open"
        BY <2>1 DEF StageOf
      <4>2. t \in {"accepted", "refused", "abandoned"}
        OBVIOUS
      <4>3. t = "accepted" => r \in {q \in Rounds : core[q] # Nil}
        BY <2>1, <3>1, <3>3
      <4>4. QED
        BY <2>1, <2>2, <3>2, <4>1, <4>2, <4>3 DEF Abstract!Settle
    <3>5. QED
      BY <2>1, <3>4 DEF Abstract!Next
  <2>5. QED
    BY <2>3, <2>4
<1>6. QED
  BY <1>1, <1>2, <1>3, <1>4, <1>5 DEF Work, CallEnds

LEMMA NextImplements ==
    DeliveryInv /\ [Next]_vars =>
        [Abstract!Next]_(Abstract!vars)
<1> SUFFICES ASSUME DeliveryInv, [Next]_vars
             PROVE  [Abstract!Next]_(Abstract!vars)
  OBVIOUS
<1> USE DEF capture, command, process, replays, coreSide
<1>1. ASSUME NEW r \in Rounds, NEW b \in Bodies, Capture(r, b)
      PROVE  Abstract!Next
  <2>1. status[r] = "none" /\ status' = [status EXCEPT ![r] = "pending"] /\ UNCHANGED core
    BY <1>1 DEF Capture, Insert, CreateCoreCommand, CreateCoreRawRoundDelivery,
                DeliveryInv, RowsAgree
  <2>2. ASSUME NEW q \in Rounds
        PROVE  StageOf(q)' = IF q = r THEN "open" ELSE StageOf(q)
    BY <2>1 DEF StageOf, DeliveryInv, TypeOK
  <2>3. Abstract!Record(r)
    BY <2>1, <2>2 DEF Abstract!Record, StageOf
  <2>4. QED
    BY <2>3 DEF Abstract!Next
<1>2. ASSUME NEW r \in Rounds, NEW b \in Bodies, CaptureDuplicate(r, b)
      PROVE  UNCHANGED Abstract!vars
  BY <1>2, Stutters DEF CaptureDuplicate, vars
<1>3. ASSUME NEW w \in Workers, Work(w) \/ FinishFails(w) \/ Crash(w)
      PROVE  [Abstract!Next]_(Abstract!vars)
  BY <1>3, WorkerImplements
<1>4. CASE PurgeExpired \/ Tick \/ UNCHANGED vars
  BY <1>4, Stutters DEF PurgeExpired, Tick, vars
<1>5. ASSUME NEW p \in Replayers, ReplaySelect(p)
      PROVE  UNCHANGED Abstract!vars
  BY <1>5, Stutters DEF ReplaySelect
<1>6. ASSUME NEW p \in Replayers, ReplayCommit(p)
      PROVE  Abstract!Next
  <2> DEFINE S == StillRejected(replay[p])
  <2>1. UNCHANGED core /\ status' = [q \in Rounds |-> IF q \in S THEN "pending" ELSE status[q]]
    BY <1>6 DEF ReplayCommit, Requeue
  <2>2. S \subseteq Rounds /\ \A q \in S : status[q] = "rejected"
    BY DEF StillRejected, DeliveryInv, TypeOK
  <2>3. ASSUME NEW q \in Rounds
        PROVE  StageOf(q)' = IF q \in S THEN "open" ELSE StageOf(q)
    BY <2>1 DEF StageOf
  <2>4. S \in SUBSET {q \in Rounds : [x \in Rounds |-> StageOf(x)][q] = "refused"}
    BY <2>2 DEF StageOf
  <2>5. Abstract!Reopen
    BY <2>1, <2>3, <2>4 DEF Abstract!Reopen
  <2>6. QED
    BY <2>5 DEF Abstract!Next
<1>7. QED
  BY <1>1, <1>2, <1>3, <1>4, <1>5, <1>6 DEF Next

\* Capture, leases, retries, crashes, retention and replay implement the
\* delivery that DurableDelivery promises.
THEOREM Implements == Spec => ImplementsDurableDelivery
BY InitImplements, NextImplements, Invariance, PTL
   DEF Spec, ImplementsDurableDelivery, Abstract!Spec

=============================================================================
