-------------------------- MODULE CommandDelivery --------------------------
(***************************************************************************)
(* Capture of RawRounds into rounds.db and their delivery to Core: the     *)
(* ingest handler (raw_rounds.py), the command outbox and its leases       *)
(* (persistence/raw_round_repository.py), the delivery worker              *)
(* (scheduler/core_command_worker.py), the retention pass                  *)
(* (scheduler/retention_worker.py) and the operator's replay of rejected   *)
(* commands (bootstrap.py, retry_failed_round_semantic).                   *)
(*                                                                         *)
(* A round stands for a capture identity (memory space, source round key,  *)
(* schema version); a body for everything its payload digest covers.  The  *)
(* digest covers the source identity as well, so a round has one command   *)
(* and one delivery row, and the columns of both are indexed by the round. *)
(*                                                                         *)
(* Every SQLite write transaction is BEGIN IMMEDIATE and is one action.    *)
(* Instants are kept relative to the wall clock: available_in is           *)
(* available_at - now, lease_in is lease_expires_at - now.                 *)
(***************************************************************************)
EXTENDS Integers, FiniteSets

CONSTANTS
    Rounds,           \* capture identities
    Bodies,           \* captured contents
    Workers,          \* worker_id values of the delivery workers
    Replayers,        \* concurrent POST /maintenance/replay-failed requests
    Nil,              \* SQL NULL, an absent row, the empty payload '{}'
    MaxAttempts,      \* worker_max_attempts
    LeaseSeconds,     \* worker_lease_seconds
    RetryDelay,       \* worker_retry_delay_seconds
    RetentionSeconds, \* retention_days
    PurgeLimit,       \* payloads cleared by one retention pass
    MaxAge,           \* bound: available_at values older than this compare equal
    MaxFaults         \* bound: crashes and failed transactions in one behaviour

ASSUME DeliveryAssumption ==
    /\ Nil \notin Rounds \cup Bodies \cup Workers
    /\ MaxAttempts \in Nat \ {0}
    /\ LeaseSeconds \in Nat \ {0}
    /\ RetryDelay \in Nat
    /\ RetentionSeconds \in Nat \ {0}
    /\ PurgeLimit \in Nat \ {0}
    /\ MaxAge \in Nat
    /\ MaxFaults \in Nat

VARIABLES
    digest,       \* raw_rounds.payload_digest of each round, Nil before capture
    payload,      \* raw_round_payloads.payload_json, Nil when absent or cleared
    retention_in, \* raw_round_payloads.retention_expires_at - now, at least 0
    status,       \* core_commands.status of each round, "none" without a row
    attempts,     \* core_commands.attempts
    available_in, \* core_commands.available_at - now
    lease_in,     \* core_commands.lease_expires_at - now, at least 0
    claimed_by,   \* core_commands.claimed_by
    last_error,   \* core_commands.last_error_detail
    delivery,     \* raw_round_core_deliveries.transport_status
    pc,           \* where process_once of each worker is
    job,          \* the round of the command a worker has claimed
    tries,        \* the attempts count the worker read when it claimed
    body,         \* the payload the worker has read
    outcome,      \* how the worker's call of the gateway ended
    replay,       \* command ids a replay request has read and not yet written
    overrun,      \* history: rounds whose delivery row a replay has reset after
                  \* another replay had requeued the command, until the next _finish
    core,         \* body Core ingested under the round's idempotency key
    refused,      \* rounds Core has answered with a domain rejection
    faults        \* crashes and failed transactions so far

capture == <<digest, payload, retention_in>>
command == <<status, attempts, available_in, lease_in, claimed_by, last_error>>
process == <<pc, job, tries, body, outcome>>
replays == <<replay, overrun>>
coreSide == <<core, refused>>
vars == <<capture, command, delivery, process, replays, coreSide, faults>>

-----------------------------------------------------------------------------
Status == {"none", "pending", "delivering", "retry_wait",
           "completed", "rejected", "failed"}
Open == {"pending", "delivering", "retry_wait"}
Settled == {"completed", "rejected", "failed"}
Transport == {"none", "queued", "accepted", "rejected", "retry_wait"}
Outcome == {"none", "completed", "rejected", "budget", "error"}

TypeOK ==
    /\ digest \in [Rounds -> Bodies \cup {Nil}]
    /\ payload \in [Rounds -> Bodies \cup {Nil}]
    /\ retention_in \in [Rounds -> Nat]
    /\ status \in [Rounds -> Status]
    /\ attempts \in [Rounds -> 0..MaxAttempts]
    /\ available_in \in [Rounds -> Int]
    /\ lease_in \in [Rounds -> Nat]
    /\ claimed_by \in [Rounds -> Workers \cup {Nil}]
    /\ last_error \in [Rounds -> {"none", "budget", "other"}]
    /\ delivery \in [Rounds -> Transport]
    /\ pc \in [Workers -> {"idle", "claimed", "calling", "finishing"}]
    /\ job \in [Workers -> Rounds \cup {Nil}]
    /\ \A w \in Workers : pc[w] # "idle" => job[w] \in Rounds
    /\ tries \in [Workers -> 0..MaxAttempts]
    /\ body \in [Workers -> Bodies \cup {Nil}]
    /\ outcome \in [Workers -> Outcome]
    /\ replay \in [Replayers -> SUBSET Rounds]
    /\ overrun \in SUBSET Rounds
    /\ core \in [Rounds -> Bodies \cup {Nil}]
    /\ refused \in SUBSET Rounds
    /\ faults \in Nat

Init ==
    /\ digest = [r \in Rounds |-> Nil]
    /\ payload = [r \in Rounds |-> Nil]
    /\ retention_in = [r \in Rounds |-> 0]
    /\ status = [r \in Rounds |-> "none"]
    /\ attempts = [r \in Rounds |-> 0]
    /\ available_in = [r \in Rounds |-> 0]
    /\ lease_in = [r \in Rounds |-> 0]
    /\ claimed_by = [r \in Rounds |-> Nil]
    /\ last_error = [r \in Rounds |-> "none"]
    /\ delivery = [r \in Rounds |-> "none"]
    /\ pc = [w \in Workers |-> "idle"]
    /\ job = [w \in Workers |-> Nil]
    /\ tries = [w \in Workers |-> 0]
    /\ body = [w \in Workers |-> Nil]
    /\ outcome = [w \in Workers |-> "none"]
    /\ replay = [p \in Replayers |-> {}]
    /\ overrun = {}
    /\ core = [r \in Rounds |-> Nil]
    /\ refused = {}
    /\ faults = 0

-----------------------------------------------------------------------------
(* Capture: RawRoundIngestHandler.handle, one write transaction.  Requests  *)
(* that fail the digest, event id, order or size checks, and requests whose *)
(* identity is stored with another digest, raise before any write.          *)

\* insert: the round and, in a row of its own, its payload.
Insert(r, b) ==
    /\ digest' = [digest EXCEPT ![r] = b]
    /\ payload' = [payload EXCEPT ![r] = b]
    /\ retention_in' = [retention_in EXCEPT ![r] = RetentionSeconds]

\* create_core_command: due at once, never tried, nobody's.
CreateCoreCommand(r) ==
    /\ status' = [status EXCEPT ![r] = "pending"]
    /\ UNCHANGED <<attempts, available_in, lease_in, claimed_by, last_error>>

CreateCoreRawRoundDelivery(r) == delivery' = [delivery EXCEPT ![r] = "queued"]

\* RawRoundIngestHandler.handle, one transaction.
Capture(r, b) ==
    /\ digest[r] = Nil
    /\ Insert(r, b)
    /\ CreateCoreCommand(r)
    /\ CreateCoreRawRoundDelivery(r)
    /\ UNCHANGED <<process, replays, coreSide, faults>>

\* Mutant: the conflict check is missing and the second body replaces the first.
CaptureDuplicate_Overwrites(r, b) ==
    /\ digest[r] # Nil
    /\ digest' = [digest EXCEPT ![r] = b]
    /\ payload' = [payload EXCEPT ![r] = b]
    /\ UNCHANGED <<retention_in, command, delivery, process, replays, coreSide, faults>>

\* The same body again: the stored command and delivery rows are answered as
\* they are, whatever their status; only updated_at moves.
CaptureDuplicate(r, b) ==
    /\ digest[r] = b
    /\ UNCHANGED vars

-----------------------------------------------------------------------------
(* The delivery worker, CoreCommandWorker.process_once.                     *)

\* Mutant: an expired lease is never taken over.
Claimable_NoTakeover(r) ==
    status[r] \in {"pending", "retry_wait"} /\ available_in[r] <= 0

Claimable(r) ==
    \/ status[r] \in {"pending", "retry_wait"} /\ available_in[r] <= 0
    \/ status[r] = "delivering" /\ lease_in[r] = 0

\* ORDER BY available_at, command_id; the ids are random, so ties are free.
First(r) ==
    \A s \in Rounds : Claimable(s) => available_in[r] <= available_in[s]

\* attempts saturates at MaxAttempts: the code only compares it with that bound.
NextAttempt(n) == IF n < MaxAttempts THEN n + 1 ELSE MaxAttempts

\* _claim: claim_core_command in one transaction; a lease that ran out is
\* taken over from whoever holds it.
Claim(w, r) ==
    /\ pc[w] = "idle"
    /\ Claimable(r)
    /\ First(r)
    /\ status' = [status EXCEPT ![r] = "delivering"]
    /\ attempts' = [attempts EXCEPT ![r] = NextAttempt(attempts[r])]
    /\ lease_in' = [lease_in EXCEPT ![r] = LeaseSeconds]
    /\ claimed_by' = [claimed_by EXCEPT ![r] = w]
    /\ pc' = [pc EXCEPT ![w] = "claimed"]
    /\ job' = [job EXCEPT ![w] = r]
    /\ tries' = [tries EXCEPT ![w] = NextAttempt(attempts[r])]
    /\ UNCHANGED <<capture, available_in, last_error, delivery, body, outcome,
                   replays, coreSide, faults>>

\* _deliver_raw_round, its read transaction: the payload as it is now.
ReadPayload(w) ==
    /\ pc[w] = "claimed"
    /\ pc' = [pc EXCEPT ![w] = "calling"]
    /\ body' = [body EXCEPT ![w] = payload[job[w]]]
    /\ UNCHANGED <<capture, command, delivery, job, tries, outcome, replays,
                   coreSide, faults>>

\* The gateway call of worker w ends with outcome o.
Answer(w, o) ==
    /\ pc[w] = "calling"
    /\ pc' = [pc EXCEPT ![w] = "finishing"]
    /\ outcome' = [outcome EXCEPT ![w] = o]
    /\ UNCHANGED <<capture, command, delivery, job, tries, body, replays, faults>>

\* Core's side of ingest_raw_round: idempotent under the idempotency key.
CoreIngest(r, b) ==
    core' = [core EXCEPT ![r] = IF core[r] = Nil THEN b ELSE core[r]]

\* An empty payload does not validate as a round: it is refused before it is sent.
RefuseEmptyPayload(w) ==
    /\ body[w] = Nil
    /\ Answer(w, "rejected")
    /\ UNCHANGED coreSide

CoreAccepts(w) ==
    /\ body[w] # Nil
    /\ CoreIngest(job[w], body[w])
    /\ Answer(w, "completed")
    /\ UNCHANGED refused

\* A non-retryable answer; "budget" is the rejection replay-failed looks for.
CoreRejects(w, o) ==
    /\ body[w] # Nil
    /\ core[job[w]] = Nil
    /\ refused' = refused \cup {job[w]}
    /\ Answer(w, o)
    /\ UNCHANGED core

\* Core down, timed out, malformed answer, retryable error, no embedding
\* profile: the request may have been applied all the same.
CoreFails(w) ==
    /\ Answer(w, "error")
    /\ UNCHANGED core \/ (body[w] # Nil /\ CoreIngest(job[w], body[w]))
    /\ UNCHANGED refused

\* Mutant: exhausted retries count as success.
FinishStatus_ExhaustedIsDone(w) ==
    CASE outcome[w] = "completed" -> "completed"
      [] outcome[w] \in {"rejected", "budget"} -> "rejected"
      [] OTHER -> IF tries[w] >= MaxAttempts THEN "completed" ELSE "retry_wait"

FinishStatus(w) ==
    CASE outcome[w] = "completed" -> "completed"
      [] outcome[w] \in {"rejected", "budget"} -> "rejected"
      [] OTHER -> IF tries[w] >= MaxAttempts THEN "failed" ELSE "retry_wait"

\* Mutants: the command's status is stored as it is; "failed" is not in the map.
DeliveryStatus_Unmapped(s) == s

DeliveryStatus_FailedForgotten(s) ==
    CASE s = "completed" -> "accepted"
      [] s = "rejected" -> "rejected"
      [] OTHER -> "retry_wait"

\* The status map of _finish.
DeliveryStatus(s) ==
    CASE s = "completed" -> "accepted"
      [] s = "retry_wait" -> "retry_wait"
      [] OTHER -> "rejected"

\* What a replay can tell of the error that _finish records.
LastError(o) ==
    CASE o = "completed" -> "none"
      [] o = "budget" -> "budget"
      [] OTHER -> "other"

\* Mutant: WHERE command_id = ? alone.
HoldsClaim_Unchecked(w) == job[w] \in Rounds

\* WHERE command_id = ? AND status = 'delivering' AND claimed_by = ?
HoldsClaim(w) ==
    /\ job[w] \in Rounds
    /\ status[job[w]] = "delivering"
    /\ claimed_by[job[w]] = w

\* process_once returns; the worker's local values are gone.
BecomeIdle(w) ==
    /\ pc' = [pc EXCEPT ![w] = "idle"]
    /\ job' = [job EXCEPT ![w] = Nil]
    /\ tries' = [tries EXCEPT ![w] = 0]
    /\ body' = [body EXCEPT ![w] = Nil]
    /\ outcome' = [outcome EXCEPT ![w] = "none"]

UpdateCoreRawRoundDelivery(r, s) == delivery' = [delivery EXCEPT ![r] = s]

ClearRawRoundPayload(r) == payload' = [payload EXCEPT ![r] = Nil]

\* _finish, one transaction: command, delivery row and, on success, payload.
Finish(w) ==
    LET r == job[w]
        s == FinishStatus(w)
    IN  /\ pc[w] = "finishing"
        /\ HoldsClaim(w)
        /\ status' = [status EXCEPT ![r] = s]
        /\ available_in' = [available_in EXCEPT ![r] =
                              IF s = "retry_wait" THEN RetryDelay ELSE available_in[r]]
        /\ lease_in' = [lease_in EXCEPT ![r] = 0]
        /\ claimed_by' = [claimed_by EXCEPT ![r] = Nil]
        /\ last_error' = [last_error EXCEPT ![r] = LastError(outcome[w])]
        /\ UpdateCoreRawRoundDelivery(r, DeliveryStatus(s))
        /\ IF s = "completed" THEN ClearRawRoundPayload(r) ELSE UNCHANGED payload
        /\ BecomeIdle(w)
        /\ overrun' = overrun \ {r}
        /\ UNCHANGED <<digest, retention_in, attempts, replay, coreSide, faults>>

\* _finish when no row matched: rolled back, result lease_lost.
LeaseLost(w) ==
    /\ pc[w] = "finishing"
    /\ ~HoldsClaim(w)
    /\ BecomeIdle(w)
    /\ UNCHANGED <<capture, command, delivery, replays, coreSide, faults>>

\* The finishing transaction raises (busy, disk full).  _finish("completed") is
\* called inside the try block, so its error becomes a retry of the delivery;
\* the other calls are made by handlers and the error leaves process_once.
FinishFails(w) ==
    /\ pc[w] = "finishing"
    /\ faults < MaxFaults
    /\ faults' = faults + 1
    /\ \/ /\ outcome[w] = "completed"
          /\ outcome' = [outcome EXCEPT ![w] = "error"]
          /\ UNCHANGED <<pc, job, tries, body>>
       \/ /\ outcome[w] # "completed"
          /\ BecomeIdle(w)
    /\ UNCHANGED <<capture, command, delivery, replays, coreSide>>

\* The process dies.  A request on its way may still reach Core.
Crash(w) ==
    /\ pc[w] # "idle"
    /\ faults < MaxFaults
    /\ faults' = faults + 1
    /\ BecomeIdle(w)
    /\ \/ UNCHANGED core
       \/ pc[w] = "calling" /\ body[w] # Nil /\ CoreIngest(job[w], body[w])
    /\ UNCHANGED <<capture, command, delivery, replays, refused>>

-----------------------------------------------------------------------------
(* RawRoundRetentionWorker.process_once: purge_expired, whatever the status *)
(* of the delivery.                                                         *)

Expired == {r \in Rounds : payload[r] # Nil /\ retention_in[r] = 0}

PurgeExpired ==
    \E S \in SUBSET Expired :
        /\ S # {}
        /\ Cardinality(S) <= PurgeLimit
        /\ S # Expired => Cardinality(S) = PurgeLimit
        /\ payload' = [r \in Rounds |-> IF r \in S THEN Nil ELSE payload[r]]
        /\ UNCHANGED <<digest, retention_in, command, delivery, process, replays,
                       coreSide, faults>>

-----------------------------------------------------------------------------
(* retry_failed_round_semantic: the SELECT runs before the write            *)
(* transaction that the first UPDATE opens.  limit, error_code and          *)
(* memory_space_id make any part of the matching rows a possible result.    *)

Replayable == {r \in Rounds : status[r] = "rejected" /\ last_error[r] = "budget"}

ReplaySelect(p) ==
    /\ replay[p] = {}
    /\ \E S \in (SUBSET Replayable) \ {{}} : replay' = [replay EXCEPT ![p] = S]
    /\ UNCHANGED <<capture, command, delivery, process, overrun, coreSide, faults>>

\* The commands reset to pending, with no attempts, lease, holder or error.
Requeue(S) ==
    /\ status' = [r \in Rounds |-> IF r \in S THEN "pending" ELSE status[r]]
    /\ attempts' = [r \in Rounds |-> IF r \in S THEN 0 ELSE attempts[r]]
    /\ available_in' = [r \in Rounds |-> IF r \in S THEN 0 ELSE available_in[r]]
    /\ lease_in' = [r \in Rounds |-> IF r \in S THEN 0 ELSE lease_in[r]]
    /\ claimed_by' = [r \in Rounds |-> IF r \in S THEN Nil ELSE claimed_by[r]]
    /\ last_error' = [r \in Rounds |-> IF r \in S THEN "none" ELSE last_error[r]]

\* WHERE command_id = ? AND status = 'rejected'
StillRejected(S) == {r \in S : status[r] = "rejected"}

\* One write transaction.  The UPDATE of the delivery row does not depend on
\* whether the command was still rejected.
ReplayCommit(p) ==
    /\ replay[p] # {}
    /\ Requeue(StillRejected(replay[p]))
    /\ delivery' = [r \in Rounds |-> IF r \in replay[p] THEN "queued" ELSE delivery[r]]
    /\ overrun' = (overrun \cup replay[p]) \ StillRejected(replay[p])
    /\ replay' = [replay EXCEPT ![p] = {}]
    /\ UNCHANGED <<capture, process, coreSide, faults>>

-----------------------------------------------------------------------------
(* A second passes.  Nothing reads the instants of a settled command, so    *)
(* they stand still; available_at values older than MaxAge compare equal.   *)

Tick ==
    /\ available_in' = [r \in Rounds |->
                          IF status[r] \in Open /\ available_in[r] > -MaxAge
                          THEN available_in[r] - 1 ELSE available_in[r]]
    /\ lease_in' = [r \in Rounds |->
                      IF lease_in[r] > 0 THEN lease_in[r] - 1 ELSE 0]
    /\ retention_in' = [r \in Rounds |->
                          IF retention_in[r] > 0 THEN retention_in[r] - 1 ELSE 0]
    /\ UNCHANGED <<digest, payload, status, attempts, claimed_by, last_error,
                   delivery, process, replays, coreSide, faults>>

-----------------------------------------------------------------------------
CallEnds(w) ==
    \/ RefuseEmptyPayload(w)
    \/ CoreAccepts(w)
    \/ \E o \in {"rejected", "budget"} : CoreRejects(w, o)
    \/ CoreFails(w)

Work(w) ==
    \/ \E r \in Rounds : Claim(w, r)
    \/ ReadPayload(w)
    \/ CallEnds(w)
    \/ Finish(w)
    \/ LeaseLost(w)

Next ==
    \/ \E r \in Rounds, b \in Bodies : Capture(r, b) \/ CaptureDuplicate(r, b)
    \/ \E w \in Workers : Work(w) \/ FinishFails(w) \/ Crash(w)
    \/ PurgeExpired
    \/ \E p \in Replayers : ReplaySelect(p) \/ ReplayCommit(p)
    \/ Tick

Spec == Init /\ [][Next]_vars

(* Workers poll, Core calls end (answered or timed out) and time passes.    *)
(* Nobody has to capture, replay, purge or crash.                           *)
FairSpec ==
    /\ Spec
    /\ \A w \in Workers : WF_vars(Work(w))
    /\ WF_vars(Tick)

-----------------------------------------------------------------------------
(* Properties.                                                              *)

\* A command is completed only when Core holds the very body that was
\* captured, however many workers, crashes and lost answers it took
\* (process_once, _finish).
AcceptedIsIngested ==
    \A r \in Rounds : status[r] = "completed" => core[r] # Nil /\ core[r] = digest[r]

\* Core never ingests anything but the captured body: not a cleared payload,
\* not a later body sent under the same identity (handle, RawRoundConflict).
CoreHoldsWhatWasCaptured ==
    \A r \in Rounds : core[r] # Nil => core[r] = digest[r]

\* While retention runs, a command is rejected only because Core refused the
\* round: a worker that reads a payload another worker's success has cleared
\* cannot turn it into a rejection (_deliver_raw_round, finish_core_command).
RejectionIsCores ==
    \A r \in Rounds : status[r] = "rejected" /\ retention_in[r] > 0 => r \in refused

\* A captured payload disappears only once Core has the round or its
\* retention has run out (clear_raw_round_payload, purge_expired).
PayloadKeptUntilSettled ==
    \A r \in Rounds :
        digest[r] # Nil /\ payload[r] = Nil =>
            status[r] = "completed" \/ retention_in[r] = 0

\* A command fails for good only after max_attempts claims, although the
\* worker decides on the count it read when it claimed
\* (_finish_retry_or_failure).
FailedAfterAllAttempts ==
    \A r \in Rounds : status[r] = "failed" => attempts[r] = MaxAttempts

\* What Core gets is what was captured, and what counts as delivered is there:
\* AcceptedIsIngested and CoreHoldsWhatWasCaptured (handle, process_once).
DeliveredIntact == AcceptedIsIngested /\ CoreHoldsWhatWasCaptured

\* No round is settled, and no payload cleared, but for the reason the code
\* gives, although a worker decides with what it read at its claim and may have
\* lost it since (process_once, finish_core_command, purge_expired).
SettledForAReason == RejectionIsCores /\ PayloadKeptUntilSettled /\ FailedAfterAllAttempts

\* The transport statuses that say the same as a command's status.
Matching(s) ==
    CASE s = "none"       -> {"none"}
      [] s = "pending"    -> {"queued"}
      [] s = "delivering" -> {"queued", "retry_wait"}
      [] s = "retry_wait" -> {"retry_wait"}
      [] s = "completed"  -> {"accepted"}
      [] OTHER            -> {"rejected"}

\* The transport status that the API reports follows the command, also when
\* workers lose their leases and replays overlap: it differs only after one
\* replay has written what another had already requeued, then says "queued"
\* whatever became of the command, and is right again with the next _finish
\* (_finish, retry_failed_round_semantic).
DeliveryMatchesCommand ==
    \A r \in Rounds :
        delivery[r] \in (IF r \in overrun THEN {"queued"} ELSE Matching(status[r]))

\* A success is never taken back: no stale worker, expired lease, duplicate
\* capture or replay changes a completed command (finish_core_command,
\* claim_core_command).
AcceptedIsFinal ==
    [][\A r \in Rounds : status[r] = "completed" => status'[r] = "completed"]_vars

\* Every captured round's command is settled again and again, whatever crashes,
\* lost answers and replays there are, as long as the crashes stop and calls do
\* not outlast their leases for ever (claim_core_command's takeover of expired
\* leases, the bounded attempts).
EveryCommandSettles ==
    \/ []<><<\E w \in Workers : LeaseLost(w)>>_vars
    \/ \A r \in Rounds : status[r] \in Open ~> status[r] \in Settled

-----------------------------------------------------------------------------
(* The abstract delivery that the outbox implements.                        *)

StageOf(r) ==
    CASE status[r] = "none" -> "none"
      [] status[r] = "completed" -> "accepted"
      [] status[r] = "rejected" -> "refused"
      [] status[r] = "failed" -> "abandoned"
      [] OTHER -> "open"

Abstract == INSTANCE DurableDelivery WITH
    stage <- [r \in Rounds |-> StageOf(r)],
    known <- {r \in Rounds : core[r] # Nil}

\* Workers, leases, retries, crashes, replays and the retention pass together
\* implement the delivery a client is promised.
ImplementsDurableDelivery == Abstract!Spec
=============================================================================
