--------------------------- MODULE ExecutionTasks ---------------------------
(***************************************************************************)
(* The execution of Core-owned model tasks: the worker that polls, runs    *)
(* and reports them (scheduler/core_execution_task_worker.py), the         *)
(* executor that runs each under a time limit (inference/                  *)
(* core_task_executor.py), and Core's leases on the tasks, as far as the   *)
(* worker's calls show them.                                               *)
(*                                                                         *)
(* One worker thread serves all memory spaces.  A poll leases up to Limit  *)
(* tasks of one space; all of them are executed before the first result is *)
(* reported.  Every call of Core may fail, before or after Core has acted  *)
(* on it (see CoreGateway); time passes while a provider works and while   *)
(* the worker sleeps.                                                      *)
(***************************************************************************)
EXTENDS Naturals, Sequences, FiniteSets, SequencesExt

CONSTANTS
    Tasks,        \* task ids
    Structured,   \* the tasks of kind generate_json or object_resolution
    Alien,        \* tasks that decode on the wire and do not convert
    Poison,       \* tasks that do not decode on the wire
    SpaceOf,      \* the memory space of each task
    Spaces,       \* the memory spaces in the order they are polled
    Broken,       \* spaces whose poll Core always refuses
    Limit,        \* poll_limit
    Lease,        \* lease_seconds
    ExecTime,     \* the time limit of one execution
    MaxTries,     \* bound: leases of a task before Core gives it up
    Fallible,     \* the kinds of fault that may happen
    MaxFaults     \* bound: faults in one behaviour

FaultKinds == {"unsent", "lost", "reject", "refuse", "kill"}

ASSUME TasksAssumption ==
    /\ Structured \subseteq Tasks /\ Alien \subseteq Tasks /\ Poison \subseteq Tasks
    /\ Limit \in Nat \ {0} /\ Lease \in Nat \ {0} /\ ExecTime \in Nat
    /\ MaxTries \in Nat \ {0} /\ MaxFaults \in Nat
    /\ Fallible \subseteq FaultKinds

VARIABLES
    core,     \* Core: the state of each task
    lease,    \* Core: the time left of its lease
    tries,    \* Core: how often it was leased
    pc,       \* the worker's next step
    todo,     \* spaces still to poll in this iteration
    raw,      \* polled tasks still to convert
    batch,    \* converted tasks still to execute
    left,     \* executed tasks still to deliver
    result,   \* the last execution's result of each task
    stage,    \* how often the task at the head of left was delivered
    why,      \* the classification of the exception _fail_task reports
    spent,    \* time spent in the present execution
    circuit,  \* _provider_circuit_open
    owed,     \* history: tasks the worker was handed and has not reported
    escaped,  \* history: an exception ended the iteration
    runs,     \* history: executions of each task since its last lease
    blamed,   \* history: tasks that failed for a reason of their own since then
    dragged,  \* history: tasks whose batch failed for another's profile since then
    verdict,  \* history: how the worker failed the task for Core
    faults

coreVars == <<core, lease, tries>>
work == <<todo, raw, batch, left, result, stage, why, spent, circuit>>
blame == <<blamed, dragged>>
history == <<owed, escaped, runs, blame, verdict>>
vars == <<coreVars, pc, work, history, faults>>

\* What an execution can come to: _failure_result and the codes of the providers.
Results == {"completed", "shape", "transient", "timeout", "secret", "permanent"}

TypeOK ==
    /\ core \in [Tasks -> {"queued", "leased", "done", "failed"}]
    /\ lease \in [Tasks -> 0..Lease] /\ tries \in [Tasks -> 0..MaxTries]
    /\ pc \in {"idle", "space", "convert", "run", "deliver", "rerun", "fail"}
    /\ \A s \in {raw, batch, left} : s \in Seq(Tasks)
    /\ result \in [Tasks -> Results \cup {"none"}]
    /\ stage \in {"first", "again", "rejected", "final", "raised"}
    /\ why \in {"retryable", "permanent"}
    /\ spent \in 0..ExecTime
    /\ circuit \in {"closed", "open"} /\ escaped \in {"yes", "no"}
    /\ owed \in SUBSET Tasks /\ blamed \in SUBSET Tasks
    /\ dragged \in SUBSET Tasks
    /\ runs \in [Tasks -> Nat]
    /\ verdict \in [Tasks -> {"none", "retryable", "permanent"}]
    /\ faults \in 0..MaxFaults

Init ==
    /\ core = [t \in Tasks |-> "queued"]
    /\ lease = [t \in Tasks |-> 0] /\ tries = [t \in Tasks |-> 0]
    /\ pc = "idle" /\ todo = <<>> /\ raw = <<>> /\ batch = <<>> /\ left = <<>>
    /\ result = [t \in Tasks |-> "none"] /\ stage = "first" /\ why = "retryable"
    /\ spent = 0 /\ circuit = "closed"
    /\ owed = {} /\ escaped = "no" /\ blamed = {} /\ dragged = {}
    /\ runs = [t \in Tasks |-> 0] /\ verdict = [t \in Tasks |-> "none"]
    /\ faults = 0

Fault(kind) == kind \in Fallible /\ faults < MaxFaults /\ faults' = faults + 1

-----------------------------------------------------------------------------
(* Core, as the worker sees it                                              *)

Live(t) == core[t] = "leased" /\ lease[t] > 0

\* Queued, or leased to a worker that let the lease run out.
Claimable(t) == (core[t] = "queued" \/ (core[t] = "leased" /\ lease[t] = 0)) /\ tries[t] < MaxTries

\* Core leases as many claimable tasks of the space as the poll allows; its
\* answer is a list.
Handed(s) ==
    {B \in SUBSET {t \in Tasks : SpaceOf[t] = s /\ Claimable(t)} :
        /\ IsFiniteSet(B) /\ Cardinality(B) <= Limit
        /\ Cardinality(B) < Limit =>
            \A t \in Tasks \ B : ~(SpaceOf[t] = s /\ Claimable(t))}

LeaseAll(B) ==
    /\ core' = [t \in Tasks |-> IF t \in B THEN "leased" ELSE core[t]]
    /\ lease' = [t \in Tasks |-> IF t \in B THEN Lease ELSE lease[t]]
    /\ tries' = [t \in Tasks |-> IF t \in B THEN tries[t] + 1 ELSE tries[t]]

\* submit_execution_result on a live lease settles the task.
CoreSubmit(t) == core' = [core EXCEPT ![t] = "done"] /\ UNCHANGED <<lease, tries>>

\* fail_execution_task on a live lease: queued again, or given up.
CoreFail(t, class) ==
    /\ core' = [core EXCEPT ![t] = IF class = "retryable" /\ tries[t] < MaxTries
                                   THEN "queued" ELSE "failed"]
    /\ verdict' = [verdict EXCEPT ![t] = class]
    /\ UNCHANGED <<lease, tries>>

\* Core gives up a task whose last lease ran out.
Exhaust(t) ==
    /\ core[t] \in {"queued", "leased"} /\ lease[t] = 0 /\ tries[t] = MaxTries
    /\ core' = [core EXCEPT ![t] = "failed"]
    /\ UNCHANGED <<lease, tries, pc, work, history, faults>>

\* Time passes while a provider works and while the worker sleeps.
Tick ==
    /\ \/ pc = "idle" /\ UNCHANGED spent
       \/ pc \in {"run", "rerun"} /\ spent < ExecTime /\ spent' = spent + 1
    /\ \E t \in Tasks : Live(t)
    /\ lease' = [t \in Tasks |-> IF Live(t) THEN lease[t] - 1 ELSE lease[t]]
    /\ UNCHANGED <<core, tries, pc, todo, raw, batch, left, result, stage, why, circuit,
                   history, faults>>

-----------------------------------------------------------------------------
(* process_once                                                             *)

Iterate ==
    /\ pc = "idle" /\ circuit = "closed"
    /\ pc' = "space" /\ todo' = Spaces /\ escaped' = "no" /\ owed' = {}
    /\ UNCHANGED <<coreVars, raw, batch, left, result, stage, why, spent, circuit,
                   runs, blame, verdict, faults>>

\* Mutant: the circuit is looked at when an iteration begins, not between spaces.
Proceed_NoBreak ==
    /\ pc' = IF Tail(todo) # <<>> THEN "space" ELSE "idle"
    /\ todo' = Tail(todo)

\* On to the next space, or the end of the iteration.
Proceed ==
    /\ pc' = IF Tail(todo) # <<>> /\ circuit' = "closed" THEN "space" ELSE "idle"
    /\ todo' = Tail(todo)

\* Poll of the space at the head of todo: B is what Core leased.
Polled(B) ==
    /\ LeaseAll(B)
    /\ runs' = [t \in Tasks |-> IF t \in B THEN 0 ELSE runs[t]]
    /\ blamed' = blamed \ B /\ dragged' = dragged \ B
    /\ verdict' = [t \in Tasks |-> IF t \in B THEN "none" ELSE verdict[t]]

\* poll_execution_tasks decodes every task; one that does not decode fails the
\* whole poll, after Core has leased them all.
PollTasks ==
    /\ pc = "space" /\ Head(todo) \notin Broken /\ UNCHANGED circuit
    /\ \E B \in Handed(Head(todo)) :
        /\ Polled(B)
        /\ IF B = {} \/ B \cap Poison # {}
           THEN Proceed /\ UNCHANGED <<raw, owed>>
           ELSE pc' = "convert" /\ raw' = SetToSeq(B) /\ owed' = B /\ UNCHANGED todo
    /\ UNCHANGED <<batch, left, result, stage, why, spent, escaped, faults>>

\* The answer to the poll is lost.
PollLost ==
    /\ pc = "space" /\ Head(todo) \notin Broken /\ Fault("lost")
    /\ \E B \in Handed(Head(todo)) : Polled(B)
    /\ UNCHANGED circuit /\ Proceed
    /\ UNCHANGED <<raw, batch, left, result, stage, why, spent, owed, escaped>>

\* Mutant: a failed poll ends the iteration.
PollFails_Ends ==
    /\ pc = "space"
    /\ IF Head(todo) \in Broken THEN UNCHANGED faults ELSE Fault("unsent")
    /\ pc' = "idle" /\ todo' = <<>>
    /\ UNCHANGED <<coreVars, raw, batch, left, result, stage, why, spent, circuit, history>>

\* A failed poll leaves the other spaces to be polled.
PollFails ==
    /\ pc = "space"
    /\ IF Head(todo) \in Broken THEN UNCHANGED faults ELSE Fault("unsent")
    /\ UNCHANGED circuit /\ Proceed
    /\ UNCHANGED <<coreVars, raw, batch, left, result, stage, why, spent, history>>

-----------------------------------------------------------------------------
(* _process_tasks                                                           *)

\* The exception of a task is classified and reported by _fail_task.
Raise(class) == pc' = "fail" /\ why' = class

Convert ==
    /\ pc = "convert" /\ raw # <<>> /\ Head(raw) \notin Alien
    /\ batch' = Append(batch, Head(raw)) /\ raw' = Tail(raw)
    /\ pc' = IF Tail(raw) = <<>> THEN "run" ELSE "convert"
    /\ UNCHANGED <<coreVars, todo, left, result, stage, why, spent, circuit, history, faults>>

ConvertFails ==
    /\ pc = "convert" /\ raw # <<>> /\ Head(raw) \in Alien
    /\ blamed' = blamed \cup {Head(raw)}
    /\ Raise("permanent")
    /\ UNCHANGED <<coreVars, todo, raw, batch, left, result, stage, spent, circuit,
                   owed, escaped, runs, dragged, verdict, faults>>

\* The results an execution may end with now: a timeout when its time is up.
Ended(r) == r = "timeout" => spent = ExecTime

\* Results that are the task's own failure.
Own(r) == r \in {"shape", "secret", "permanent"}

Ran(S) ==
    /\ runs' = [t \in Tasks |-> IF t \in S THEN runs[t] + 1 ELSE runs[t]]
    /\ spent' = 0

AllEmbeddings == \A i \in 1..Len(batch \o left) : (batch \o left)[i] \notin Structured

\* execute, for the first task that has no result yet; embeddings are executed
\* one by one when their profiles or requests differ.
ExecuteOne ==
    /\ pc = "run" /\ batch # <<>>
    /\ AllEmbeddings /\ left = <<>> => Len(batch) > 1
    /\ LET t == Head(batch) IN
        \E r \in Results :
            /\ Ended(r) /\ (t \notin Structured => r # "shape")
            /\ result' = [result EXCEPT ![t] = r]
            /\ blamed' = IF Own(r) THEN blamed \cup {t} ELSE blamed
            /\ Ran({t})
            /\ left' = Append(left, t)
    /\ batch' = Tail(batch)
    /\ pc' = IF Tail(batch) = <<>> THEN "deliver" ELSE "run"
    /\ stage' = "first"
    /\ UNCHANGED <<coreVars, todo, raw, why, circuit, owed, escaped, dragged, verdict, faults>>

\* _execute_embed_texts_batch: one call for all; a task whose vectors have the
\* wrong dimensions fails alone.
ExecuteBatch ==
    /\ pc = "run" /\ batch # <<>> /\ left = <<>> /\ AllEmbeddings
    /\ \E r \in Results \ {"shape"}, bad \in SUBSET Range(batch) :
        /\ Ended(r) /\ (bad # {} => r = "completed")
        /\ result' = [t \in Tasks |-> IF t \in bad THEN "permanent"
                                      ELSE IF t \in Range(batch) THEN r ELSE result[t]]
        /\ blamed' = IF Own(r) THEN blamed \cup Range(batch) ELSE blamed \cup bad
        /\ Ran(Range(batch))
    /\ left' = batch /\ batch' = <<>>
    /\ pc' = "deliver" /\ stage' = "first"
    /\ UNCHANGED <<coreVars, todo, raw, why, circuit, owed, escaped, dragged, verdict, faults>>

\* The profile of the n-th task does not resolve, for good or because the local
\* database was busy: the exception has no code that is retryable.  The first
\* task's: every task gets its result.  A later task's: the tasks are zipped with
\* the profiles found so far, which raises, and all are failed for good.
ResolveFails(n) ==
    /\ pc = "run" /\ left = <<>> /\ AllEmbeddings /\ spent = 0
    /\ blamed' = blamed \cup {batch[n]}
    /\ dragged' = dragged \cup (Range(batch) \ {batch[n]})
    /\ left' = batch /\ batch' = <<>>
    /\ IF n = 1
       THEN /\ result' = [t \in Tasks |-> IF t \in Range(batch) THEN "permanent" ELSE result[t]]
            /\ pc' = "deliver" /\ stage' = "first" /\ UNCHANGED why
       ELSE Raise("permanent") /\ stage' = "raised" /\ UNCHANGED result
    /\ UNCHANGED <<coreVars, todo, raw, spent, circuit, owed, escaped, runs, verdict, faults>>

-----------------------------------------------------------------------------
(* Delivery                                                                 *)

Current == IF raw # <<>> THEN Head(raw) ELSE Head(left)

\* Core knows the task's fate; the worker goes on with the next task.
Reported ==
    /\ owed' = owed \ {Current} /\ result' = [result EXCEPT ![Current] = "none"]
    /\ IF raw # <<>>
       THEN /\ raw' = Tail(raw) /\ UNCHANGED <<left, stage>>
            /\ IF Tail(raw) # <<>> THEN pc' = "convert" /\ UNCHANGED todo
               ELSE IF batch # <<>> THEN pc' = "run" /\ UNCHANGED todo
               ELSE Proceed
       ELSE /\ left' = Tail(left) /\ UNCHANGED raw
            /\ stage' = IF stage = "raised" /\ Tail(left) # <<>> THEN "raised" ELSE "first"
            /\ IF Tail(left) = <<>> THEN Proceed
               ELSE pc' = (IF stage = "raised" THEN "fail" ELSE "deliver") /\ UNCHANGED todo

\* _open_provider_circuit_on_failure, on the result of the batch and not on that
\* of a retry: of the codes the executor produces only secret_missing opens it.
Circuit(r) == circuit' = IF stage = "first" /\ r = "secret" THEN "open" ELSE circuit

\* Mutant: a timeout is not retryable.
Retryable_NoTimeout(r) == r = "transient"

\* execution_result_is_retryable.
Retryable(r) == r \in {"transient", "timeout"}

\* A malformed answer of the provider: one more generation by another route.
Reshape ==
    /\ pc = "deliver" /\ stage = "first"
    /\ Head(left) \in Structured /\ result[Head(left)] = "shape"
    /\ pc' = "rerun"
    /\ UNCHANGED <<coreVars, todo, raw, batch, left, result, stage, why, spent, circuit,
                   history, faults>>

\* execute with force_provider_fallback.
Rerun ==
    /\ pc = "rerun"
    /\ LET t == Head(left) IN
        \E r \in Results :
            /\ Ended(r)
            /\ result' = [result EXCEPT ![t] = r]
            /\ blamed' = IF Own(r) THEN blamed \cup {t} ELSE blamed
            /\ Ran({t})
            /\ stage' = IF stage = "first" /\ r # "completed" THEN "again" ELSE "final"
    /\ pc' = "deliver"
    /\ UNCHANGED <<coreVars, todo, raw, batch, left, why, circuit, owed, escaped, dragged,
                   verdict, faults>>

Deliverable ==
    /\ pc = "deliver"
    /\ ~(stage = "first" /\ Head(left) \in Structured /\ result[Head(left)] = "shape")

\* Core acts on the report of the result.
CoreActs(t) ==
    IF result[t] = "completed"
    THEN CoreSubmit(t) /\ UNCHANGED verdict
    ELSE CoreFail(t, IF Retryable(result[t]) THEN "retryable" ELSE "permanent")

\* _deliver_result, and Core takes it.
Deliver ==
    /\ Deliverable /\ Live(Head(left))
    /\ CoreActs(Head(left))
    /\ Circuit(result[Head(left)])
    /\ Reported
    /\ UNCHANGED <<batch, why, spent, escaped, runs, blame, faults>>

\* Mutant: the exception of one delivery leaves the batch.
DeliverUncertain_Escapes ==
    /\ Deliverable
    /\ Fault("unsent") /\ UNCHANGED <<coreVars, verdict>>
    /\ Circuit(result[Head(left)])
    /\ left' = <<>> /\ stage' = "first"
    /\ Proceed
    /\ UNCHANGED <<raw, batch, result, why, spent, owed, escaped, runs, blame>>

\* The report or its answer gets lost, or is not accepted: the exception is
\* reported as a failure that may be retried.
DeliverUncertain ==
    /\ Deliverable
    /\ \/ Fault("unsent") /\ UNCHANGED <<coreVars, verdict>>
       \/ Fault("refuse") /\ result[Head(left)] = "completed" /\ UNCHANGED <<coreVars, verdict>>
       \/ Fault("lost") /\ Live(Head(left)) /\ CoreActs(Head(left))
    /\ Circuit(result[Head(left)])
    /\ Raise("retryable")
    /\ UNCHANGED <<todo, raw, batch, left, result, stage, spent, owed, escaped, runs, blame>>

\* The rejections that may be met: Core refuses the answer of the model, or a
\* report on a lease that ran out; the gateway itself refuses an answer that does
\* not validate as a result, with the code invalid_execution_result.
Rejection(t) ==
    (IF Live(t) THEN {} ELSE {"expired"}) \cup
    (IF result[t] # "completed" THEN {} ELSE
        {"invalid_execution_result"} \cup IF Live(t) THEN {"refused"} ELSE {})

DeliverRejected ==
    /\ Deliverable
    /\ \E code \in Rejection(Head(left)) :
        /\ IF code = "expired" THEN UNCHANGED <<faults, blamed>>
           ELSE Fault("reject") /\ blamed' = blamed \cup {Head(left)}
        /\ IF /\ Head(left) \in Structured /\ stage \in {"first", "again"}
              /\ code # "invalid_execution_result"
           THEN pc' = "rerun" /\ stage' = "rejected" /\ UNCHANGED why
           ELSE Raise("permanent") /\ UNCHANGED stage
    /\ Circuit(result[Head(left)])
    /\ UNCHANGED <<coreVars, todo, raw, batch, left, result, spent, owed, escaped, runs,
                   dragged, verdict>>

\* _fail_task.
FailTask ==
    /\ pc = "fail" /\ Live(Current)
    /\ CoreFail(Current, why)
    /\ UNCHANGED circuit /\ Reported
    /\ UNCHANGED <<batch, why, spent, escaped, runs, blame, faults>>

\* The report of the failure fails itself: the exception leaves process_once,
\* and what is left of the batch stays leased.
FailTaskRaises ==
    /\ pc = "fail"
    /\ \/ ~Live(Current) /\ UNCHANGED <<faults, coreVars, verdict>>
       \/ Fault("unsent") /\ UNCHANGED <<coreVars, verdict>>
       \/ Fault("lost") /\ Live(Current) /\ CoreFail(Current, why)
    /\ pc' = "idle" /\ todo' = <<>> /\ raw' = <<>> /\ batch' = <<>> /\ left' = <<>>
    /\ stage' = "first" /\ escaped' = "yes" /\ result' = [t \in Tasks |-> "none"]
    /\ UNCHANGED <<why, spent, circuit, owed, runs, blame>>

\* The process ends and is started again.
Kill ==
    /\ Fault("kill") /\ pc # "idle"
    /\ pc' = "idle" /\ todo' = <<>> /\ raw' = <<>> /\ batch' = <<>> /\ left' = <<>>
    /\ stage' = "first" /\ spent' = 0 /\ circuit' = "closed" /\ owed' = {} /\ escaped' = "no"
    /\ result' = [t \in Tasks |-> "none"]
    /\ UNCHANGED <<coreVars, why, runs, blame, verdict>>

WorkerStep ==
    \/ Iterate \/ PollTasks \/ PollLost \/ PollFails
    \/ Convert \/ ConvertFails \/ ExecuteOne \/ ExecuteBatch
    \/ \E n \in 1..Len(batch) : ResolveFails(n)
    \/ Reshape \/ Rerun \/ Deliver \/ DeliverUncertain \/ DeliverRejected
    \/ FailTask \/ FailTaskRaises

Next == WorkerStep \/ Tick \/ Kill \/ \E t \in Tasks : Exhaust(t)

Spec == Init /\ [][Next]_vars

\* The guarded loop runs the worker again and again and sleeps in between, so
\* time passes; Core gives up tasks whose leases are used up.
FairSpec == Spec /\ WF_vars(WorkerStep) /\ SF_vars(Tick) /\ \A t \in Tasks : WF_vars(Exhaust(t))

-----------------------------------------------------------------------------
(* Properties                                                               *)

\* An iteration that ends leaves no task it was handed without a report to
\* Core, whatever becomes of the other tasks of the batch (the excepts of
\* _process_tasks), unless the report of a failure failed itself.
EveryTaskReported == pc = "idle" /\ owed # {} => escaped = "yes"

\* Core is told to give a task up only for a reason of that task: its own
\* result, its conversion, or Core's refusal of its answer; a lost call, a
\* timeout or a lease that ran out is reported as one to be tried again.  The
\* exception is a batch of embeddings in which the profile of one task does not
\* resolve: the others are given up with it (_execute_embed_texts_batch).
OnlyOwnFailuresAreFinal ==
    \A t \in Tasks :
        core[t] = "failed" /\ verdict[t] = "permanent" => t \in blamed \cup dragged

\* A lease costs at most three generations, one more than is documented (see
\* OneRetry), and one embedding call (_deliver_result_with_structured_retry).
BoundedRuns == \A t \in Tasks : runs[t] <= IF t \in Structured THEN 3 ELSE 1

\* "makes at most one retry", "A second invalid response fails the task"
\* (README.md:186-191), "Give one structured generation a bounded contract
\* retry" (core_execution_task_worker.py:536): a lease costs at most two
\* generations.  It fails where the retry after a malformed answer fails too and
\* Core rejects the report of that failure, which is retried once more.
OneRetry == \A t \in Tasks : runs[t] <= 2

\* What the worker owes for the tasks it was handed: a report of each, after a
\* bounded number of provider calls.
TasksAccounted == TypeOK /\ EveryTaskReported /\ BoundedRuns

\* Once a missing secret has opened the circuit this process leases no task any
\* more, in the rest of the iteration neither (process_once).
CircuitPausesPolling == [][circuit = "open" /\ circuit' = "open" => tries' = tries]_vars

\* Every task of a space that can be polled is settled in the end or waits for
\* a restart with the secret in place; a space that cannot be polled holds
\* none of the others up.
EveryTaskSettles ==
    \A t \in Tasks : SpaceOf[t] \notin Broken =>
        (core[t] = "queued" ~> core[t] \in {"done", "failed"} \/ circuit = "open")
=============================================================================
