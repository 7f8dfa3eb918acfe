---------------------------- MODULE CoreGateway ----------------------------
(***************************************************************************)
(* The boundary to the Core process: the supervisor that starts, talks to  *)
(* and ends it (core_gateway/supervisor.py, framing.py), the isolation it  *)
(* is started in (sandbox.py, isolation.py, security_policy.py) and the    *)
(* gateway that turns its answers into results and errors (process.py).    *)
(*                                                                         *)
(* Threads of Local share one supervisor and take its lock for a whole     *)
(* exchange.  Core reads requests from one pipe, answers into another, may *)
(* be slow, may hang, may crash, and lives on while nobody ends it: the    *)
(* answer to a request that was given up is still on its way.              *)
(***************************************************************************)
EXTENDS Naturals, Sequences

CONSTANTS
    Callers,     \* threads that use the gateway's operations
    Probers,     \* threads that use try_get_object_facet_statistics
    Operations,  \* the operations of Core the callers use
    Nobody,      \* not a thread: the lock is free
    Required,    \* the guarantees the security configuration requires
    Strict,      \* the launch fails without them
    Signed,      \* binary_signature_verified
    Hosts,       \* what the probes may find: backend |-> guarantees, or Failed
    MaxCalls,    \* bound: calls of the gateway
    Fallible,    \* the kinds of fault that may happen
    MaxFaults    \* bound: faults in one behaviour

Clients == Callers \cup Probers
FaultKinds == {"slow", "hang", "crash", "popen", "oversize", "garbage", "foreign", "malformed"}
AllOperations ==
    {"ingest_raw_round", "retrieve_context", "record_retrieval_outcome",
     "run_control_maintenance", "get_object_facet_statistics", "delete_memory_space",
     "poll_execution_tasks", "submit_execution_result", "fail_execution_task", "health"}
Methods == Operations \cup {"get_object_facet_statistics", "close", "require"}
Guarantees == {"network", "rounds", "filesystem", "environment", "signature"}
Failed == {"failed"}

ASSUME GatewayAssumption ==
    /\ Nobody \notin Clients /\ "handshake" \notin Clients /\ "shutdown" \notin Clients
    /\ Operations \subseteq AllOperations
    /\ Required \subseteq Guarantees /\ Strict \in BOOLEAN /\ Signed \in BOOLEAN
    /\ Hosts \subseteq [{"bwrap", "unshare", "none"} -> (SUBSET Guarantees) \cup {Failed}]
    /\ MaxCalls \in Nat /\ MaxFaults \in Nat
    /\ Fallible \subseteq FaultKinds

VARIABLES
    lock,      \* the thread that holds _lock
    pc,        \* what each thread does next
    op,        \* the method it called
    call,      \* the number of its call
    calls,     \* calls so far
    outcome,   \* how its last call ended
    spawned,   \* processes started so far
    proc,      \* _process: 0, or the process it names
    up,        \* processes that run
    hung,      \* whether that process no longer reads and answers
    trait,     \* what its Core binary is
    guar,      \* the guarantees it was started with
    reported,  \* _isolation_capabilities
    greeted,   \* the process of _handshake_result, 0 without one
    shown,     \* what that handshake said of its Core
    inbox,     \* requests in the pipe to the process named by proc
    outbox,    \* answers in the pipe from it
    verdict,   \* history: what Core decided on each call
    refused,   \* history: calls that Core ended by an error to its handshake
    faults

threads == <<pc, op, call, calls, outcome>>
process == <<spawned, proc, up, hung, trait, guar>>
pipes == <<inbox, outbox>>
hello == <<greeted, shown>>
decided == <<verdict, refused>>
vars == <<lock, threads, process, reported, hello, pipes, decided, faults>>

Verdicts == {"none", "ok", "malformed", "error", "retryable"}
Frames == [id : Clients \cup {"handshake", "shutdown", "foreign"},
           call : 0..MaxCalls, body : Verdicts \cup {"garbage"}]

TypeOK ==
    /\ lock \in Clients \cup {Nobody}
    /\ pc \in [Clients -> {"idle", "wait", "start", "greet", "greeting", "send", "read",
                           "stop", "stopping", "judge", "refuse"}]
    /\ op \in [Clients -> Methods]
    /\ call \in [Clients -> 0..MaxCalls] /\ calls \in 0..MaxCalls
    /\ outcome \in [Clients -> {"none", "ok", "rejected", "transient", "busy", "incapable",
                                "invalid"}]
    /\ spawned \in Nat /\ proc \in Nat /\ greeted \in Nat /\ up \in SUBSET Nat
    /\ hung \in {"yes", "no"}
    /\ trait \in {"capable", "incapable", "other_protocol"}
    /\ shown \in {"none", "capable", "incapable", "other_protocol"}
    /\ guar \in SUBSET Guarantees /\ reported \in SUBSET Guarantees
    /\ inbox \in Seq(Frames) /\ outbox \in Seq(Frames)
    /\ verdict \in [1..MaxCalls -> Verdicts] /\ refused \in SUBSET (1..MaxCalls)
    /\ faults \in 0..MaxFaults

Init ==
    /\ lock = Nobody
    /\ pc = [c \in Clients |-> "idle"] /\ op = [c \in Clients |-> "close"]
    /\ call = [c \in Clients |-> 0] /\ calls = 0 /\ outcome = [c \in Clients |-> "none"]
    /\ spawned = 0 /\ proc = 0 /\ up = {} /\ hung = "no"
    /\ trait = "capable" /\ guar = {}
    /\ reported = {} /\ greeted = 0 /\ shown = "none"
    /\ inbox = <<>> /\ outbox = <<>>
    /\ verdict = [n \in 1..MaxCalls |-> "none"] /\ refused = {}
    /\ faults = 0

-----------------------------------------------------------------------------
(* Helpers                                                                 *)

Fault(kind) == kind \in Fallible /\ faults < MaxFaults /\ faults' = faults + 1
Either(kind) == IF kind = "none" THEN UNCHANGED faults ELSE Fault(kind)

Goto(c, label) == pc' = [pc EXCEPT ![c] = label]
At(c, label) == lock = c /\ pc[c] = label

\* _is_running_locked.
Running == proc # 0 /\ proc \in up

\* Mutant: the handle is dropped and the process is left to itself.
Terminate_HandleOnly == proc' = 0 /\ inbox' = <<>> /\ outbox' = <<>> /\ UNCHANGED up

\* _terminate_locked: the pipes are closed, then terminate, kill and wait.
Terminate == proc' = 0 /\ up' = up \ {proc} /\ inbox' = <<>> /\ outbox' = <<>>

\* The call ends, the lock is released.
Return(c, how) ==
    /\ Goto(c, "idle") /\ outcome' = [outcome EXCEPT ![c] = how]
    /\ lock' = Nobody
    /\ UNCHANGED <<op, call, calls>>

\* The call ends with an exception of the supervisor after _terminate_locked.
GiveUp(c) ==
    /\ Terminate
    /\ Return(c, "transient")
    /\ UNCHANGED <<spawned, hung, trait, guar, reported, hello, decided>>

\* build_core_isolation_requirements, IsolationRequirements.missing.
Missing(have) == Required \ have

\* _capabilities_from_probe.
Established(probe) == probe \cup IF Signed THEN {"signature"} ELSE {}

\* build_sandbox_plan: the first backend whose probe answers, then the direct
\* probe, whose failure establishes nothing, the signature included.
Measured(host) ==
    IF host["bwrap"] # Failed THEN Established(host["bwrap"])
    ELSE IF host["unshare"] # Failed THEN Established(host["unshare"])
    ELSE IF host["none"] # Failed THEN Established(host["none"])
    ELSE {}

-----------------------------------------------------------------------------
(* Calls                                                                   *)

\* A thread calls the gateway; a retry uses the request id of its command again.
Ask(c, method) ==
    /\ pc[c] = "idle" /\ calls < MaxCalls
    /\ c \in Probers <=> method = "get_object_facet_statistics"
    /\ calls' = calls + 1 /\ call' = [call EXCEPT ![c] = calls + 1]
    /\ op' = [op EXCEPT ![c] = method]
    /\ outcome' = [outcome EXCEPT ![c] = "none"]
    /\ Goto(c, "wait")
    /\ UNCHANGED <<lock, process, reported, hello, pipes, decided, faults>>

\* Operations that refuse a command that does not validate before they send it.
Prechecked == {"ingest_raw_round", "record_retrieval_outcome", "submit_execution_result"}

\* Operations that take any result Core answers for done.
Unchecked == {"record_retrieval_outcome", "fail_execution_task", "health"}

Invalid(c) ==
    /\ pc[c] = "wait" /\ op[c] \in Prechecked
    /\ Fault("malformed")
    /\ Goto(c, "idle") /\ outcome' = [outcome EXCEPT ![c] = "invalid"]
    /\ UNCHANGED <<lock, op, call, calls, process, reported, hello, pipes, decided>>

\* The thread gets the lock.
Lock(c) ==
    /\ pc[c] = "wait" /\ lock = Nobody
    /\ lock' = c
    /\ Goto(c, IF op[c] = "close" THEN "stop" ELSE "start")
    /\ UNCHANGED <<op, call, calls, outcome, process, reported, hello, pipes, decided, faults>>

\* try_request gives up on a lock that is held.
Busy(c) ==
    /\ c \in Probers /\ pc[c] = "wait" /\ lock # Nobody
    /\ Goto(c, "idle") /\ outcome' = [outcome EXCEPT ![c] = "busy"]
    /\ UNCHANGED <<lock, op, call, calls, process, reported, hello, pipes, decided, faults>>

\* Where a call goes on when Core runs.
Started(c) ==
    /\ IF op[c] = "require"
       THEN Goto(c, "judge") /\ lock' = Nobody
       ELSE Goto(c, "send") /\ UNCHANGED lock
    /\ UNCHANGED <<op, call, calls, outcome>>

StartRunning(c) ==
    /\ At(c, "start") /\ Running
    /\ Started(c)
    /\ UNCHANGED <<process, reported, hello, pipes, decided, faults>>

\* _finish_plan refuses a strict launch that misses a requirement.
SpawnRefused(c) ==
    /\ At(c, "start") /\ ~Running
    /\ \E host \in Hosts : Strict /\ Missing(Measured(host)) # {}
    /\ reported' = {}
    /\ Return(c, "transient")
    /\ UNCHANGED <<process, hello, pipes, decided, faults>>

\* Popen fails: the report already is that of the plan.
SpawnFails(c) ==
    /\ At(c, "start") /\ ~Running
    /\ Fault("popen")
    /\ \E host \in Hosts : /\ ~(Strict /\ Missing(Measured(host)) # {})
                           /\ reported' = Measured(host)
    /\ Return(c, "transient")
    /\ UNCHANGED <<process, hello, pipes, decided>>

\* A launch under the plan for host, which the report is told as told.
Launch(c, host, told) ==
    /\ At(c, "start") /\ ~Running
    /\ ~(Strict /\ Missing(Measured(host)) # {})
    /\ reported' = told
    /\ spawned' = spawned + 1 /\ proc' = spawned + 1 /\ up' = up \cup {spawned + 1}
    /\ hung' = "no" /\ guar' = Measured(host)
    /\ trait' \in {"capable", "incapable", "other_protocol"}
    /\ inbox' = <<>> /\ outbox' = <<>>
    /\ Goto(c, "greet")
    /\ UNCHANGED <<lock, op, call, calls, outcome, hello, decided, faults>>

\* _spawn_locked: the plan is made anew for every process.
Spawn(c) == \E host \in Hosts : Launch(c, host, Measured(host))

-----------------------------------------------------------------------------
(* Exchanges                                                                *)

\* write_frame: the request is in the pipe of a process that runs.
Write(c, from, to, frame) ==
    /\ At(c, from) /\ Running
    /\ inbox' = Append(inbox, frame)
    /\ Goto(c, to)
    /\ UNCHANGED <<lock, op, call, calls, outcome, process, reported, hello, outbox,
                   decided, faults>>

SendHandshake(c) ==
    Write(c, "greet", "greeting", [id |-> "handshake", call |-> 0, body |-> "none"])

SendRequest(c) ==
    Write(c, "send", "read", [id |-> c, call |-> call[c], body |-> "none"])

\* A write to a process that is gone, or a frame that is too large to send.
SendFails(c) ==
    /\ At(c, "greet") \/ At(c, "send")
    /\ \/ ~Running /\ UNCHANGED faults
       \/ pc[c] = "send" /\ Fault("oversize")
    /\ GiveUp(c)

\* The response is read within the operation's time.
Reading(c) == At(c, "greeting") \/ At(c, "read")
Expected(c) == IF pc[c] = "read" THEN c ELSE "handshake"

\* start: the version is checked before the result is kept.
ReadHandshake(c) ==
    /\ At(c, "greeting") /\ outbox # <<>>
    /\ Head(outbox).id = "handshake" /\ Head(outbox).body = "ok"
    /\ trait # "other_protocol"
    /\ outbox' = Tail(outbox)
    /\ greeted' = proc /\ shown' = trait
    /\ Started(c)
    /\ UNCHANGED <<process, reported, inbox, decided, faults>>

\* Core answers the handshake with an error, or with a result that is none.
\* start is outside request's try, so that _request takes Core's final error for
\* one about the command.
HandshakeRefused(c) ==
    /\ At(c, "greeting") /\ outbox # <<>>
    /\ Head(outbox).id = "handshake" /\ Head(outbox).body \in {"error", "retryable", "malformed"}
    /\ Terminate
    /\ IF Head(outbox).body = "error" /\ op[c] \notin {"require", "health"}
       THEN Return(c, "rejected") /\ refused' = refused \cup {call[c]}
       ELSE Return(c, "transient") /\ UNCHANGED refused
    /\ UNCHANGED <<spawned, hung, trait, guar, reported, hello, verdict, faults>>

\* _request and the decoding of results: an answer that does not decode and a
\* retryable error leave the command's fate open, any other error is final.
Outcome(operation, body) ==
    CASE body = "ok" \/ (body = "malformed" /\ operation \in Unchecked) -> "ok"
      [] body = "error" /\ operation # "health" -> "rejected"
      [] OTHER -> "transient"

ReadAnswer(c) ==
    /\ At(c, "read") /\ outbox # <<>>
    /\ Head(outbox).id = c /\ Head(outbox).body # "garbage"
    /\ outbox' = Tail(outbox)
    /\ Return(c, Outcome(op[c], Head(outbox).body))
    /\ UNCHANGED <<process, reported, hello, inbox, decided, faults>>

\* An answer that is no answer to this request, or no frame at all.
ReadRefused(c) ==
    /\ Reading(c) /\ outbox # <<>>
    /\ \/ Head(outbox).id # Expected(c)
       \/ Head(outbox).body = "garbage"
       \/ pc[c] = "greeting" /\ trait = "other_protocol"
    /\ GiveUp(c)
    /\ UNCHANGED faults

\* Mutant: the read of a response has no deadline.
Timeout_NoDeadline(c) ==
    /\ Reading(c) /\ outbox = <<>> /\ Running /\ hung = "no"
    /\ Fault("slow")
    /\ GiveUp(c)

\* Mutant: the process is kept when a request has timed out.
Timeout_KeepsProcess(c) ==
    /\ Reading(c) /\ outbox = <<>> /\ Running
    /\ IF hung = "yes" THEN UNCHANGED faults ELSE Fault("slow")
    /\ IF pc[c] = "greeting" THEN GiveUp(c)
       ELSE /\ Return(c, "transient")
            /\ UNCHANGED <<process, reported, hello, pipes, decided>>

\* CoreSupervisorTimeout: Core hangs, or was not fast enough.
Timeout(c) ==
    /\ Reading(c) /\ outbox = <<>> /\ Running
    /\ IF hung = "yes" THEN UNCHANGED faults ELSE Fault("slow")
    /\ GiveUp(c)

\* The process has closed its end of the pipe.
EndOfFile(c) ==
    /\ Reading(c) /\ outbox = <<>> /\ ~Running
    /\ GiveUp(c)
    /\ UNCHANGED faults

\* close: shutdown is asked for, and whatever comes of it the process is ended.
SendShutdown(c) ==
    Write(c, "stop", "stopping", [id |-> "shutdown", call |-> 0, body |-> "none"])

Stopped(c) ==
    /\ \/ At(c, "stop") /\ ~Running /\ UNCHANGED faults
       \/ /\ At(c, "stopping")
          /\ IF outbox # <<>> \/ ~Running \/ hung = "yes"
             THEN UNCHANGED faults ELSE Fault("slow")
    /\ Terminate
    /\ Return(c, IF op[c] = "require" THEN "incapable" ELSE "ok")
    /\ UNCHANGED <<spawned, hung, trait, guar, reported, hello, decided>>

\* _validate_capabilities looks at the newest handshake, under the lock again.
Judge(c) ==
    /\ pc[c] = "judge" /\ lock = Nobody
    /\ IF shown = "capable"
       THEN Goto(c, "idle") /\ outcome' = [outcome EXCEPT ![c] = "ok"]
       ELSE Goto(c, "refuse") /\ UNCHANGED outcome
    /\ UNCHANGED <<lock, op, call, calls, process, reported, hello, pipes, decided, faults>>

\* _fail_closed closes the supervisor that everyone shares.
FailClosed(c) ==
    /\ pc[c] = "refuse" /\ lock = Nobody
    /\ lock' = c /\ Goto(c, "stop")
    /\ UNCHANGED <<op, call, calls, outcome, process, reported, hello, pipes, decided, faults>>

-----------------------------------------------------------------------------
(* The Core process                                                         *)

\* Core takes a request and answers it.
Serve(body, fault) ==
    /\ Running /\ hung = "no" /\ inbox # <<>>
    /\ LET r == Head(inbox) IN
        /\ Either(fault)
        /\ outbox' = Append(outbox, [r EXCEPT !.body = body,
                                              !.id = IF fault = "foreign" THEN "foreign" ELSE @])
        /\ verdict' = IF r.call = 0 THEN verdict
                      ELSE [verdict EXCEPT ![r.call] = IF body = "garbage" THEN "none" ELSE body]
        /\ up' = IF r.id = "shutdown" /\ body = "ok" THEN up \ {proc} ELSE up
    /\ inbox' = Tail(inbox)
    /\ UNCHANGED <<lock, threads, spawned, proc, hung, trait, guar, reported, hello, refused>>

Answer == \E body \in {"ok", "error", "retryable"} : Serve(body, "none")

\* A frame or an envelope that cannot be decoded.
GarbledAnswer == Serve("garbage", "garbage")

\* An envelope with another request's id.
ForeignAnswer == Serve("ok", "foreign")

\* A result that the contract of its operation does not accept.
MalformedAnswer == Serve("malformed", "malformed")

\* Core stops reading: a defect of its own, or its standard error, which
\* _drain_stderr does not empty while an exchange holds the lock, is full.
Hang ==
    /\ Fault("hang") /\ Running
    /\ hung' = "yes"
    /\ UNCHANGED <<lock, threads, spawned, proc, up, trait, guar, reported, hello, pipes, decided>>

Crash ==
    /\ Fault("crash") /\ Running
    /\ up' = up \ {proc}
    /\ UNCHANGED <<lock, threads, spawned, proc, hung, trait, guar, reported, hello, pipes, decided>>

Step(c) ==
    \/ Lock(c) \/ Busy(c) \/ StartRunning(c) \/ SpawnRefused(c) \/ SpawnFails(c) \/ Spawn(c)
    \/ SendHandshake(c) \/ SendRequest(c) \/ SendFails(c)
    \/ ReadHandshake(c) \/ HandshakeRefused(c)
    \/ ReadAnswer(c) \/ ReadRefused(c) \/ Timeout(c) \/ EndOfFile(c)
    \/ SendShutdown(c) \/ Stopped(c) \/ Judge(c) \/ FailClosed(c)

Next ==
    \/ \E c \in Clients : \/ \E m \in Methods : Ask(c, m)
                          \/ Invalid(c) \/ Step(c)
    \/ Answer \/ GarbledAnswer \/ ForeignAnswer \/ MalformedAnswer \/ Hang \/ Crash

Spec == Init /\ [][Next]_vars

\* The threads run; a timeout bounds every read; Core answers unless it hangs.
FairSpec == Spec /\ (\A c \in Clients : WF_vars(Step(c))) /\ WF_vars(Answer)

-----------------------------------------------------------------------------
(* Properties                                                               *)

\* What a caller is told of its request is what Core decided on this very call:
\* the answer to an earlier request with the same id, still in the pipe when
\* that one timed out, is never taken for it (request ends the process).  One
\* rejection is not about the call: a final error of Core to the handshake of
\* the process that the call starts reaches the caller as a rejection of its
\* command, which Core has not seen (start, request, _request).
VerdictIsCores ==
    \A c \in Clients : op[c] \in AllOperations =>
        /\ outcome[c] = "ok" =>
            \/ verdict[call[c]] = "ok"
            \/ verdict[call[c]] = "malformed" /\ op[c] \in Unchecked
        /\ outcome[c] = "rejected" => verdict[call[c]] = "error" \/ call[c] \in refused

\* No Core process runs but the one the supervisor talks to, so two never have
\* the Core database open: every path that drops _process ends it first.
OneCore == up \subseteq {proc}

\* Only a Core whose handshake showed the supported protocol gets a request,
\* after crashes, restarts and handshakes that failed half way too (start).
ServedByGreeted ==
    \A i \in 1..Len(inbox) :
        inbox[i].call # 0 => greeted = proc /\ trait # "other_protocol"

\* What the supervisor reports of the isolation is what the running Core was
\* started with, and under a strict policy a Core that was restarted on a host
\* whose sandbox no longer works does not run (_spawn_locked, _finish_plan).
Isolated ==
    Running => reported = guar /\ (Strict => Missing(guar) = {})

\* What is known of the process that serves requests: it is the only one, it was
\* greeted, and it runs in the isolation that is reported.
CoreIsKnown == TypeOK /\ OneCore /\ ServedByGreeted /\ Isolated

\* No thread waits for ever for Core or for the lock: every exchange ends with
\* an answer, a timeout or the end of the pipe, and gives the lock back.
EveryCallReturns == \A c \in Clients : pc[c] # "idle" ~> pc[c] = "idle"
=============================================================================
