------------------------- MODULE RuntimeLifecycle -------------------------
(***************************************************************************)
(* The life of one Local service process: serve (cli.py), LocalRuntime's   *)
(* start_capture, finish_start, request_stop and stop (bootstrap.py) and   *)
(* the guarded worker loops (scheduler/guarded_loop.py, worker_state.py).  *)
(*                                                                         *)
(* Three kinds of thread run: the main thread, the startup thread that     *)
(* runs finish_start while HTTP already serves, and one thread per worker. *)
(* A worker is its position in _WORKER_ORDER.  Two-valued attributes hold  *)
(* "yes" or "no".                                                          *)
(***************************************************************************)
EXTENDS Integers

CONSTANTS
    N,          \* number of enabled workers, in _WORKER_ORDER
    NeedsCore,  \* positions of core_commands and core_model_tasks
    Secure      \* core_security.profile = "secure"

Workers == 1..N

ASSUME LifecycleAssumption ==
    /\ N \in Nat
    /\ NeedsCore \subseteq Workers
    /\ Secure \in BOOLEAN

VARIABLES
    main,            \* where the main thread is
    idx,             \* worker that stop() looks at next, counting down
    late,            \* timed_out_workers of the running stop()
    lock,            \* service lock file: "free", "held", or "stale" after a kill
    gateway,         \* core_gateway: "open", or "none"
    core_ready,      \* _core_ready
    started,         \* _started
    starting,        \* _starting
    stop_requested,  \* _stop_requested
    initialized,     \* _initialization_complete
    incomplete,      \* _shutdown_incomplete
    registered,      \* keys of _workers
    errors,          \* workers in _component_errors
    sp,              \* where the startup thread is
    si,              \* worker that _start_workers looks at next
    wpc,             \* where each worker thread is
    wstop,           \* the stop event of each loop
    stopping,        \* WorkerState.stopping
    timed_out,       \* WorkerState.shutdown_timed_out
    overdue,         \* history: serve's join of the startup thread has timed out
    unseen           \* history: the workers without a handle at that moment

serving == <<main, idx, late>>
resources == <<lock, gateway, core_ready>>
flags == <<started, starting, stop_requested, initialized, incomplete>>
handles == <<registered, errors>>
startup == <<sp, si>>
loops == <<wpc, wstop, stopping, timed_out>>
outlived == <<overdue, unseen>>
vars == <<serving, resources, flags, handles, startup, loops, outlived>>

YesNo == {"yes", "no"}
Alive(w) == wpc[w] \notin {"none", "ended"}

TypeOK ==
    /\ main \in {"down", "acquire", "migrate", "core", "captured", "serving", "join",
                 "shutdown", "joining", "expired", "close", "release", "stopped"}
    /\ idx \in 0..N
    /\ late \subseteq Workers
    /\ lock \in {"free", "held", "stale"}
    /\ gateway \in {"none", "open"}
    /\ core_ready \in YesNo /\ started \in YesNo /\ starting \in YesNo
    /\ stop_requested \in YesNo /\ initialized \in YesNo /\ incomplete \in YesNo
    /\ registered \subseteq Workers
    /\ errors \subseteq Workers
    /\ sp \in {"none", "enter", "refresh", "recover", "check", "start", "register",
               "finish"}
    /\ si \in 1..(N + 1)
    /\ sp = "register" => si \in Workers
    /\ main \in {"joining", "expired"} => idx \in Workers
    /\ wpc \in [Workers -> {"none", "top", "begin", "working", "waiting", "closing",
                            "ended"}]
    /\ wstop \in [Workers -> YesNo]
    /\ stopping \in [Workers -> YesNo]
    /\ timed_out \in [Workers -> YesNo]
    /\ overdue \in YesNo /\ unseen \subseteq Workers

Init ==
    /\ main = "down" /\ idx = 0 /\ late = {}
    /\ lock = "free" /\ gateway = "none" /\ core_ready = "no"
    /\ started = "no" /\ starting = "no" /\ stop_requested = "no"
    /\ initialized = "no" /\ incomplete = "no"
    /\ registered = {}
    /\ errors = {}
    /\ sp = "none" /\ si = 1
    /\ wpc = [w \in Workers |-> "none"]
    /\ wstop = [w \in Workers |-> "no"]
    /\ stopping = [w \in Workers |-> "no"]
    /\ timed_out = [w \in Workers |-> "no"]
    /\ overdue = "no" /\ unseen = {}

-----------------------------------------------------------------------------
(* start_capture, by the main thread.                                       *)

\* A new process, or start_capture again after a complete stop().  While the
\* startup thread is in finish_start it raises; after an incomplete stop() it
\* raises or, with every worker gone, runs stop() first.  serve returns after
\* its stop(): a process whose startup thread is left over starts nothing again.
StartCapture ==
    /\ main \in {"down", "stopped"}
    /\ incomplete = "no" /\ starting = "no" /\ overdue = "no"
    /\ main' = "acquire"
    /\ starting' = "yes" /\ stop_requested' = "no" /\ initialized' = "no"
    /\ core_ready' = "no"
    /\ registered' = {} /\ errors' = {}
    /\ UNCHANGED <<idx, late, lock, gateway, started, incomplete, startup, loops, outlived>>

\* _cleanup_after_failed_start: no worker exists yet.
CleanupAfterFailedStart ==
    /\ main' = "stopped"
    /\ gateway' = "none"
    /\ lock' = IF lock = "held" THEN "free" ELSE lock
    /\ started' = "no" /\ starting' = "no" /\ stop_requested' = "yes"
    /\ initialized' = "no"
    /\ UNCHANGED <<idx, late, core_ready, incomplete, handles, startup, loops, outlived>>

\* A stale lock file is replaced; ServiceLock has a module of its own.
AcquireLock ==
    /\ main = "acquire"
    /\ main' = "migrate"
    /\ lock' = "held"
    /\ UNCHANGED <<idx, late, gateway, core_ready, flags, handles, startup, loops, outlived>>

Migrate ==
    /\ main = "migrate"
    /\ main' = "core"
    /\ UNCHANGED <<idx, late, resources, flags, handles, startup, loops, outlived>>

\* The lock is taken, a migration or the integrity check fails, the pid file
\* cannot be written.
StartFails ==
    /\ main \in {"acquire", "migrate"}
    /\ CleanupAfterFailedStart

\* _start_core_if_available never raises: without Core only capture starts.
StartCore ==
    /\ main = "core"
    /\ \E ok \in YesNo :
          /\ core_ready' = ok
          /\ gateway' = IF ok = "yes" THEN "open" ELSE "none"
    /\ started' = "yes" /\ starting' = "no"
    /\ main' = "captured"
    /\ UNCHANGED <<idx, late, lock, stop_requested, initialized, incomplete, handles,
                   startup, loops, outlived>>

-----------------------------------------------------------------------------
(* serve.                                                                   *)

Serve ==
    /\ main = "captured"
    /\ Secure => core_ready = "yes"
    /\ main' = "serving"
    /\ sp' = "enter"
    /\ UNCHANGED <<idx, late, resources, flags, handles, si, loops, outlived>>

\* request_stop of the runtime: every registered loop is signalled.
RequestStop ==
    /\ stop_requested' = "yes"
    /\ wstop' = [w \in Workers |-> IF w \in registered THEN "yes" ELSE wstop[w]]
    /\ stopping' = [w \in Workers |-> IF w \in registered THEN "yes" ELSE stopping[w]]

\* Mutant: Core is closed before the workers have stopped.
BeginStop_CoreFirst ==
    /\ RequestStop
    /\ main' = "shutdown" /\ idx' = N /\ late' = {}
    /\ gateway' = "none"
    /\ UNCHANGED <<lock, core_ready, started, starting, initialized, incomplete, handles,
                   startup, wpc, timed_out>>

\* stop() begins with request_stop and goes through the workers in reverse.
BeginStop ==
    /\ RequestStop
    /\ main' = "shutdown" /\ idx' = N /\ late' = {}
    /\ UNCHANGED <<resources, started, starting, initialized, incomplete, handles,
                   startup, wpc, timed_out>>

\* The secure profile does not serve without Core or on an unrecovered restore.
RefuseToServe ==
    /\ main = "captured"
    /\ Secure
    /\ BeginStop
    /\ UNCHANGED outlived

ServerExits ==
    /\ main = "serving"
    /\ RequestStop
    /\ main' = "join"
    /\ UNCHANGED <<idx, late, resources, started, starting, initialized, incomplete,
                   handles, startup, wpc, timed_out, outlived>>

\* startup_thread.join(timeout=WORKER_SHUTDOWN_TIMEOUT_SECONDS), then stop(),
\* whether or not the thread is over.
JoinStartup ==
    /\ main = "join"
    /\ BeginStop
    /\ overdue' = IF sp = "none" THEN overdue ELSE "yes"
    /\ unseen' = IF sp = "none" THEN unseen ELSE Workers \ registered

\* "A later stop() can finish the join."
StopLater ==
    /\ main = "stopped"
    /\ incomplete = "yes"
    /\ BeginStop
    /\ UNCHANGED outlived

-----------------------------------------------------------------------------
(* stop(): loop.shutdown() of each worker, then the resources.              *)

SkipWorker ==
    /\ main = "shutdown"
    /\ idx > 0 /\ idx \notin registered
    /\ idx' = idx - 1
    /\ UNCHANGED <<main, late, resources, flags, handles, startup, loops, outlived>>

SignalWorker ==
    /\ main = "shutdown"
    /\ idx \in registered
    /\ main' = "joining"
    /\ wstop' = [wstop EXCEPT ![idx] = "yes"]
    /\ stopping' = [stopping EXCEPT ![idx] = "yes"]
    /\ UNCHANGED <<idx, late, resources, flags, handles, startup, wpc, timed_out, outlived>>

WorkerJoined ==
    /\ main = "joining"
    /\ ~Alive(idx)
    /\ main' = "shutdown" /\ idx' = idx - 1
    /\ stopping' = [stopping EXCEPT ![idx] = "no"]
    /\ UNCHANGED <<late, resources, flags, handles, startup, wpc, wstop, timed_out, outlived>>

\* Mutant: join() without a timeout.
JoinExpires_Never == FALSE

\* The join times out and is_alive() says so.
JoinExpires ==
    /\ main = "joining"
    /\ Alive(idx)
    /\ main' = "expired"
    /\ UNCHANGED <<idx, late, resources, flags, handles, startup, loops, outlived>>

\* mark_shutdown_timed_out.
MarkTimedOut ==
    /\ main = "expired"
    /\ main' = "shutdown" /\ idx' = idx - 1 /\ late' = late \cup {idx}
    /\ errors' = errors \cup {idx}
    /\ stopping' = [stopping EXCEPT ![idx] = "yes"]
    /\ timed_out' = [timed_out EXCEPT ![idx] = "yes"]
    /\ UNCHANGED <<resources, flags, registered, startup, wpc, wstop, outlived>>

\* Mutant: the handles are dropped.
StopIncomplete_DropsHandles ==
    /\ main = "shutdown" /\ idx = 0
    /\ late # {}
    /\ incomplete' = "yes" /\ started' = "no"
    /\ registered' = {}
    /\ main' = "stopped"
    /\ UNCHANGED <<idx, late, resources, starting, stop_requested, initialized, errors, startup,
                   loops, outlived>>

\* Handles, gateway and lock are kept for the workers that are still alive.
StopIncomplete ==
    /\ main = "shutdown" /\ idx = 0
    /\ late # {}
    /\ incomplete' = "yes" /\ started' = "no"
    /\ main' = "stopped"
    /\ UNCHANGED <<idx, late, resources, starting, stop_requested, initialized,
                   handles, startup, loops, outlived>>

AllStopped ==
    /\ main = "shutdown" /\ idx = 0
    /\ late = {}
    /\ incomplete' = "no"
    /\ registered' = {}
    /\ main' = "close"
    /\ UNCHANGED <<idx, late, resources, started, starting, stop_requested, initialized,
                   errors, startup, loops, outlived>>

CloseGateway ==
    /\ main = "close"
    /\ gateway' = "none"
    /\ main' = "release"
    /\ UNCHANGED <<idx, late, lock, core_ready, flags, handles, startup, loops, outlived>>

\* The pid file and the lock go; the runtime may be started again.
ReleaseLock ==
    /\ main = "release"
    /\ lock' = "free"
    /\ started' = "no" /\ initialized' = "no" /\ stop_requested' = "no"
    /\ main' = "stopped"
    /\ UNCHANGED <<idx, late, gateway, core_ready, starting, incomplete, handles,
                   startup, loops, outlived>>

\* serve has returned, or the process is killed: its threads and its memory are
\* gone, a lock file that was held is left behind.
ProcessEnds ==
    /\ main # "down"
    /\ main' = "down" /\ idx' = 0 /\ late' = {}
    /\ lock' = IF lock = "held" THEN "stale" ELSE lock
    /\ gateway' = "none" /\ core_ready' = "no"
    /\ started' = "no" /\ starting' = "no" /\ stop_requested' = "no"
    /\ initialized' = "no" /\ incomplete' = "no"
    /\ registered' = {} /\ errors' = {}
    /\ sp' = "none" /\ si' = 1
    /\ wpc' = [w \in Workers |-> "none"]
    /\ wstop' = [w \in Workers |-> "no"]
    /\ stopping' = [w \in Workers |-> "no"]
    /\ timed_out' = [w \in Workers |-> "no"]
    /\ overdue' = "no" /\ unseen' = {}

-----------------------------------------------------------------------------
(* finish_start, by the startup thread.                                     *)

\* finish_start raises unless the capture plane is started and nobody else is
\* starting it; initialized, it returns at once.
EnterFinishStart ==
    /\ sp = "enter"
    /\ IF initialized = "no" /\ started = "yes" /\ starting = "no"
       THEN sp' = "refresh" /\ starting' = "yes"
       ELSE sp' = "none" /\ UNCHANGED starting
    /\ UNCHANGED <<serving, resources, started, stop_requested, initialized, incomplete,
                   handles, si, loops, outlived>>

\* _refresh_object_facet_health: "can take tens of seconds on a large database".
Refresh ==
    /\ sp = "refresh"
    /\ sp' = "recover"
    /\ UNCHANGED <<serving, resources, flags, handles, si, loops, outlived>>

\* The recovery of failed provider capabilities is left out once a stop is
\* requested; it touches nothing that is modelled here.
RecoverCapabilities ==
    /\ sp = "recover"
    /\ sp' = "check"
    /\ UNCHANGED <<serving, resources, flags, handles, si, loops, outlived>>

FinishStartFails ==
    /\ sp \in {"refresh", "recover"}
    /\ sp = "recover" => stop_requested = "no"
    /\ sp' = "none" /\ starting' = "no"
    /\ UNCHANGED <<serving, resources, started, stop_requested, initialized, incomplete,
                   handles, si, loops, outlived>>

\* The one test of _stop_requested before _start_workers.
CheckStop ==
    /\ sp = "check"
    /\ sp' = IF stop_requested = "no" THEN "start" ELSE "finish"
    /\ si' = 1
    /\ UNCHANGED <<serving, resources, flags, handles, loops, outlived>>

\* _core_ready, then the gateway itself when the worker is built.
CanBuild(w) == w \in NeedsCore => core_ready = "yes" /\ gateway = "open"

\* Core is not ready, or building the worker raises: it is left out with its error.
SkipStart ==
    /\ sp = "start"
    /\ si \in Workers
    /\ errors' = errors \cup {si}
    /\ si' = si + 1
    /\ UNCHANGED <<serving, resources, flags, registered, sp, loops, outlived>>

\* _start_worker_loop: the thread runs before its handle is registered.
StartLoop ==
    /\ sp = "start"
    /\ si \in Workers /\ CanBuild(si)
    /\ sp' = "register"
    /\ wpc' = [wpc EXCEPT ![si] = "top"]
    /\ wstop' = [wstop EXCEPT ![si] = "no"]
    /\ stopping' = [stopping EXCEPT ![si] = "no"]
    /\ timed_out' = [timed_out EXCEPT ![si] = "no"]
    /\ UNCHANGED <<serving, resources, flags, handles, si, outlived>>

Register ==
    /\ sp = "register"
    /\ registered' = registered \cup {si}
    /\ sp' = "start" /\ si' = si + 1
    /\ UNCHANGED <<serving, resources, flags, errors, loops, outlived>>

WorkersStarted ==
    /\ sp = "start"
    /\ si > N
    /\ sp' = "finish"
    /\ UNCHANGED <<serving, resources, flags, handles, si, loops, outlived>>

\* Mutant: the stop request is not looked at.
FinishStart_Always ==
    /\ sp = "finish"
    /\ initialized' = "yes" /\ starting' = "no"
    /\ sp' = "none"
    /\ UNCHANGED <<serving, resources, started, stop_requested, incomplete, handles,
                   si, loops, outlived>>

FinishStart ==
    /\ sp = "finish"
    /\ initialized' = IF stop_requested = "no" THEN "yes" ELSE "no"
    /\ starting' = "no"
    /\ sp' = "none"
    /\ UNCHANGED <<serving, resources, started, stop_requested, incomplete, handles,
                   si, loops, outlived>>

-----------------------------------------------------------------------------
(* GuardedWorkerLoop.run, by the thread of worker w.                        *)

MoveWorker(w, from, to) ==
    /\ wpc[w] = from
    /\ wpc' = [wpc EXCEPT ![w] = to]
    /\ UNCHANGED <<serving, resources, flags, handles, startup, wstop, outlived>>

\* while not self._stop.is_set().
LoopTest(w) ==
    /\ MoveWorker(w, "top", IF wstop[w] = "yes" THEN "closing" ELSE "begin")
    /\ UNCHANGED <<stopping, timed_out, outlived>>

\* mark_started, whatever was marked since the test.
MarkStarted(w) ==
    /\ MoveWorker(w, "begin", "working")
    /\ stopping' = [stopping EXCEPT ![w] = "no"]
    /\ timed_out' = [timed_out EXCEPT ![w] = "no"]

\* Mutant: an iteration that raises is tried again at once.
IterationEnds_RetriesAtOnce(w) ==
    /\ \E to \in {"begin", "waiting"} : MoveWorker(w, "working", to)
    /\ UNCHANGED <<stopping, timed_out, outlived>>

\* process_once returns or raises; the result or the error is published.
IterationEnds(w) ==
    /\ MoveWorker(w, "working", "waiting")
    /\ UNCHANGED <<stopping, timed_out, outlived>>

\* _stop.wait() of the poll interval or of the backoff runs out.
WaitOver(w) ==
    /\ MoveWorker(w, "waiting", "top")
    /\ wstop[w] = "no"
    /\ UNCHANGED <<stopping, timed_out, outlived>>

WaitStopped(w) ==
    /\ wstop[w] = "yes"
    /\ MoveWorker(w, "waiting", "closing")
    /\ UNCHANGED <<stopping, timed_out, outlived>>

\* close() of the worker and mark_stopped; the thread ends.
LoopEnds(w) ==
    /\ MoveWorker(w, "closing", "ended")
    /\ stopping' = [stopping EXCEPT ![w] = "no"]
    /\ UNCHANGED timed_out

-----------------------------------------------------------------------------
StopStep ==
    \/ JoinStartup \/ SkipWorker \/ SignalWorker \/ WorkerJoined \/ JoinExpires
    \/ MarkTimedOut \/ StopIncomplete \/ AllStopped \/ CloseGateway \/ ReleaseLock

StartupStep ==
    \/ EnterFinishStart \/ Refresh \/ RecoverCapabilities \/ FinishStartFails
    \/ CheckStop \/ SkipStart \/ StartLoop \/ Register \/ WorkersStarted \/ FinishStart

LoopControl(w) ==
    LoopTest(w) \/ MarkStarted(w) \/ WaitOver(w) \/ WaitStopped(w) \/ LoopEnds(w)

Next ==
    \/ StartCapture \/ AcquireLock \/ Migrate \/ StartFails \/ StartCore
    \/ Serve \/ RefuseToServe \/ ServerExits \/ StopLater
    \/ StopStep
    \/ StartupStep
    \/ \E w \in Workers : LoopControl(w) \/ IterationEnds(w)
    \/ ProcessEnds

Spec == Init /\ [][Next]_vars

(* The main thread goes on once a stop has begun, and so do the startup     *)
(* thread and the loops; only an iteration may hang in process_once.        *)
FairSpec ==
    /\ Spec
    /\ WF_vars(StopStep)
    /\ WF_vars(StartupStep)
    /\ \A w \in Workers : WF_vars(LoopControl(w))

-----------------------------------------------------------------------------
(* Properties.                                                              *)

\* "Stop workers before Core": a worker thread that is alive has the service
\* lock and the gateway it was built with, however start, stop and timeouts
\* interleave, unless serve's join of the startup thread timed out before the
\* worker had its handle: stop() cannot see such a worker, which then runs on
\* without lock or Core (stop, _start_workers, serve).
ResourcesOutliveWorkers ==
    \A w \in Workers \ unseen :
        Alive(w) => lock = "held" /\ (w \in NeedsCore => gateway = "open")

\* An incomplete stop() keeps the handle of every worker that is still alive,
\* so that "a later stop() can finish the join", but for those that had none
\* when the join of the startup thread timed out.
LateWorkersKeepHandles ==
    \A w \in Workers \ unseen : incomplete = "yes" /\ Alive(w) => w \in registered

\* When stop() or a failed start is over, nothing is left behind: the lock is
\* given up and Core is closed, unless the stop is incomplete.
NothingLeftBehind ==
    main = "stopped" /\ incomplete = "no" => lock # "held" /\ gateway = "none"

\* initialization_complete: every worker was started or is reported with its
\* error, until stop() drops the handles.  A background start that races the
\* stop never claims it while the stop runs; one that outlives the join claims
\* it, wrongly, only once stop() is over and has reset the request it should
\* have seen (finish_start, request_stop, serve).
InitializedMeansStarted ==
    initialized = "yes" /\ main \notin {"close", "release"} =>
        \/ Workers \subseteq registered \cup errors
        \/ overdue = "yes" /\ main = "stopped" /\ incomplete = "no"

\* A complete stop() leaves no worker marked as stopping: "a repeated/idempotent
\* shutdown request must not re-leave a completed worker marked as stopping".
NoneLeftStopping ==
    main = "stopped" /\ incomplete = "no" => \A w \in Workers : stopping[w] = "no"

\* What stop() leaves: handles of the workers that are late, or neither lock nor
\* Core nor marks (stop, _cleanup_after_failed_start).
CleanStop ==
    TypeOK /\ LateWorkersKeepHandles /\ NothingLeftBehind /\ NoneLeftStopping

\* Every shutdown of the service comes to an end, even when a worker hangs
\* (stop, loop.shutdown with its timeout).
ShutdownEnds ==
    main = "join" ~> main \in {"stopped", "down"}

\* A worker whose loop was told to stop ends, whatever its iterations raise,
\* unless it hangs in one of them for ever (GuardedWorkerLoop.run).
SignalledWorkersEnd ==
    \A w \in Workers :
        (wstop[w] = "yes" /\ Alive(w)) ~> (~Alive(w) \/ [](wpc[w] = "working"))
=============================================================================
