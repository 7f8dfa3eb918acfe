--------------------------- MODULE RuntimeLeases ---------------------------
(***************************************************************************)
(* The on-demand runtime: leases of agent sessions (runtime/leases.py),    *)
(* the supervisor that starts and stops Local and the embedding server     *)
(* (runtime/supervisor.py, process.py, shutdown.py, state.py), its         *)
(* detached idle watcher, and the update barrier (installer/operations/    *)
(* update.py).                                                             *)
(*                                                                         *)
(* Every operation of a supervisor holds runtime.lock (installer/lock.py), *)
(* so at most one is in progress; it may be killed between two steps, and  *)
(* sessions, work, children and time go on beside it.  A record of a child *)
(* names its pid and birth tick: rec and reg are the children whose        *)
(* present incarnation a file names.                                       *)
(***************************************************************************)
EXTENDS Integers

CONSTANTS
    Sessions,   \* (client, session_id) pairs
    Commands,   \* names of the managed processes
    Ttl,        \* lease_ttl_seconds
    Grace,      \* idle_shutdown_seconds of the configuration
    DefaultGrace, \* the constructor's default idle_shutdown_seconds
    AlwaysOn,   \* residency_mode = "always_on"
    Fallible,   \* the kinds of fault that may happen
    MaxFaults   \* bound: faults in one behaviour

FaultKinds ==
    {"kill", "popen", "start", "crash", "reaper", "probe", "timeout"}

ASSUME LeasesAssumption ==
    /\ "local" \in Commands
    /\ Ttl \in Nat \ {0}
    /\ Grace \in Nat /\ DefaultGrace \in Nat
    /\ AlwaysOn \in BOOLEAN
    /\ Fallible \subseteq FaultKinds
    /\ MaxFaults \in Nat

\* Times are told apart up to the longer grace period.
Cap == IF Grace > DefaultGrace THEN Grace ELSE DefaultGrace

VARIABLES
    lease,    \* seconds left of each session's lease file; 0: expired, -1: no file
    idle,     \* now - idle_since of runtime.json up to Cap, -1 without it
    running,  \* running of runtime.json
    rec,      \* processes of runtime.json
    reg,      \* processes.json
    alive,    \* managed processes that run
    orphan,   \* names of which an earlier incarnation runs that no file names
    reaper,   \* the process of idle_reaper_pid: "none", "watching" or "leaving"
    barrier,  \* the file update-in-progress: "absent" or "present"
    update,   \* where the update is
    work,     \* leased tasks or pending writes in Local or Core: "yes" or "no"
    op,       \* the operation that holds runtime.lock
    step,     \* its next step
    who,      \* the session it is for
    granted,  \* sessions with an active lease whose acquire or heartbeat has
              \* returned, in the bridge: which a later operation has seen
    quiet,    \* seconds up to Cap since a granted lease was last active
    left,     \* history: names whose supervisor was killed, or whose next Popen
              \* failed, after they were started and before they were registered
    replaced, \* history: names of which such a process has a successor
    faults

files == <<idle, running, rec, reg>>
children == <<alive, orphan>>
updating == <<barrier, update>>
history == <<granted, quiet>>
window == <<left, replaced>>
past == <<history, window>>
leasevars == <<lease, files, children, reaper, updating, work, op, step, who, past, faults>>

Ops == {"none", "acquire", "heartbeat", "release", "status", "doctor", "reap",
        "stop", "update"}

LeasesTypeOK ==
    /\ lease \in [Sessions -> -1..Ttl]
    /\ idle \in -1..Cap
    /\ running \in {"yes", "no"}
    /\ rec \in SUBSET Commands /\ reg \in SUBSET Commands
    /\ alive \in SUBSET Commands /\ orphan \in SUBSET Commands
    /\ reaper \in {"none", "watching", "leaving"}
    /\ barrier \in {"absent", "present"}
    /\ update \in {"none", "stopping", "installing"}
    /\ work \in {"yes", "no"}
    /\ op \in Ops
    /\ step \in {"free", "reconcile", "survivors", "spawn", "register", "wait", "abort",
               "write", "clear", "watcher", "boundary", "confirm", "stop"}
    /\ op = "none" <=> step = "free"
    /\ who \in Sessions
    /\ granted \in SUBSET Sessions
    /\ quiet \in 0..Cap
    /\ left \in SUBSET Commands /\ replaced \in SUBSET Commands
    /\ faults \in Nat

InitLeases ==
    /\ lease = [s \in Sessions |-> -1]
    /\ idle = -1 /\ running = "no" /\ rec = {} /\ reg = {}
    /\ alive = {} /\ orphan = {}
    /\ reaper = "none"
    /\ barrier = "absent" /\ update = "none"
    /\ work = "no"
    /\ op = "none" /\ step = "free" /\ who \in Sessions
    /\ granted = {} /\ quiet = Cap
    /\ left = {} /\ replaced = {}
    /\ faults = 0

-----------------------------------------------------------------------------
Active == {s \in Sessions : lease[s] > 0}

\* reap_expired unlinks the expired files.
Reaped == [s \in Sessions |-> IF lease[s] > 0 THEN lease[s] ELSE -1]

\* LeaseStore.acquire: one lease for each session, refreshed by a retry.
Renewed(s) == [Reaped EXCEPT ![s] = Ttl]

\* LeaseStore.heartbeat: from now on, with the lease's own time to live.
Extended(s) == [lease EXCEPT ![s] = Ttl]

\* LeaseStore.release, and active, which unlinks the expired files.
Dropped(s) == [Reaped EXCEPT ![s] = -1]

Fault(kind) ==
    /\ kind \in Fallible
    /\ faults < MaxFaults
    /\ faults' = faults + 1

\* The operation takes runtime.lock.
Enter(name, label) ==
    /\ op = "none"
    /\ op' = name /\ step' = label

Continue(label) == step' = label /\ UNCHANGED op
Done == op' = "none" /\ step' = "free"

\* Automatic shutdown, grace period and commands of the supervisor that runs
\* the operation: doctor and ledgermind status build one with the defaults.
Automatic == op = "doctor" \/ ~AlwaysOn
GraceOf == IF op = "doctor" THEN DefaultGrace ELSE Grace
Needed == IF op = "doctor" THEN {"local"} ELSE Commands

\* watch_idle has returned and the process ends.
WatcherLeaves == reaper' = IF op = "reap" THEN "leaving" ELSE reaper

\* _registered_processes and _live_records: pid and birth tick are verified.
Known == alive \cap (rec \cup reg)

-----------------------------------------------------------------------------
(* The operations begin.                                                    *)

\* A session's lease is created or refreshed.
AcquireLease(s) ==
    /\ barrier = "absent"
    /\ Enter("acquire", "reconcile")
    /\ who' = s
    /\ lease' = Renewed(s)
    /\ UNCHANGED <<files, children, reaper, updating, work, past, faults>>

Heartbeat(s) ==
    /\ barrier = "absent"
    /\ lease[s] > 0
    /\ Enter("heartbeat", "reconcile")
    /\ who' = s
    /\ lease' = Extended(s)
    /\ UNCHANGED <<files, children, reaper, updating, work, past, faults>>

\* A heartbeat that comes too late removes the lease and raises.
HeartbeatExpired(s) ==
    /\ op = "none"
    /\ barrier = "absent"
    /\ lease[s] = 0
    /\ lease' = [lease EXCEPT ![s] = -1]
    /\ UNCHANGED <<files, children, reaper, updating, work, op, step, who, past, faults>>

\* The last release records the processes before it looks at the idle boundary.
ReleaseLease(s) ==
    /\ Enter("release", IF Active \ {s} = {} THEN "boundary" ELSE "write")
    /\ who' = s
    /\ lease' = Dropped(s)
    /\ rec' = IF Active \ {s} = {} THEN Known ELSE rec
    /\ granted' = granted \ {s}
    /\ UNCHANGED <<idle, running, reg, children, reaper, updating, work, quiet, window, faults>>

\* The lease bridge inside Local: process_owner = False.  It leaves runtime.json
\* alone, idle_since included, until another operation sees the lease.
BridgeAcquire(s) ==
    /\ op = "none" /\ "local" \in alive
    /\ barrier = "absent"
    /\ lease' = Renewed(s)
    /\ UNCHANGED <<files, children, reaper, updating, work, op, step, who, past, faults>>

BridgeHeartbeat(s) ==
    /\ op = "none" /\ "local" \in alive
    /\ barrier = "absent" /\ lease[s] > 0
    /\ lease' = Extended(s)
    /\ UNCHANGED <<files, children, reaper, updating, work, op, step, who, past, faults>>

BridgeRelease(s) ==
    /\ op = "none" /\ "local" \in alive
    /\ lease' = Dropped(s)
    /\ granted' = granted \ {s}
    /\ UNCHANGED <<files, children, reaper, updating, work, op, step, who, quiet, window,
                   faults>>

\* ledgermind runtime status; "doctor" is ledgermind doctor or ledgermind status.
Status ==
    /\ \E name \in {"status", "doctor"} : Enter(name, "reconcile")
    /\ lease' = Reaped
    /\ UNCHANGED <<files, children, reaper, updating, work, who, past, faults>>

\* One round of watch_idle.
Watch ==
    /\ reaper = "watching"
    /\ Enter("reap", "reconcile")
    /\ lease' = Reaped
    /\ UNCHANGED <<files, children, reaper, updating, work, who, past, faults>>

\* ledgermind runtime stop, configure, uninstall.
ForceStop ==
    /\ Enter("stop", "stop")
    /\ UNCHANGED <<lease, files, children, reaper, updating, work, who, past, faults>>

-----------------------------------------------------------------------------
(* The steps of an operation.                                               *)

\* _reconcile_process_state: both files are brought up to what is alive.
Reconcile ==
    /\ step = "reconcile"
    /\ reg' = Known
    /\ LET complete == Needed \subseteq Known
       IN  /\ running' = IF complete THEN "yes" ELSE "no"
           /\ rec' = IF complete \/ running = "yes" \/ rec # {} THEN Known ELSE rec
           /\ CASE op \in {"acquire", "heartbeat"} ->
                     /\ Continue(IF complete THEN "write" ELSE "survivors")
                     /\ UNCHANGED reaper
                [] op \notin {"acquire", "heartbeat"} /\ complete ->
                     Continue("boundary") /\ UNCHANGED reaper
                [] OTHER -> Done /\ WatcherLeaves
    /\ UNCHANGED <<lease, idle, children, updating, work, who, past, faults>>

\* Mutant: replacements are started beside the survivors.
Survivors_KeptAlive ==
    /\ step = "survivors"
    /\ reg' = {}
    /\ Continue("spawn")
    /\ UNCHANGED <<lease, idle, running, rec, children, reaper, updating, work, who,
                   past, faults>>

\* _start: "Never spawn replacements alongside those verified survivors".
Survivors ==
    /\ step = "survivors"
    /\ alive' = alive \ reg
    /\ reg' = {}
    /\ Continue("spawn")
    /\ UNCHANGED <<lease, idle, running, rec, orphan, reaper, updating, work, who,
                   past, faults>>

\* A name that is still running gets a second incarnation.
Spawn ==
    /\ step = "spawn"
    /\ alive' = Commands /\ orphan' = orphan \cup alive
    /\ rec' = {} /\ reg' = {}
    /\ left' = {} /\ replaced' = replaced \cup left
    /\ Continue("register")
    /\ UNCHANGED <<lease, idle, running, reaper, updating, work, who, history, faults>>

\* acquire gives the lease back when the runtime or its watcher did not start.
GiveBack ==
    /\ lease' = IF op = "acquire" THEN [lease EXCEPT ![who] = -1] ELSE lease
    /\ granted' = IF op = "acquire" THEN granted \ {who} ELSE granted
    /\ UNCHANGED quiet

\* Popen raises, for the first child or for a later one: those that were
\* started are in no file.
SpawnFails ==
    /\ step = "spawn"
    /\ Fault("popen")
    /\ \E new \in (SUBSET Commands) \ {Commands} :
         /\ alive' = alive \cup new /\ orphan' = orphan \cup (alive \cap new)
         /\ rec' = rec \ new /\ reg' = reg \ new
         /\ left' = left \cup new /\ replaced' = replaced \cup (left \cap new)
    /\ GiveBack
    /\ Done
    /\ UNCHANGED <<idle, running, reaper, updating, work, who>>

RegisterProcesses ==
    /\ step = "register"
    /\ reg' = alive
    /\ Continue("wait")
    /\ UNCHANGED <<lease, idle, running, rec, children, reaper, updating, work, who,
                   past, faults>>

\* _wait_for_owned_local: the authenticated ping is answered.
Ready ==
    /\ step = "wait"
    /\ "local" \in alive
    /\ Continue("write")
    /\ UNCHANGED <<lease, files, children, reaper, updating, work, who, past, faults>>

NotReady ==
    /\ step = "wait"
    /\ IF "local" \in alive THEN Fault("start") ELSE UNCHANGED faults
    /\ Continue("abort")
    /\ UNCHANGED <<lease, files, children, reaper, updating, work, who, past>>

\* Its own children are stopped.
Abort ==
    /\ step = "abort"
    /\ alive' = alive \ reg
    /\ reg' = {} /\ rec' = {} /\ running' = "no"
    /\ GiveBack
    /\ Done
    /\ UNCHANGED <<idle, orphan, reaper, updating, work, who, window, faults>>

\* _write(running=True), by release as well while other leases are active.
Write ==
    /\ step = "write"
    /\ running' = "yes" /\ rec' = Known
    /\ Continue("clear")
    /\ UNCHANGED <<lease, idle, reg, children, reaper, updating, work, who, past, faults>>

\* Mutant: a grace period that has begun goes on.
ClearIdle_Kept ==
    /\ step = "clear"
    /\ IF op = "release" THEN Done ELSE Continue("watcher")
    /\ UNCHANGED <<lease, files, children, reaper, updating, work, who, past, faults>>

\* _set_idle_since(None).
ClearIdle ==
    /\ step = "clear"
    /\ idle' = -1
    /\ IF op = "release" THEN Done ELSE Continue("watcher")
    /\ UNCHANGED <<lease, running, rec, reg, children, reaper, updating, work, who,
                   past, faults>>

\* The lease goes to its session.
Grant ==
    IF op = "release" \/ lease[who] <= 0
    THEN UNCHANGED history
    ELSE granted' = granted \cup {who} /\ quiet' = 0

\* _ensure_idle_reaper: a recorded pid that is alive counts as a watcher.
EnsureWatcher ==
    /\ step = "watcher"
    /\ reaper' = IF Automatic /\ reaper = "none" THEN "watching" ELSE reaper
    /\ Grant
    /\ Done
    /\ UNCHANGED <<lease, files, children, updating, work, who, window, faults>>

EnsureWatcherFails ==
    /\ step = "watcher"
    /\ Automatic /\ reaper = "none"
    /\ Fault("reaper")
    /\ GiveBack
    /\ Done
    /\ UNCHANGED <<files, children, reaper, updating, work, who, window>>

\* What the activity probe may answer: quiescent only without work, from a
\* Local that answers; an unanswered probe counts as work.
Quiescent(q) ==
    \/ /\ q = "yes"
       /\ work = "no" /\ "local" \in alive
       /\ UNCHANGED faults
    \/ /\ q = "no"
       /\ IF work = "no" /\ "local" \in alive THEN Fault("probe") ELSE UNCHANGED faults

\* Mutant: every quiet round starts a new grace period.
IdleBoundary_Restarts(q) == idle' = IF q = "yes" THEN 0 ELSE -1

\* _update_idle_boundary without active leases.
IdleBoundary(q) ==
    idle' = IF q = "no" THEN -1 ELSE IF idle = -1 THEN 0 ELSE idle

ShouldShutdown(idle_seconds) == idle_seconds >= GraceOf

\* The leases that hold up the idle boundary, the bridge's included.
Seen == granted' = granted \cup Active /\ quiet' = 0

\* Without a shutdown a release sees to the watcher.
GoOn == IF op = "release" THEN Continue("watcher") ELSE Done

\* The leases that were active when the operation began still have files.
Boundary ==
    /\ step = "boundary"
    /\ op = "release" \/ Needed \subseteq alive
    /\ IF \E s \in Sessions : lease[s] >= 0
       THEN idle' = -1 /\ Seen /\ Done /\ UNCHANGED faults
       ELSE UNCHANGED history /\ \E q \in {"yes", "no"} :
              /\ Quiescent(q)
              /\ IdleBoundary(q)
              /\ IF q = "yes" /\ Automatic /\ ShouldShutdown(idle')
                 THEN Continue("confirm")
                 ELSE GoOn
    /\ UNCHANGED <<lease, running, rec, reg, children, reaper, updating, work, who, window>>

\* A process ended since it was reconciled: "runtime_process_missing".
ProcessMissing ==
    /\ step = "boundary"
    /\ op # "release" /\ ~(Needed \subseteq alive)
    /\ running' = "no" /\ rec' = Known
    /\ WatcherLeaves
    /\ Done
    /\ UNCHANGED <<lease, idle, reg, children, updating, work, who, past, faults>>

\* "Re-read both lease and work state immediately before stop."
Confirm ==
    /\ step = "confirm"
    /\ lease' = Reaped
    /\ IF Active # {}
       THEN idle' = -1 /\ Seen /\ Done /\ UNCHANGED faults
       ELSE UNCHANGED history /\ \E q \in {"yes", "no"} :
              /\ Quiescent(q)
              /\ IdleBoundary(q)
              /\ IF q = "yes" THEN Continue("stop") ELSE Done
    /\ UNCHANGED <<running, rec, reg, children, reaper, updating, work, who, window>>

\* _stop: every process that a file names is stopped, then the files say so.
Stop ==
    /\ step = "stop"
    /\ alive' = alive \ (rec \cup reg)
    /\ rec' = {} /\ reg' = {} /\ running' = "no"
    /\ update' = IF op = "update" THEN "installing" ELSE update
    /\ WatcherLeaves
    /\ Done
    /\ UNCHANGED <<lease, idle, orphan, barrier, work, who, past, faults>>

-----------------------------------------------------------------------------
(* The update.                                                              *)

\* The barrier is created outside runtime.lock.
BeginUpdate ==
    /\ barrier = "absent"
    /\ barrier' = "present" /\ update' = "stopping"
    /\ UNCHANGED <<lease, files, children, reaper, work, op, step, who, past, faults>>

UpdateStops ==
    /\ update = "stopping"
    /\ Enter("update", "stop")
    /\ UNCHANGED <<lease, files, children, reaper, updating, work, who, past, faults>>

\* The release is installed or rolled back, or runtime.lock was not free in time.
EndUpdate ==
    /\ \/ update = "installing"
       \/ update = "stopping" /\ op \notin {"none", "update"}
    /\ barrier' = "absent" /\ update' = "none"
    /\ UNCHANGED <<lease, files, children, reaper, work, op, step, who, past, faults>>

\* A killed update leaves its barrier behind.
UpdateKilled ==
    /\ update # "none" /\ op # "update"
    /\ Fault("kill")
    /\ update' = "none"
    /\ UNCHANGED <<lease, files, children, reaper, barrier, work, op, step, who, past>>

-----------------------------------------------------------------------------
(* What happens around the supervisors.                                     *)

\* The process of the operation is killed; runtime.lock is free again and the
\* children go on, between Popen and the registry in no file.
Kill ==
    /\ op # "none"
    /\ Fault("kill")
    /\ left' = IF step = "register" THEN alive ELSE left
    /\ reaper' = IF op = "reap" THEN "none" ELSE reaper
    /\ update' = IF op = "update" THEN "none" ELSE update
    /\ Done
    /\ UNCHANGED <<lease, files, children, barrier, work, who, history, replaced>>

\* watch_idle does not get runtime.lock in thirty seconds and raises.
WatcherTimesOut ==
    /\ reaper = "watching" /\ op \notin {"none", "reap"}
    /\ Fault("timeout")
    /\ reaper' = "leaving"
    /\ UNCHANGED <<lease, files, children, updating, work, op, step, who, past>>

WatcherEnds ==
    /\ reaper = "leaving"
    /\ reaper' = "none"
    /\ UNCHANGED <<lease, files, children, updating, work, op, step, who, past, faults>>

ProcessDies ==
    /\ \E c \in alive : alive' = alive \ {c}
    /\ Fault("crash")
    /\ UNCHANGED <<lease, files, orphan, reaper, updating, work, op, step, who, past>>

\* Local and Core take up work, and finish it; it survives a stop.
Work ==
    /\ "local" \in alive
    /\ work' = IF work = "no" THEN "yes" ELSE "no"
    /\ UNCHANGED <<lease, files, children, reaper, updating, op, step, who, past, faults>>

Sooner(n) == IF n < Cap THEN n + 1 ELSE n

\* A second passes.
Tick ==
    /\ lease' = [s \in Sessions |-> IF lease[s] > 0 THEN lease[s] - 1 ELSE lease[s]]
    /\ idle' = IF idle = -1 THEN -1 ELSE Sooner(idle)
    /\ granted' = {s \in granted : lease[s] > 1}
    /\ quiet' = IF granted # {} THEN 0 ELSE Sooner(quiet)
    /\ UNCHANGED <<running, rec, reg, children, reaper, updating, work, op, step, who,
                   window, faults>>

-----------------------------------------------------------------------------
Step ==
    \/ Reconcile \/ Survivors \/ Spawn \/ SpawnFails \/ RegisterProcesses \/ Ready \/ NotReady \/ Abort
    \/ Write \/ ClearIdle \/ EnsureWatcher \/ EnsureWatcherFails
    \/ Boundary \/ ProcessMissing \/ Confirm \/ Stop

LeasesNext ==
    \/ \E s \in Sessions :
          \/ AcquireLease(s) \/ Heartbeat(s) \/ HeartbeatExpired(s) \/ ReleaseLease(s)
          \/ BridgeAcquire(s) \/ BridgeHeartbeat(s) \/ BridgeRelease(s)
    \/ Status \/ Watch \/ ForceStop
    \/ Step
    \/ BeginUpdate \/ UpdateStops \/ EndUpdate \/ UpdateKilled
    \/ Kill \/ WatcherTimesOut \/ WatcherEnds \/ ProcessDies
    \/ Work \/ Tick

LeasesSpec == InitLeases /\ [][LeasesNext]_leasevars

(* An operation goes on, the watcher polls again and again and gets the     *)
(* lock in the end, and time passes.                                        *)
FairLeasesSpec == LeasesSpec /\ WF_leasevars(Step) /\ SF_leasevars(Watch) /\ WF_leasevars(Tick)

-----------------------------------------------------------------------------
(* Properties.                                                              *)

\* Whenever runtime.lock is free, whatever was killed, every process that runs
\* is named by a file, so that a later stop reaches it.  One window is open: a
\* supervisor that is killed, or whose next Popen fails, after it has started a
\* process and before it has registered it leaves that process in no file; no
\* other step loses one (_start, _stop, _reconcile_process_state).
NoOrphans ==
    op = "none" => alive \subseteq rec \cup reg \cup left /\ orphan \subseteq replaced

\* "Run one update while preventing hooks from restarting the old runtime":
\* nothing runs while a release is replaced but what was left behind in that
\* window, although the barrier is created without the lock (update, acquire,
\* heartbeat).
NothingRunsDuringUpdate ==
    update = "installing" => alive \subseteq left /\ orphan \subseteq replaced

\* Processes are known when the lock is free and gone when an update needs it.
ProcessesKnown == LeasesTypeOK /\ NoOrphans /\ NothingRunsDuringUpdate

\* Hooks and the watcher stop the runtime for idleness only as configured:
\* never when it is always on, and otherwise when every lease that a client was
\* given has been gone for the whole configured grace period.  A lease of the
\* bridge counts from the first operation that sees it.  doctor and status go
\* by the constructor's defaults, whatever is configured (_update_idle_boundary,
\* should_shutdown, release, status, watch_idle; "idle: unload after ... min",
\* "always on: keep local models resident", installer/wizard.py).
GraceIsGiven ==
    step = "stop" /\ op \notin {"stop", "update"} =>
        IF op = "doctor" THEN quiet >= DefaultGrace ELSE ~AlwaysOn /\ quiet >= Grace

\* A runtime with a watcher does not stay up for ever without leases and work
\* (watch_idle).
IdleRuntimeStops ==
    (Commands \subseteq alive /\ reaper = "watching") ~>
        (\/ ~(Commands \subseteq alive) \/ reaper # "watching"
         \/ Active # {} \/ work = "yes")
=============================================================================
