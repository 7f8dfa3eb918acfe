--------------------------- MODULE RuntimeProofs ---------------------------
(***************************************************************************)
(* Proofs about the runtime: RuntimeLifecycle, ServiceLock, RuntimeLeases. *)
(*                                                                         *)
(* For any number of workers, and whichever joins time out: live workers   *)
(* keep their lock and gateway, late workers keep their handles, nothing   *)
(* is left behind by a complete stop or a failed start, and                *)
(* initialization_complete means what it says, with exactly the exceptions *)
(* of workers without a handle, and of a start that is still under way,    *)
(* when serve's join of the startup thread times out.                      *)
(* And the file that start_capture locks is locked by one process at most. *)
(*                                                                         *)
(* For every set of sessions and commands, every time to live and grace    *)
(* period and any number of faults: no process is lost and none runs       *)
(* during an update but those whose supervisor died, or whose next Popen   *)
(* failed, between Popen and the registry; and every operation but doctor  *)
(* and status, which go by the defaults, gives the configured grace period.*)
(***************************************************************************)
EXTENDS RuntimeLifecycle, ServiceLock, RuntimeLeases, TLAPS

\* A thread can only be alive while the runtime is between a start and the end
\* of a complete stop, and somebody who will stop it knows of it, unless it had
\* no handle when the join of the startup thread timed out.
KnownWorkers ==
    \A w \in Workers \ unseen : Alive(w) =>
        /\ main \in {"serving", "join", "shutdown", "joining", "expired", "stopped"}
        /\ main = "stopped" => incomplete = "yes"
        /\ w \in registered \/ (sp = "register" /\ w = si)
        /\ w \in NeedsCore => gateway = "open"

\* The startup thread is over before stop() begins, or its join has timed out
\* and every worker it will still start is one that stop() may not see.
StartupOver ==
    /\ sp # "none" => main \in {"serving", "join"} \/ overdue = "yes"
    /\ sp # "none" => initialized = "no"
    /\ sp \in {"enter", "refresh", "recover", "check"} => registered = {}
    /\ sp \in {"start", "register"} => \A w \in registered : w < si
    /\ overdue = "no" => unseen = {}
    /\ overdue = "yes" =>
         /\ main \in {"shutdown", "joining", "expired", "close", "release", "stopped"}
         /\ stop_requested = "no" => main = "stopped" /\ incomplete = "no"
         /\ initialized = "yes" => main = "stopped" /\ incomplete = "no"
         /\ sp \in {"enter", "refresh", "recover", "check"} => unseen = Workers
         /\ sp \in {"start", "register"} => \A w \in Workers : w >= si => w \in unseen

\* Where the lock is held, the gateway open and the flags down.
Resources ==
    /\ main \in {"migrate", "core", "captured", "serving", "join", "shutdown",
                 "joining", "expired"} => lock = "held"
    /\ main = "stopped" => \/ incomplete = "yes" /\ lock = "held"
                           \/ incomplete = "no" /\ lock # "held" /\ gateway = "none"
    /\ main = "release" => gateway = "none"
    /\ main \in {"acquire", "migrate", "core", "captured", "serving", "join", "close",
                 "release"} => incomplete = "no"
    /\ main \in {"acquire", "migrate", "core", "captured"} => initialized = "no"

\* Behind the worker that stop() looks at, whoever is alive is on its list.
StoppedBehind ==
    main \in {"shutdown", "joining", "expired"} =>
        \A w \in registered \ unseen : w > idx /\ Alive(w) => w \in late

\* Only a registered worker is marked as stopping, and behind the worker that
\* stop() looks at only those on its list are.
MarkedStopping ==
    /\ \A w \in Workers : stopping[w] = "yes" => w \in registered
    /\ main \in {"joining", "expired"} => idx \in registered
    /\ \/ main \in {"down", "acquire", "migrate", "core", "captured", "close", "release"}
       \/ main = "stopped" /\ incomplete = "no"
       => /\ \A w \in Workers : stopping[w] = "no"
          /\ overdue = "no" => registered = {}
    /\ main \in {"shutdown", "joining", "expired"} =>
         \A w \in registered : w > idx /\ w \notin late => stopping[w] = "no"

\* What _start_workers has done so far, as long as no stop() has interfered.
StartedSoFar ==
    overdue = "no" =>
        /\ sp \in {"start", "register"} =>
             \A w \in Workers : w < si => w \in registered \cup errors
        /\ sp = "finish" /\ stop_requested = "no" =>
             Workers \subseteq registered \cup errors

LifecycleInv ==
    /\ TypeOK
    /\ KnownWorkers
    /\ StartupOver
    /\ Resources
    /\ StoppedBehind
    /\ MarkedStopping
    /\ StartedSoFar
    /\ InitializedMeansStarted

LEMMA LifecycleInit == Init => LifecycleInv
BY LifecycleAssumption
DEF Init, LifecycleInv, TypeOK, KnownWorkers, StartupOver, Resources, StoppedBehind,
    MarkedStopping, StartedSoFar, InitializedMeansStarted, Alive, YesNo, Workers

(* The types are kept whether or not the startup thread is joined in time.  *)
LEMMA LifecycleTypeStep == TypeOK /\ [Next]_vars => TypeOK'
<1> SUFFICES ASSUME TypeOK, [Next]_vars PROVE TypeOK'
    OBVIOUS
<1> USE LifecycleAssumption DEF TypeOK, YesNo, Workers, vars, serving, resources,
        flags, handles, startup, loops, outlived
<1>1. CASE UNCHANGED vars
    BY <1>1
<1>2. CASE StartCapture
    BY <1>2 DEF StartCapture
<1>3. CASE AcquireLock
    BY <1>3 DEF AcquireLock
<1>4. CASE Migrate
    BY <1>4 DEF Migrate
<1>5. CASE StartFails
    BY <1>5 DEF StartFails, CleanupAfterFailedStart
<1>6. CASE StartCore
    BY <1>6 DEF StartCore
<1>7. CASE Serve
    BY <1>7 DEF Serve
<1>8. CASE RefuseToServe
    BY <1>8 DEF RefuseToServe, BeginStop, RequestStop
<1>9. CASE ServerExits
    BY <1>9 DEF ServerExits, RequestStop
<1>10. CASE StopLater
    BY <1>10 DEF StopLater, BeginStop, RequestStop
<1>11. CASE JoinStartup
    BY <1>11 DEF JoinStartup, BeginStop, RequestStop
<1>12. CASE SkipWorker
    BY <1>12 DEF SkipWorker
<1>13. CASE SignalWorker
    BY <1>13 DEF SignalWorker
<1>14. CASE WorkerJoined
    BY <1>14 DEF WorkerJoined
<1>15. CASE JoinExpires
    BY <1>15 DEF JoinExpires
<1>16. CASE MarkTimedOut
    BY <1>16 DEF MarkTimedOut
<1>17. CASE StopIncomplete
    BY <1>17 DEF StopIncomplete
<1>18. CASE AllStopped
    BY <1>18 DEF AllStopped
<1>19. CASE CloseGateway
    BY <1>19 DEF CloseGateway
<1>20. CASE ReleaseLock
    BY <1>20 DEF ReleaseLock
<1>21. CASE ProcessEnds
    BY <1>21 DEF ProcessEnds
<1>22. CASE EnterFinishStart
    BY <1>22 DEF EnterFinishStart
<1>23. CASE Refresh
    BY <1>23 DEF Refresh
<1>24. CASE RecoverCapabilities
    BY <1>24 DEF RecoverCapabilities
<1>25. CASE FinishStartFails
    BY <1>25 DEF FinishStartFails
<1>26. CASE CheckStop
    BY <1>26 DEF CheckStop
<1>27. CASE SkipStart
    BY <1>27 DEF SkipStart
<1>28. CASE StartLoop
    BY <1>28 DEF StartLoop, CanBuild
<1>29. CASE Register
    BY <1>29 DEF Register
<1>30. CASE WorkersStarted
    BY <1>30 DEF WorkersStarted
<1>31. CASE FinishStart
    BY <1>31 DEF FinishStart
<1>32. ASSUME NEW v \in Workers, LoopTest(v) PROVE TypeOK'
    BY <1>32 DEF LoopTest, MoveWorker
<1>33. ASSUME NEW v \in Workers, MarkStarted(v) PROVE TypeOK'
    BY <1>33 DEF MarkStarted, MoveWorker
<1>34. ASSUME NEW v \in Workers, IterationEnds(v) PROVE TypeOK'
    BY <1>34 DEF IterationEnds, MoveWorker
<1>35. ASSUME NEW v \in Workers, WaitOver(v) PROVE TypeOK'
    BY <1>35 DEF WaitOver, MoveWorker
<1>36. ASSUME NEW v \in Workers, WaitStopped(v) PROVE TypeOK'
    BY <1>36 DEF WaitStopped, MoveWorker
<1>37. ASSUME NEW v \in Workers, LoopEnds(v) PROVE TypeOK'
    BY <1>37 DEF LoopEnds, MoveWorker
<1> QED
    BY <1>1, <1>2, <1>3, <1>4, <1>5, <1>6, <1>7, <1>8, <1>9, <1>10, <1>11, <1>12,
        <1>13, <1>14, <1>15, <1>16, <1>17, <1>18, <1>19, <1>20, <1>21, <1>22, <1>23,
        <1>24, <1>25, <1>26, <1>27, <1>28, <1>29, <1>30, <1>31, <1>32, <1>33, <1>34,
        <1>35, <1>36, <1>37
    DEF Next, StopStep, StartupStep, LoopControl

(* The rest, with the types of both states known.                           *)
Rest ==
    /\ KnownWorkers /\ StartupOver /\ Resources
    /\ StoppedBehind /\ MarkedStopping /\ StartedSoFar /\ InitializedMeansStarted

LEMMA LifecycleStep == LifecycleInv /\ [Next]_vars => LifecycleInv'
<1> SUFFICES ASSUME TypeOK, Rest, [Next]_vars, TypeOK' PROVE Rest'
    BY LifecycleTypeStep DEF LifecycleInv, Rest
<1> USE LifecycleAssumption DEF TypeOK, Rest, KnownWorkers, StartupOver, Resources,
        StoppedBehind, MarkedStopping, StartedSoFar, InitializedMeansStarted, Alive,
        YesNo, Workers, vars, serving, resources, flags, handles, startup, loops, outlived
<1>1. CASE UNCHANGED vars
    BY <1>1
<1>2. CASE StartCapture
    BY <1>2 DEF StartCapture
<1>3. CASE AcquireLock
    BY <1>3 DEF AcquireLock
<1>4. CASE Migrate
    BY <1>4 DEF Migrate
<1>5. CASE StartFails
    BY <1>5 DEF StartFails, CleanupAfterFailedStart
<1>6. CASE StartCore
    BY <1>6 DEF StartCore
<1>7. CASE Serve
    BY <1>7 DEF Serve
<1>8. CASE RefuseToServe
    BY <1>8 DEF RefuseToServe, BeginStop, RequestStop
<1>9. CASE ServerExits
    BY <1>9 DEF ServerExits, RequestStop
<1>10. CASE StopLater
    BY <1>10 DEF StopLater, BeginStop, RequestStop
<1>11. CASE JoinStartup
    BY <1>11 DEF JoinStartup, BeginStop, RequestStop
<1>12. CASE SkipWorker
    BY <1>12 DEF SkipWorker
<1>13. CASE SignalWorker
    BY <1>13 DEF SignalWorker
<1>14. CASE WorkerJoined
    BY <1>14 DEF WorkerJoined
<1>15. CASE JoinExpires
    BY <1>15 DEF JoinExpires
<1>16. CASE MarkTimedOut
    BY <1>16 DEF MarkTimedOut
<1>17. CASE StopIncomplete
    BY <1>17 DEF StopIncomplete
<1>18. CASE AllStopped
    BY <1>18 DEF AllStopped
<1>19. CASE CloseGateway
    BY <1>19 DEF CloseGateway
<1>20. CASE ReleaseLock
    BY <1>20 DEF ReleaseLock
<1>21. CASE ProcessEnds
    BY <1>21 DEF ProcessEnds
<1>22. CASE EnterFinishStart
    BY <1>22 DEF EnterFinishStart
<1>23. CASE Refresh
    BY <1>23 DEF Refresh
<1>24. CASE RecoverCapabilities
    BY <1>24 DEF RecoverCapabilities
<1>25. CASE FinishStartFails
    BY <1>25 DEF FinishStartFails
<1>26. CASE CheckStop
    BY <1>26 DEF CheckStop
<1>27. CASE SkipStart
    BY <1>27 DEF SkipStart
<1>28. CASE StartLoop
    BY <1>28 DEF StartLoop, CanBuild
<1>29. CASE Register
    BY <1>29 DEF Register
<1>30. CASE WorkersStarted
    BY <1>30 DEF WorkersStarted
<1>31. CASE FinishStart
    BY <1>31 DEF FinishStart
<1>32. ASSUME NEW v \in Workers, LoopTest(v) PROVE Rest'
    BY <1>32 DEF LoopTest, MoveWorker
<1>33. ASSUME NEW v \in Workers, MarkStarted(v) PROVE Rest'
    BY <1>33 DEF MarkStarted, MoveWorker
<1>34. ASSUME NEW v \in Workers, IterationEnds(v) PROVE Rest'
    BY <1>34 DEF IterationEnds, MoveWorker
<1>35. ASSUME NEW v \in Workers, WaitOver(v) PROVE Rest'
    BY <1>35 DEF WaitOver, MoveWorker
<1>36. ASSUME NEW v \in Workers, WaitStopped(v) PROVE Rest'
    BY <1>36 DEF WaitStopped, MoveWorker
<1>37. ASSUME NEW v \in Workers, LoopEnds(v) PROVE Rest'
    BY <1>37 DEF LoopEnds, MoveWorker
<1> HIDE DEF TypeOK, Rest, KnownWorkers, StartupOver, Resources, StoppedBehind,
        MarkedStopping, StartedSoFar, InitializedMeansStarted, Alive, YesNo, Workers, vars
<1> QED
    BY <1>1, <1>2, <1>3, <1>4, <1>5, <1>6, <1>7, <1>8, <1>9, <1>10, <1>11, <1>12,
        <1>13, <1>14, <1>15, <1>16, <1>17, <1>18, <1>19, <1>20, <1>21, <1>22, <1>23,
        <1>24, <1>25, <1>26, <1>27, <1>28, <1>29, <1>30, <1>31, <1>32, <1>33, <1>34,
        <1>35, <1>36, <1>37
    DEF Next, StopStep, StartupStep, LoopControl

\* Every attribute keeps its type, whatever the threads of start_capture,
\* finish_start, stop and the worker loops do to each other.
THEOREM LifecycleTypes == Spec => []TypeOK
<1>1. Init => TypeOK
    BY LifecycleInit DEF LifecycleInv
<1> QED
    BY <1>1, LifecycleTypeStep, PTL DEF Spec

LEMMA LifecycleInvariance == Spec => []LifecycleInv
BY LifecycleInit, LifecycleStep, PTL DEF Spec

\* stop() never takes the lock or Core from a live worker, for any number of
\* workers that finish late or hang, and whether or not serve's join of the
\* startup thread times out, but for the workers that had no handle then.
THEOREM StopIsSafe == Spec => []ResourcesOutliveWorkers
<1>1. LifecycleInv => ResourcesOutliveWorkers
    BY DEF LifecycleInv, TypeOK, KnownWorkers, StartupOver, Resources, YesNo, ResourcesOutliveWorkers
<1> QED
    BY <1>1, LifecycleInvariance, PTL

\* A worker that outlives stop() keeps its handle, so that a later stop() can
\* still join it, with the same exception.
THEOREM LateWorkersStayKnown == Spec => []LateWorkersKeepHandles
<1>1. LifecycleInv => LateWorkersKeepHandles
    BY DEF LifecycleInv, TypeOK, KnownWorkers, StartupOver, Resources, YesNo, LateWorkersKeepHandles
<1> QED
    BY <1>1, LifecycleInvariance, PTL

\* A complete stop, or a start that failed, leaves neither the lock nor an open
\* Core behind, whatever the startup thread still does.
THEOREM StopsClean == Spec => []NothingLeftBehind
<1>1. LifecycleInv => NothingLeftBehind
    BY DEF LifecycleInv, TypeOK, KnownWorkers, StartupOver, Resources, YesNo, NothingLeftBehind
<1> QED
    BY <1>1, LifecycleInvariance, PTL

\* initialization_complete is true only with every worker started or reported,
\* or after a stop() that did not wait for the startup thread to end.
THEOREM InitializedStarted == Spec => []InitializedMeansStarted
<1>1. LifecycleInv => InitializedMeansStarted
    BY DEF LifecycleInv
<1> QED
    BY <1>1, LifecycleInvariance, PTL

\* No worker is left marked as stopping by a complete stop.
THEOREM MarksRemoved == Spec => []NoneLeftStopping
<1>1. LifecycleInv => NoneLeftStopping
    BY DEF LifecycleInv, TypeOK, KnownWorkers, StartupOver, Resources, YesNo,
           MarkedStopping, NoneLeftStopping
<1> QED
    BY <1>1, LifecycleInvariance, PTL

\* stop() leaves handles of the late workers it could see, or neither lock nor
\* Core nor marks.
THEOREM StopLeavesNothing == Spec => []CleanStop
BY LifecycleTypes, LateWorkersStayKnown, StopsClean, MarksRemoved, PTL DEF CleanStop

-----------------------------------------------------------------------------
(* The service lock file itself.  The lifecycle above takes "held" as one   *)
(* state of one process; ServiceLock has every system call of every process *)
(* that acquires, with crashes, reused pids and other programs on them.  It *)
(* holds its promise when processes start one after another (~Overlap).     *)

(* At most one process acquires at a time; an owner's file is its own and   *)
(* complete; the creator that has not written yet has the file and no       *)
(* owner beside it; a process about to unlink has seen no live owner.       *)
OneAcquires ==
    \A p, q \in Pids : pc[p] \in Acquiring /\ pc[q] \in Acquiring => p = q

WriterHasFile ==
    \A p \in Pids : pc[p] = "write" => file = p /\ \A q \in Pids : pc[q] # "owner"

NoOwnerToUnlink ==
    \A p \in Pids : pc[p] = "unlink" => \A q \in Pids : pc[q] # "owner"

LockInv ==
    /\ LockTypeOK
    /\ OneAcquires
    /\ OwnerKeepsItsFile
    /\ WriterHasFile
    /\ NoOwnerToUnlink

LEMMA InitLock == LockInit => LockInv
<1> SUFFICES ASSUME LockInit PROVE LockInv
    OBVIOUS
<1>1. LockTypeOK
    BY DEF LockInit, LockTypeOK
<1>2. OneAcquires /\ OwnerKeepsItsFile /\ WriterHasFile /\ NoOwnerToUnlink
    BY DEF LockInit, OneAcquires, OwnerKeepsItsFile, WriterHasFile, NoOwnerToUnlink,
           Acquiring
<1> QED
    BY <1>1, <1>2 DEF LockInv

(* TypeOK alone is preserved whether or not processes overlap.              *)
LEMMA LockTypeStep == LockTypeOK /\ [LockNext]_lockvars => LockTypeOK'
<1> SUFFICES ASSUME LockTypeOK, [LockNext]_lockvars PROVE LockTypeOK'
    OBVIOUS
<1> USE LockAssumption DEF LockTypeOK, Acquiring, Goto
<1>1. CASE UNCHANGED lockvars
    BY <1>1 DEF lockvars
<1>2. ASSUME NEW p \in Pids, Start(p) PROVE LockTypeOK'
    BY <1>2 DEF Start
<1>3. ASSUME NEW p \in Pids, CreateLock(p) PROVE LockTypeOK'
    BY <1>3 DEF CreateLock
<1>4. ASSUME NEW p \in Pids, WritePayload(p) PROVE LockTypeOK'
    BY <1>4 DEF WritePayload
<1>5. ASSUME NEW p \in Pids, LockExists(p) PROVE LockTypeOK'
    BY <1>5 DEF LockExists
<1>6. ASSUME NEW p \in Pids, JudgeLock(p) PROVE LockTypeOK'
    BY <1>6 DEF JudgeLock
<1>7. ASSUME NEW p \in Pids, UnlinkStale(p) PROVE LockTypeOK'
    BY <1>7 DEF UnlinkStale, AfterUnlink
<1>8. ASSUME NEW p \in Pids, Release(p) PROVE LockTypeOK'
    BY <1>8 DEF Release
<1>9. ASSUME NEW p \in Pids, Crash(p) PROVE LockTypeOK'
    BY <1>9 DEF Crash
<1>10. ASSUME NEW p \in Pids, ForeignStart(p) \/ ForeignExit(p) PROVE LockTypeOK'
    BY <1>10 DEF ForeignStart, ForeignExit
<1> QED
    BY <1>1, <1>2, <1>3, <1>4, <1>5, <1>6, <1>7, <1>8, <1>9, <1>10 DEF LockNext, Acquire

LEMMA LockStep ==
    ASSUME ~Overlap, LockInv, [LockNext]_lockvars
    PROVE  LockInv'
<1>1. LockTypeOK'
    BY LockTypeStep DEF LockInv
<1> DEFINE Kept == OneAcquires /\ OwnerKeepsItsFile /\ WriterHasFile /\ NoOwnerToUnlink
<1> USE LockAssumption DEF LockInv, LockTypeOK, OneAcquires, OwnerKeepsItsFile,
                           WriterHasFile, NoOwnerToUnlink, Acquiring, Goto
<1>2. CASE UNCHANGED lockvars
    BY <1>2 DEF lockvars
<1>3. ASSUME NEW p \in Pids, Start(p) PROVE Kept'
    BY <1>3 DEF Start
<1>4. ASSUME NEW p \in Pids, CreateLock(p) PROVE Kept'
    BY <1>4 DEF CreateLock
<1>5. ASSUME NEW p \in Pids, WritePayload(p) PROVE Kept'
    BY <1>5 DEF WritePayload
<1>6. ASSUME NEW p \in Pids, LockExists(p) PROVE Kept'
    BY <1>6 DEF LockExists
<1>7. ASSUME NEW p \in Pids, JudgeLock(p) PROVE Kept'
    BY <1>7 DEF JudgeLock, LooksStale, IsRunning
<1>8. ASSUME NEW p \in Pids, UnlinkStale(p) PROVE Kept'
    BY <1>8 DEF UnlinkStale, AfterUnlink
<1>9. ASSUME NEW p \in Pids, Release(p) PROVE Kept'
    BY <1>9 DEF Release
<1>10. ASSUME NEW p \in Pids, Crash(p) PROVE Kept'
    BY <1>10 DEF Crash
<1>11. ASSUME NEW p \in Pids, ForeignStart(p) \/ ForeignExit(p) PROVE Kept'
    BY <1>11 DEF ForeignStart, ForeignExit
<1> HIDE DEF Kept
<1>12. Kept'
    BY <1>2, <1>3, <1>4, <1>5, <1>6, <1>7, <1>8, <1>9, <1>10, <1>11 DEF LockNext, Acquire, Kept
<1> QED
    BY <1>1, <1>12 DEF Kept

-----------------------------------------------------------------------------
(* The lock's variables keep their types, whether or not acquires overlap.  *)
THEOREM LockTypes == LockSpec => []LockTypeOK
<1>1. LockInit => LockTypeOK
    BY InitLock DEF LockInv
<1> QED
    BY <1>1, LockTypeStep, PTL DEF LockSpec

LEMMA LockInvariance ==
    ASSUME ~Overlap
    PROVE  LockSpec => []LockInv
<1>1. LockInit => LockInv
    BY InitLock
<1>2. LockInv /\ [LockNext]_lockvars => LockInv'
    BY LockStep
<1> QED
    BY <1>1, <1>2, PTL DEF LockSpec

(* When acquires do not overlap, at most one process owns the service lock, *)
(* through crashes, stale files and reused pids (acquire,                   *)
(* _maybe_cleanup_stale_lock, release).                                     *)
THEOREM SerialSingleOwner ==
    ASSUME ~Overlap
    PROVE  LockSpec => []SingleOwner
<1>1. LockInv => SingleOwner
    BY DEF LockInv, OwnerKeepsItsFile, SingleOwner
<1> QED
    BY <1>1, LockInvariance, PTL

(* When acquires do not overlap, nobody unlinks or replaces the file of a   *)
(* process that owns the lock.                                              *)
THEOREM SerialFileKept ==
    ASSUME ~Overlap
    PROVE  LockSpec => []OwnerKeepsItsFile
<1>1. LockInv => OwnerKeepsItsFile
    BY DEF LockInv
<1> QED
    BY <1>1, LockInvariance, PTL

(* When acquires do not overlap there is one owner, whose file is there.    *)
THEOREM SerialOwnership ==
    ASSUME ~Overlap
    PROVE  LockSpec => []Ownership
BY LockTypes, SerialSingleOwner, SerialFileKept, PTL DEF Ownership

-----------------------------------------------------------------------------
(* Leases and the idle supervisor.  RuntimeLifecycle is the inside of one   *)
(* Local process; RuntimeLeases is what starts and stops such processes.    *)

Starting == {"survivors", "spawn", "register", "wait", "abort"}

\* Every process is in a file except between Popen and the registry, or was
\* left there.
Accounted ==
    /\ step # "register" => alive \subseteq rec \cup reg \cup left
    /\ step \in {"survivors", "wait", "abort"} => alive \subseteq reg \cup left
    /\ step = "spawn" => alive \subseteq left
    /\ orphan \subseteq replaced

\* Only acquire and heartbeat start processes, and the barrier keeps them out.
Barred ==
    /\ step \in Starting => op \in {"acquire", "heartbeat"}
    /\ update # "none" => barrier = "present"
    /\ op = "update" => update = "stopping" /\ step = "stop"
    /\ update = "installing" => alive \subseteq left /\ op \notin {"acquire", "heartbeat"}

ProcessInv == LeasesTypeOK /\ Accounted /\ Barred

\* While a granted lease is active there is no idle period, and an idle period
\* is never longer than the time without granted leases.
GraceInv ==
    /\ LeasesTypeOK
    /\ \A s \in granted : lease[s] > 0
    /\ granted # {} => idle = -1
    /\ idle <= quiet
    /\ step = "watcher" /\ op # "release" => idle = -1
    /\ step = "reconcile" => op \notin {"release", "stop", "update"}
    /\ step \in {"boundary", "confirm"} => op \in {"release", "status", "doctor", "reap"}
    /\ step \in {"confirm", "stop"} /\ op \notin {"stop", "update"} =>
         Automatic /\ idle >= GraceOf

LEMMA LeasesInit == InitLeases => ProcessInv /\ GraceInv
BY LeasesAssumption
DEF InitLeases, ProcessInv, GraceInv, LeasesTypeOK, Accounted, Barred, Starting, Ops, Cap

LEMMA LeasesTypeStep == LeasesTypeOK /\ [LeasesNext]_leasevars => LeasesTypeOK'
<1> SUFFICES ASSUME LeasesTypeOK, [LeasesNext]_leasevars PROVE LeasesTypeOK'
    OBVIOUS
<1> USE LeasesAssumption DEF LeasesTypeOK, Ops, leasevars, files, children, updating,
        history, window, past
<1>1. CASE UNCHANGED leasevars
    BY <1>1
<1>2. ASSUME NEW s \in Sessions, AcquireLease(s) PROVE LeasesTypeOK'
    BY <1>2 DEF AcquireLease, Enter, Renewed, Reaped
<1>3. ASSUME NEW s \in Sessions, Heartbeat(s) PROVE LeasesTypeOK'
    BY <1>3 DEF Heartbeat, Enter, Extended
<1>4. ASSUME NEW s \in Sessions, HeartbeatExpired(s) PROVE LeasesTypeOK'
    BY <1>4 DEF HeartbeatExpired
<1>5. ASSUME NEW s \in Sessions, ReleaseLease(s) PROVE LeasesTypeOK'
    BY <1>5 DEF ReleaseLease, Enter, Dropped, Reaped, Active, Known
<1>6. ASSUME NEW s \in Sessions, BridgeAcquire(s) PROVE LeasesTypeOK'
    BY <1>6 DEF BridgeAcquire, Renewed, Reaped
<1>7. ASSUME NEW s \in Sessions, BridgeHeartbeat(s) PROVE LeasesTypeOK'
    BY <1>7 DEF BridgeHeartbeat, Extended
<1>8. ASSUME NEW s \in Sessions, BridgeRelease(s) PROVE LeasesTypeOK'
    BY <1>8 DEF BridgeRelease, Dropped, Reaped
<1>9. CASE Status
    BY <1>9 DEF Status, Enter, Reaped
<1>10. CASE Watch
    BY <1>10 DEF Watch, Enter, Reaped
<1>11. CASE ForceStop
    BY <1>11 DEF ForceStop, Enter
<1>12. CASE Reconcile
    BY <1>12 DEF Reconcile, Continue, Done, WatcherLeaves, Known, Needed
<1>13. CASE Survivors
    BY <1>13 DEF Survivors, Continue
<1>14. CASE Spawn
    BY <1>14 DEF Spawn, Continue
<1>15. CASE SpawnFails
    BY <1>15 DEF SpawnFails, Fault, GiveBack, Done
<1>16. CASE RegisterProcesses
    BY <1>16 DEF RegisterProcesses, Continue
<1>17. CASE Ready
    BY <1>17 DEF Ready, Continue
<1>18. CASE NotReady
    BY <1>18 DEF NotReady, Continue, Fault
<1>19. CASE Abort
    BY <1>19 DEF Abort, GiveBack, Done
<1>20. CASE Write
    BY <1>20 DEF Write, Continue, Known
<1>21. CASE ClearIdle
    BY <1>21 DEF ClearIdle, Continue, Done, Cap
<1>22. CASE EnsureWatcher
    BY <1>22 DEF EnsureWatcher, Grant, Done, Cap
<1>23. CASE EnsureWatcherFails
    BY <1>23 DEF EnsureWatcherFails, Fault, GiveBack, Done
<1>24. CASE Boundary
    BY <1>24 DEF Boundary, Continue, Done, GoOn, Seen, Active, Quiescent, IdleBoundary, Fault, Cap
<1>25. CASE ProcessMissing
    BY <1>25 DEF ProcessMissing, Known, WatcherLeaves, Done
<1>26. CASE Confirm
    BY <1>26 DEF Confirm, Reaped, Active, Seen, Continue, Done, Quiescent, IdleBoundary, Fault,
        Cap
<1>27. CASE Stop
    BY <1>27 DEF Stop, WatcherLeaves, Done
<1>28. CASE BeginUpdate
    BY <1>28 DEF BeginUpdate
<1>29. CASE UpdateStops
    BY <1>29 DEF UpdateStops, Enter
<1>30. CASE EndUpdate
    BY <1>30 DEF EndUpdate
<1>31. CASE UpdateKilled
    BY <1>31 DEF UpdateKilled, Fault
<1>32. CASE Kill
    BY <1>32 DEF Kill, Fault, Done
<1>33. CASE WatcherTimesOut
    BY <1>33 DEF WatcherTimesOut, Fault
<1>34. CASE WatcherEnds
    BY <1>34 DEF WatcherEnds
<1>35. CASE ProcessDies
    BY <1>35 DEF ProcessDies, Fault
<1>36. CASE Work
    BY <1>36 DEF Work
<1>37. CASE Tick
    BY <1>37 DEF Tick, Sooner, Cap
<1> QED
    BY <1>1, <1>2, <1>3, <1>4, <1>5, <1>6, <1>7, <1>8, <1>9, <1>10, <1>11, <1>12,
        <1>13, <1>14, <1>15, <1>16, <1>17, <1>18, <1>19, <1>20, <1>21, <1>22, <1>23,
        <1>24, <1>25, <1>26, <1>27, <1>28, <1>29, <1>30, <1>31, <1>32, <1>33, <1>34,
        <1>35, <1>36, <1>37
    DEF LeasesNext, Step

(* No process is lost, and the barrier holds.                               *)
LEMMA ProcessStep == ProcessInv /\ [LeasesNext]_leasevars => ProcessInv'
<1> SUFFICES ASSUME LeasesTypeOK, Accounted, Barred, [LeasesNext]_leasevars, LeasesTypeOK'
             PROVE  Accounted' /\ Barred'
    BY LeasesTypeStep DEF ProcessInv
<1> USE LeasesAssumption DEF LeasesTypeOK, Accounted, Barred, Starting, Ops, leasevars, files,
        children, updating, history, window, past
<1>1. CASE UNCHANGED leasevars
    BY <1>1
<1>2. ASSUME NEW s \in Sessions, AcquireLease(s) PROVE Accounted' /\ Barred'
    BY <1>2 DEF AcquireLease, Enter, Renewed, Reaped
<1>3. ASSUME NEW s \in Sessions, Heartbeat(s) PROVE Accounted' /\ Barred'
    BY <1>3 DEF Heartbeat, Enter, Extended
<1>4. ASSUME NEW s \in Sessions, HeartbeatExpired(s) PROVE Accounted' /\ Barred'
    BY <1>4 DEF HeartbeatExpired
<1>5. ASSUME NEW s \in Sessions, ReleaseLease(s) PROVE Accounted' /\ Barred'
    BY <1>5 DEF ReleaseLease, Enter, Dropped, Reaped, Active, Known
<1>6. ASSUME NEW s \in Sessions, BridgeAcquire(s) PROVE Accounted' /\ Barred'
    BY <1>6 DEF BridgeAcquire, Renewed, Reaped
<1>7. ASSUME NEW s \in Sessions, BridgeHeartbeat(s) PROVE Accounted' /\ Barred'
    BY <1>7 DEF BridgeHeartbeat, Extended
<1>8. ASSUME NEW s \in Sessions, BridgeRelease(s) PROVE Accounted' /\ Barred'
    BY <1>8 DEF BridgeRelease, Dropped, Reaped
<1>9. CASE Status
    BY <1>9 DEF Status, Enter, Reaped
<1>10. CASE Watch
    BY <1>10 DEF Watch, Enter, Reaped
<1>11. CASE ForceStop
    BY <1>11 DEF ForceStop, Enter
<1>12. CASE Reconcile
    BY <1>12 DEF Reconcile, Continue, Done, WatcherLeaves, Known, Needed
<1>13. CASE Survivors
    BY <1>13 DEF Survivors, Continue
<1>14. CASE Spawn
    BY <1>14 DEF Spawn, Continue
<1>15. CASE SpawnFails
    BY <1>15 DEF SpawnFails, Fault, GiveBack, Done
<1>16. CASE RegisterProcesses
    BY <1>16 DEF RegisterProcesses, Continue
<1>17. CASE Ready
    BY <1>17 DEF Ready, Continue
<1>18. CASE NotReady
    BY <1>18 DEF NotReady, Continue, Fault
<1>19. CASE Abort
    BY <1>19 DEF Abort, GiveBack, Done
<1>20. CASE Write
    BY <1>20 DEF Write, Continue, Known
<1>21. CASE ClearIdle
    BY <1>21 DEF ClearIdle, Continue, Done
<1>22. CASE EnsureWatcher
    BY <1>22 DEF EnsureWatcher, Grant, Done
<1>23. CASE EnsureWatcherFails
    BY <1>23 DEF EnsureWatcherFails, Fault, GiveBack, Done
<1>24. CASE Boundary
    BY <1>24 DEF Boundary, Continue, Done, GoOn, Seen, Active, Quiescent, IdleBoundary, Fault
<1>25. CASE ProcessMissing
    BY <1>25 DEF ProcessMissing, Known, WatcherLeaves, Done
<1>26. CASE Confirm
    BY <1>26 DEF Confirm, Reaped, Active, Seen, Continue, Done, Quiescent, IdleBoundary, Fault
<1>27. CASE Stop
    BY <1>27 DEF Stop, WatcherLeaves, Done
<1>28. CASE BeginUpdate
    BY <1>28 DEF BeginUpdate
<1>29. CASE UpdateStops
    BY <1>29 DEF UpdateStops, Enter
<1>30. CASE EndUpdate
    BY <1>30 DEF EndUpdate
<1>31. CASE UpdateKilled
    BY <1>31 DEF UpdateKilled, Fault
<1>32. CASE Kill
    BY <1>32 DEF Kill, Fault, Done
<1>33. CASE WatcherTimesOut
    BY <1>33 DEF WatcherTimesOut, Fault
<1>34. CASE WatcherEnds
    BY <1>34 DEF WatcherEnds
<1>35. CASE ProcessDies
    BY <1>35 DEF ProcessDies, Fault
<1>36. CASE Work
    BY <1>36 DEF Work
<1>37. CASE Tick
    BY <1>37 DEF Tick, Sooner, Cap
<1> QED
    BY <1>1, <1>2, <1>3, <1>4, <1>5, <1>6, <1>7, <1>8, <1>9, <1>10, <1>11, <1>12,
        <1>13, <1>14, <1>15, <1>16, <1>17, <1>18, <1>19, <1>20, <1>21, <1>22, <1>23,
        <1>24, <1>25, <1>26, <1>27, <1>28, <1>29, <1>30, <1>31, <1>32, <1>33, <1>34,
        <1>35, <1>36, <1>37
    DEF LeasesNext, Step

(* The bookkeeping of idle time.                                            *)
LEMMA GraceStep == GraceInv /\ [LeasesNext]_leasevars => GraceInv'
<1> SUFFICES ASSUME GraceInv, [LeasesNext]_leasevars, LeasesTypeOK'
             PROVE  GraceInv'
    BY LeasesTypeStep DEF GraceInv
<1> USE LeasesAssumption DEF LeasesTypeOK, GraceInv, Ops, leasevars, files, children, updating,
        history, window, past, Automatic, GraceOf
<1>1. CASE UNCHANGED leasevars
    BY <1>1
<1>2. ASSUME NEW s \in Sessions, AcquireLease(s) PROVE GraceInv'
    BY <1>2 DEF AcquireLease, Enter, Renewed, Reaped
<1>3. ASSUME NEW s \in Sessions, Heartbeat(s) PROVE GraceInv'
    BY <1>3 DEF Heartbeat, Enter, Extended
<1>4. ASSUME NEW s \in Sessions, HeartbeatExpired(s) PROVE GraceInv'
    BY <1>4 DEF HeartbeatExpired
<1>5. ASSUME NEW s \in Sessions, ReleaseLease(s) PROVE GraceInv'
    BY <1>5 DEF ReleaseLease, Enter, Dropped, Reaped, Active, Known
<1>6. ASSUME NEW s \in Sessions, BridgeAcquire(s) PROVE GraceInv'
    BY <1>6 DEF BridgeAcquire, Renewed, Reaped
<1>7. ASSUME NEW s \in Sessions, BridgeHeartbeat(s) PROVE GraceInv'
    BY <1>7 DEF BridgeHeartbeat, Extended
<1>8. ASSUME NEW s \in Sessions, BridgeRelease(s) PROVE GraceInv'
    BY <1>8 DEF BridgeRelease, Dropped, Reaped
<1>9. CASE Status
    BY <1>9 DEF Status, Enter, Reaped
<1>10. CASE Watch
    BY <1>10 DEF Watch, Enter, Reaped
<1>11. CASE ForceStop
    BY <1>11 DEF ForceStop, Enter
<1>12. CASE Reconcile
    BY <1>12 DEF Reconcile, Continue, Done, WatcherLeaves, Known, Needed
<1>13. CASE Survivors
    BY <1>13 DEF Survivors, Continue
<1>14. CASE Spawn
    BY <1>14 DEF Spawn, Continue
<1>15. CASE SpawnFails
    BY <1>15 DEF SpawnFails, Fault, GiveBack, Done
<1>16. CASE RegisterProcesses
    BY <1>16 DEF RegisterProcesses, Continue
<1>17. CASE Ready
    BY <1>17 DEF Ready, Continue
<1>18. CASE NotReady
    BY <1>18 DEF NotReady, Continue, Fault
<1>19. CASE Abort
    BY <1>19 DEF Abort, GiveBack, Done
<1>20. CASE Write
    BY <1>20 DEF Write, Continue, Known
<1>21. CASE ClearIdle
    BY <1>21 DEF ClearIdle, Continue, Done
<1>22. CASE EnsureWatcher
    BY <1>22 DEF EnsureWatcher, Grant, Done
<1>23. CASE EnsureWatcherFails
    BY <1>23 DEF EnsureWatcherFails, Fault, GiveBack, Done
<1>24. CASE Boundary
  <2>1. lease' = lease
      BY <1>24 DEF Boundary
  <2>2. CASE \E s \in Sessions : lease[s] >= 0
      BY <1>24, <2>1, <2>2 DEF Boundary, Seen, Active, Done, Cap
  <2>3. CASE ~\E s \in Sessions : lease[s] >= 0
    <3>1. granted = {} /\ granted' = granted /\ quiet' = quiet
        BY <1>24, <2>3 DEF Boundary
    <3>2. PICK q \in {"yes", "no"} :
             /\ idle' = IF q = "no" THEN -1 ELSE IF idle = -1 THEN 0 ELSE idle
             /\ IF q = "yes" /\ Automatic /\ idle' >= GraceOf
                THEN Continue("confirm")
                ELSE GoOn
        BY <1>24, <2>3 DEF Boundary, IdleBoundary, ShouldShutdown
    <3>3. /\ step' \in {"confirm", "watcher", "free"}
          /\ step' = "watcher" => op' = "release"
        BY <3>2 DEF Continue, GoOn, Done
    <3>4. step' \in {"confirm", "stop"} =>
             step' = "confirm" /\ Automatic /\ idle' >= GraceOf /\ op' = op
        BY <3>2 DEF Continue, GoOn, Done
    <3>5. op \in {"release", "status", "doctor", "reap"}
        BY <1>24 DEF Boundary
    <3>6. idle' <= quiet'
        BY <3>1, <3>2 DEF Cap
    <3>7. op' = op => (Automatic' <=> Automatic) /\ GraceOf' = GraceOf
        BY DEF Automatic, GraceOf
    <3> QED
        BY <2>1, <3>1, <3>3, <3>4, <3>5, <3>6, <3>7
  <2> QED
      BY <2>2, <2>3
<1>25. CASE ProcessMissing
    BY <1>25 DEF ProcessMissing, Known, WatcherLeaves, Done
<1>26. CASE Confirm
    BY <1>26 DEF Confirm, Reaped, Active, Seen, Continue, Done, Quiescent, IdleBoundary, Fault,
        Cap
<1>27. CASE Stop
    BY <1>27 DEF Stop, WatcherLeaves, Done
<1>28. CASE BeginUpdate
    BY <1>28 DEF BeginUpdate
<1>29. CASE UpdateStops
    BY <1>29 DEF UpdateStops, Enter
<1>30. CASE EndUpdate
    BY <1>30 DEF EndUpdate
<1>31. CASE UpdateKilled
    BY <1>31 DEF UpdateKilled, Fault
<1>32. CASE Kill
    BY <1>32 DEF Kill, Fault, Done
<1>33. CASE WatcherTimesOut
    BY <1>33 DEF WatcherTimesOut, Fault
<1>34. CASE WatcherEnds
    BY <1>34 DEF WatcherEnds
<1>35. CASE ProcessDies
    BY <1>35 DEF ProcessDies, Fault
<1>36. CASE Work
    BY <1>36 DEF Work
<1>37. CASE Tick
    BY <1>37 DEF Tick, Sooner, Cap
<1> QED
    BY <1>1, <1>2, <1>3, <1>4, <1>5, <1>6, <1>7, <1>8, <1>9, <1>10, <1>11, <1>12,
        <1>13, <1>14, <1>15, <1>16, <1>17, <1>18, <1>19, <1>20, <1>21, <1>22, <1>23,
        <1>24, <1>25, <1>26, <1>27, <1>28, <1>29, <1>30, <1>31, <1>32, <1>33, <1>34,
        <1>35, <1>36, <1>37
    DEF LeasesNext, Step

\* Files, processes, leases and operations keep their types, with any number of
\* faults (supervisor.py, leases.py).
THEOREM LeasesTypes == LeasesSpec => []LeasesTypeOK
<1>1. InitLeases => LeasesTypeOK
    BY LeasesInit DEF ProcessInv
<1>2. QED
    BY <1>1, LeasesTypeStep, PTL DEF LeasesSpec

LEMMA ProcessInvariance == LeasesSpec => []ProcessInv
<1>1. InitLeases => ProcessInv
    BY LeasesInit
<1>2. ProcessInv /\ [LeasesNext]_leasevars => ProcessInv'
    BY ProcessStep
<1>3. QED
    BY <1>1, <1>2, PTL DEF LeasesSpec

\* However often supervisors, watchers, updates and processes are killed, every
\* process that runs is in runtime.json or processes.json whenever the lock is
\* free, except the ones that a supervisor started and did not live, or did not
\* get, to register (_start, _register_processes).
THEOREM ProcessesAccounted == LeasesSpec => []NoOrphans
<1>1. ProcessInv => NoOrphans
    BY DEF ProcessInv, LeasesTypeOK, Accounted, NoOrphans
<1>2. QED
    BY <1>1, ProcessInvariance, PTL

\* Nothing but those runs while an update replaces the release, although an
\* acquire that was under way when the barrier was written goes on.
THEOREM UpdatesAlone == LeasesSpec => []NothingRunsDuringUpdate
<1>1. ProcessInv => NothingRunsDuringUpdate
    BY DEF ProcessInv, LeasesTypeOK, Accounted, Barred, NothingRunsDuringUpdate
<1>2. QED
    BY <1>1, ProcessInvariance, PTL

\* Processes are known when the lock is free and gone when an update replaces
\* the release, with that one exception.
THEOREM KnownProcesses == LeasesSpec => []ProcessesKnown
BY LeasesTypes, ProcessesAccounted, UpdatesAlone, PTL DEF ProcessesKnown

\* For any grace periods and either residency mode: hooks and the watcher stop a
\* runtime for idleness only when it is not always on and after the whole
\* configured grace period without a granted lease; doctor and status only after
\* the default one (release, reap_idle, status, should_shutdown).
THEOREM GraceKept == LeasesSpec => []GraceIsGiven
<1>1. InitLeases => GraceInv
    BY LeasesInit
<1>2. GraceInv /\ [LeasesNext]_leasevars => GraceInv'
    BY GraceStep
<1>3. GraceInv => GraceIsGiven
    BY LeasesAssumption DEF GraceInv, LeasesTypeOK, GraceIsGiven, Automatic, GraceOf, Cap
<1>4. QED
    BY <1>1, <1>2, <1>3, PTL DEF LeasesSpec
=============================================================================
