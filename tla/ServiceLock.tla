---------------------------- MODULE ServiceLock ----------------------------
(***************************************************************************)
(* service_lock.py: the lock file that keeps a second Local service, or a  *)
(* maintenance command, off the data of a running one.  A process is       *)
(* identified by its pid: a pid that is down may come back as another      *)
(* LedgerMind process, or as a program that has nothing to do with it.     *)
(* Every system call on the lock file is one action.                       *)
(***************************************************************************)
EXTENDS Naturals

CONSTANTS
    Pids,      \* process ids
    Nil,       \* no lock file
    Overlap,   \* whether a process may start while another is acquiring
    Writable   \* whether the lock file's directory can be written

ASSUME LockAssumption ==
    /\ Nil \notin Pids
    /\ Overlap \in BOOLEAN
    /\ Writable \in BOOLEAN

VARIABLES
    pc,      \* where each process is in acquire and release
    file,    \* the pid that created the file now at lock_path, or Nil
    written  \* whether that file already holds its payload

lockvars == <<pc, file, written>>

Acquiring == {"create", "write", "exists", "read", "unlink"}

LockTypeOK ==
    /\ pc \in [Pids -> Acquiring \cup {"down", "foreign", "owner"}]
    /\ file \in Pids \cup {Nil}
    /\ written \in BOOLEAN
    /\ written => file # Nil

LockInit ==
    /\ pc = [p \in Pids |-> "down"]
    /\ file = Nil
    /\ written = FALSE

-----------------------------------------------------------------------------
Goto(p, label) == pc' = [pc EXCEPT ![p] = label]

\* os.kill(pid, 0): any process with that pid counts, whatever it is.
IsRunning(q) == pc[q] # "down"

\* A service or a maintenance command calls acquire.
Start(p) ==
    /\ pc[p] = "down"
    /\ Overlap \/ \A q \in Pids : pc[q] \notin Acquiring
    /\ Goto(p, "create")
    /\ UNCHANGED <<file, written>>

\* _try_create_lock: O_CREAT | O_EXCL.  FileExistsError and every other OSError
\* become the same ServiceLockError, which acquire answers with the cleanup.
CreateLock(p) ==
    /\ pc[p] = "create"
    /\ IF file = Nil /\ Writable
       THEN file' = p /\ written' = FALSE /\ Goto(p, "write")
       ELSE Goto(p, "exists") /\ UNCHANGED <<file, written>>

\* os.write on the descriptor: the payload reaches the file at lock_path only
\* while that is still the file this process created.
WritePayload(p) ==
    /\ pc[p] = "write"
    /\ written' = (written \/ file = p)
    /\ Goto(p, "owner")
    /\ UNCHANGED file

\* _maybe_cleanup_stale_lock: without a file, try again.
LockExists(p) ==
    /\ pc[p] = "exists"
    /\ Goto(p, IF file = Nil THEN "create" ELSE "read")
    /\ UNCHANGED <<file, written>>

\* Mutant: every lock that is found is taken for stale.
LooksStale_Always(f, w) == f = Nil \/ w \in BOOLEAN

\* An unreadable or empty payload counts as pid 0, and so does a missing file.
LooksStale(f, w) == f = Nil \/ ~w \/ ~IsRunning(f)

\* Mutant: a live owner is waited for.
JudgeLock_Waits(p) ==
    /\ pc[p] = "read"
    /\ Goto(p, IF LooksStale(file, written) THEN "unlink" ELSE "exists")
    /\ UNCHANGED <<file, written>>

\* Read the payload and look at its process: stale, or raise to the caller.
JudgeLock(p) ==
    /\ pc[p] = "read"
    /\ Goto(p, IF LooksStale(file, written) THEN "unlink" ELSE "down")
    /\ UNCHANGED <<file, written>>

\* unlink(missing_ok=True), then around the loop; in a directory that cannot be
\* written the error leaves acquire.
AfterUnlink == IF Writable \/ file = Nil THEN "create" ELSE "down"

\* The unlink removes whatever file is at lock_path by now.
UnlinkStale(p) ==
    /\ pc[p] = "unlink"
    /\ Goto(p, AfterUnlink)
    /\ file' = IF Writable THEN Nil ELSE file
    /\ written' = (written /\ ~Writable)

\* release: also whatever file is there.
Release(p) ==
    /\ pc[p] = "owner"
    /\ Goto(p, "down")
    /\ file' = Nil
    /\ written' = FALSE

\* The process is killed; the file stays.
Crash(p) ==
    /\ pc[p] \in Acquiring \cup {"owner"}
    /\ Goto(p, "down")
    /\ UNCHANGED <<file, written>>

\* The system hands the pid of a dead process to another program.
ForeignStart(p) ==
    /\ pc[p] = "down"
    /\ Goto(p, "foreign")
    /\ UNCHANGED <<file, written>>

ForeignExit(p) ==
    /\ pc[p] = "foreign"
    /\ Goto(p, "down")
    /\ UNCHANGED <<file, written>>

-----------------------------------------------------------------------------
Acquire(p) ==
    CreateLock(p) \/ WritePayload(p) \/ LockExists(p) \/ JudgeLock(p) \/ UnlinkStale(p)

LockNext ==
    \E p \in Pids :
        \/ Start(p)
        \/ Acquire(p)
        \/ Release(p)
        \/ Crash(p)
        \/ ForeignStart(p)
        \/ ForeignExit(p)

LockSpec == LockInit /\ [][LockNext]_lockvars

(* A process that is acquiring keeps running; nothing else has to happen.   *)
FairLockSpec == LockSpec /\ \A p \in Pids : WF_lockvars(Acquire(p))

-----------------------------------------------------------------------------
(* Properties.                                                              *)

\* "Single-owner process lock for the local service": two processes never
\* both return from acquire without one having released.
SingleOwner ==
    \A p, q \in Pids : pc[p] = "owner" /\ pc[q] = "owner" => p = q

\* The owner's file stays at lock_path, with its payload, until it releases:
\* stale-lock cleanup never removes the lock of a live service.
OwnerKeepsItsFile ==
    \A p \in Pids : pc[p] = "owner" => file = p /\ written

\* What the lock is for, of processes in any state of acquire and release: one
\* owner, whose file is there.
Ownership == LockTypeOK /\ SingleOwner /\ OwnerKeepsItsFile

\* Every acquire comes to an end: it returns, or it raises ServiceLockError
\* ("Raised when lock cannot be acquired").
AcquireEnds ==
    \A p \in Pids : pc[p] \in Acquiring ~> pc[p] \notin Acquiring
=============================================================================
