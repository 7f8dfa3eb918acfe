------------------------ MODULE CoordinatedRestore ------------------------
(***************************************************************************)
(* maintenance/coordinated_restore.py: the journaled saga that restores    *)
(* rounds.db and Core's knowledge.db from one backup archive, as the       *)
(* restore command (cli.py) and the service's start (bootstrap.py) use it. *)
(*                                                                         *)
(* The content of a database is the version it was restored to.  The       *)
(* service lock is assumed: one command or one service at a time.  Between *)
(* any two steps the process may be killed.                                *)
(***************************************************************************)
EXTENDS Naturals

CONSTANTS
    Live,      \* the content both databases have before any restore
    Archives,  \* backup archives; each holds one version of both databases
    Fallible,  \* the kinds of step that may fail
    Profiles,  \* values of core_security.profile
    MaxFaults  \* bound: failed steps and kills in one behaviour

\* The failures the saga has no answer to: Core does not stop, a file stays, and
\* _write_journal raises after it has replaced the file.
Unanswered == {"stop", "sync", "unlink"}
FaultKinds == {"stop", "start", "begin", "manifest", "commit", "rollback",
               "copy", "journal", "sync", "unlink"}

ASSUME RestoreAssumption ==
    /\ Live \notin Archives
    /\ Fallible \subseteq FaultKinds
    /\ Profiles \subseteq {"secure", "permissive"}
    /\ MaxFaults \in Nat

VARIABLES
    rounds,    \* version in rounds.db
    newer,     \* rounds captured since the rollback snapshot: "none" or "some"
    core,      \* Core: version in knowledge.db
    prior,     \* Core: version its own rollback of the transaction returns to
    tx,        \* Core: state of the restore transaction of the journal's token
    jstate,    \* state of restore-journal.json, "none" without a file
    jtx,       \* core_restore_transaction_id of the journal: "null" or "id"
    jarchive,  \* archive the journal was prepared from
    snapshot,  \* version in the rounds rollback snapshot
    files,     \* files of the journal's restore that still exist
    pc,        \* next step of the running command or starting service
    cmd,       \* "restore": apply_restore for the CLI; "recover": a service starts
    mode,      \* "forward", or in _compensate: "undo", "undo_failed" after a failure,
               \* "undo_begin" when _begin_if_needed has called it
    memtx,     \* core_restore_transaction_id of the journal object in memory
    asked,     \* archive the operator named
    message,   \* what the last command printed: "restored" or "none"
    service,   \* "up" while the service captures rounds, else "down"
    profile,   \* core_security.profile, fixed
    faults,
    forfeit    \* "yes" from the first failure that is Unanswered on

store == <<rounds, newer, snapshot, files>>
coreSide == <<core, prior, tx>>
journal == <<jstate, jtx, jarchive>>
control == <<cmd, asked, message, service, profile>>
trouble == <<faults, forfeit>>
vars == <<store, coreSide, journal, control, pc, mode, memtx, trouble>>

Versions == Archives \cup {Live}
AllFiles == {"rollback", "exchange", "staging"}
Pending == {"begin_pending", "applied_pending_commit",
            "rounds_applied_pending_commit", "healthy_pending_commit"}
Labels == {"idle", "stop", "begin", "call_begin", "write_begun", "replace",
           "write_applied", "start", "write_healthy", "commit", "write_committed",
           "cleanup", "report", "pend", "stop_again", "rollback", "restore",
           "restart", "write_rolled_back", "mark", "discard"}

TypeOK ==
    /\ rounds \in Versions /\ core \in Versions /\ prior \in Versions
    /\ newer \in {"none", "some"}
    /\ tx \in {"none", "applied", "committed", "rolled_back"}
    /\ jstate \in Pending \cup {"none", "prepared", "committed", "rolled_back",
                                "restore_inconsistent"}
    /\ jtx \in {"null", "id"} /\ memtx \in {"null", "id"}
    /\ jarchive \in Versions /\ snapshot \in Versions /\ asked \in Versions
    /\ files \in SUBSET AllFiles
    /\ pc \in Labels
    /\ cmd \in {"restore", "recover"}
    /\ mode \in {"forward", "undo", "undo_failed", "undo_begin"}
    /\ message \in {"none", "restored"}
    /\ service \in {"up", "down"}
    /\ service = "up" => pc = "idle"
    /\ profile \in Profiles
    /\ faults \in Nat /\ forfeit \in {"no", "yes"}

Init ==
    /\ rounds = Live /\ core = Live /\ prior = Live
    /\ newer = "none"
    /\ tx = "none"
    /\ jstate = "none" /\ jtx = "null"
    /\ jarchive = Live /\ snapshot = Live /\ asked = Live
    /\ files = {}
    /\ pc = "idle" /\ cmd = "restore"
    /\ mode = "forward" /\ memtx = "null"
    /\ message = "none" /\ service = "down"
    /\ profile \in Profiles
    /\ faults = 0 /\ forfeit = "no"

-----------------------------------------------------------------------------
(* Exceptions.                                                              *)

Fault(kind) ==
    /\ kind \in Fallible
    /\ faults < MaxFaults
    /\ faults' = faults + 1
    /\ forfeit' = IF kind \in Unanswered THEN "yes" ELSE forfeit

\* An exception reaches the handlers of recover or of apply_restore: recover
\* marks the journal; apply_restore compensates, or, when the transaction id
\* is unknown, leaves the outcome to a later recovery; an error of the
\* compensation itself leaves the command, or, out of _begin_if_needed, is taken
\* for an unknown begin.  The compensation starts at label undo: whether Core
\* still has to be stopped.
Raise(undo) ==
    \/ /\ cmd = "recover"
       /\ pc' = "mark"
       /\ UNCHANGED mode
    \/ /\ cmd = "restore" /\ mode \in {"undo", "undo_failed"}
       /\ pc' = "idle"
       /\ UNCHANGED mode
    \/ /\ cmd = "restore" /\ mode = "undo_begin"
       /\ pc' = "pend"
       /\ mode' = "undo"
    \/ /\ cmd = "restore" /\ mode = "forward"
       /\ pc' = IF memtx = "id" THEN undo ELSE "pend"
       /\ mode' = "undo"

\* Mutant: the failure of an undo step is forgotten.
Tolerate_Forgets(next) ==
    /\ pc' = IF mode = "forward" THEN "mark" ELSE next
    /\ UNCHANGED mode

\* _compensate collects the failure and goes on; recover gives up.
Tolerate(next) ==
    /\ pc' = IF mode = "forward" THEN "mark" ELSE next
    /\ mode' = IF mode = "forward" THEN "forward" ELSE "undo_failed"

\* _write_journal of the journal in memory with another state.  A failed
\* write may have replaced the file before it raised (chmod, directory sync).
WriteJournal(state) ==
    /\ jstate' = state
    /\ jtx' = memtx
    /\ UNCHANGED jarchive

Persist(state, next, undo) ==
    /\ \/ WriteJournal(state) /\ pc' = next /\ UNCHANGED <<mode, trouble>>
       \/ Fault("journal") /\ UNCHANGED journal /\ Raise(undo)
       \/ Fault("sync") /\ WriteJournal(state) /\ Raise(undo)
    /\ UNCHANGED <<store, coreSide, control, memtx>>

-----------------------------------------------------------------------------
(* The restore command, _command_backup_restore.                            *)

\* CoreBackupService.prepare_restore: the archive is verified and staged, and
\* Core has issued a token for it; nothing of this stays when a part fails.
PrepareCore(a) == jarchive' = a /\ tx' = "none"

\* prepare_restore without a journal: Core hands out a new token, rounds.db is
\* copied and the journal written.  A failed preparation removes its files.
Prepare(a) ==
    /\ pc = "idle" /\ service = "down"
    /\ jstate = "none"
    /\ PrepareCore(a)
    /\ jstate' = "prepared" /\ jtx' = "null"
    /\ snapshot' = rounds /\ newer' = "none"
    /\ files' = AllFiles
    /\ cmd' = "restore" /\ asked' = a /\ message' = "none"
    /\ pc' = "stop"
    /\ mode' = "forward" /\ memtx' = "null"
    /\ UNCHANGED <<rounds, core, prior, service, trouble, profile>>

\* Mutant: a journal marked for the operator is continued like any other.
PrepareExisting_TakesMarked(a) ==
    /\ pc = "idle" /\ service = "down"
    /\ jstate # "none"
    /\ cmd' = "restore" /\ asked' = a /\ message' = "none"
    /\ pc' = IF jstate = "committed" THEN "report" ELSE "stop"
    /\ mode' = "forward" /\ memtx' = jtx
    /\ UNCHANGED <<store, coreSide, journal, service, trouble, profile>>

\* prepare_restore with a journal continues that one, whatever archive the
\* operator named; apply_restore returns at once when it is committed.
PrepareExisting(a) ==
    /\ pc = "idle" /\ service = "down"
    /\ jstate \notin {"none", "restore_inconsistent"}
    /\ cmd' = "restore" /\ asked' = a /\ message' = "none"
    /\ pc' = IF jstate = "committed" THEN "report" ELSE "stop"
    /\ mode' = "forward" /\ memtx' = jtx
    /\ UNCHANGED <<store, coreSide, journal, service, trouble, profile>>

\* stop_core, in apply_restore and in recover.
StopCore ==
    /\ pc = "stop"
    /\ pc' = IF cmd = "recover" /\ memtx = "id" THEN "rollback" ELSE "begin"
    /\ UNCHANGED <<store, coreSide, journal, control, mode, memtx, trouble>>

\* began is still false when the journal has no transaction id: apply_restore
\* then takes the restore for one that never reached Core.
StopFails ==
    /\ pc = "stop"
    /\ Fault("stop")
    /\ IF cmd = "restore" /\ memtx = "null"
       THEN pc' = "discard" /\ UNCHANGED mode
       ELSE Raise("stop_again")
    /\ UNCHANGED <<store, coreSide, journal, control, memtx>>

\* _begin_if_needed, up to the call.
BeginPending ==
    /\ pc = "begin"
    /\ memtx = "null"
    /\ Persist("begin_pending", "call_begin", "rollback")

BeginKnown ==
    /\ pc = "begin"
    /\ memtx = "id"
    /\ pc' = "replace"
    /\ UNCHANGED <<store, coreSide, journal, control, mode, memtx, trouble>>

\* Core's begin_restore: idempotent for a token.
CoreBegin ==
    IF tx = "none"
    THEN core' = jarchive /\ prior' = core /\ tx' = "applied"
    ELSE UNCHANGED coreSide

CallBegin ==
    /\ pc = "call_begin"
    /\ \/ /\ "exchange" \in files
          /\ CoreBegin
          /\ pc' = "write_begun"
          /\ UNCHANGED <<mode, trouble>>
       \/ /\ "exchange" \notin files
          /\ Raise("rollback")
          /\ UNCHANGED <<coreSide, trouble>>
       \/ /\ Fault("begin")
          /\ UNCHANGED coreSide \/ ("exchange" \in files /\ CoreBegin)
          /\ Raise("rollback")
    /\ UNCHANGED <<store, journal, control, memtx>>

\* The transaction id is known in memory once it is in the journal.  A Core
\* that answers for another artifact is compensated on the spot.
Begun ==
    /\ pc = "write_begun"
    /\ \/ /\ jstate' = "applied_pending_commit" /\ jtx' = "id" /\ memtx' = "id"
          /\ \/ /\ pc' = IF cmd = "recover" THEN "rollback" ELSE "replace"
                /\ UNCHANGED <<mode, trouble>>
             \/ Fault("manifest") /\ pc' = "rollback" /\ mode' = "undo_begin"
       \/ /\ Fault("journal")
          /\ Raise("rollback")
          /\ UNCHANGED <<jstate, jtx, memtx>>
       \/ /\ Fault("sync")
          /\ jstate' = "applied_pending_commit" /\ jtx' = "id"
          /\ Raise("rollback")
          /\ UNCHANGED memtx
    /\ UNCHANGED <<store, coreSide, jarchive, control>>

\* _replace_rounds_database: the staged snapshot takes the place of rounds.db.
ReplaceRounds ==
    /\ pc = "replace"
    /\ \/ /\ "staging" \in files
          /\ rounds' = jarchive /\ newer' = "none"
          /\ pc' = "write_applied"
          /\ UNCHANGED <<mode, trouble>>
       \/ /\ "staging" \notin files
          /\ Raise("rollback")
          /\ UNCHANGED <<rounds, newer, trouble>>
       \/ /\ Fault("copy")
          /\ \/ UNCHANGED <<rounds, newer>>
             \/ "staging" \in files /\ rounds' = jarchive /\ newer' = "none"
          /\ Raise("rollback")
    /\ UNCHANGED <<snapshot, files, coreSide, journal, control, memtx>>

RoundsApplied ==
    pc = "write_applied" /\ Persist("rounds_applied_pending_commit", "start", "rollback")

\* start_core and _require_healthy.
StartCore ==
    /\ pc = "start"
    /\ \/ pc' = "write_healthy" /\ UNCHANGED <<mode, trouble>>
       \/ Fault("start") /\ Raise("stop_again")
    /\ UNCHANGED <<store, coreSide, journal, control, memtx>>

Healthy ==
    pc = "write_healthy" /\ Persist("healthy_pending_commit", "commit", "stop_again")

\* Core's commit_restore: refused once the transaction is rolled back.
CoreCommit == tx' = "committed" /\ UNCHANGED <<core, prior>>

Commit ==
    /\ pc = "commit"
    /\ \/ /\ tx # "rolled_back"
          /\ CoreCommit
          /\ pc' = "write_committed"
          /\ UNCHANGED <<mode, trouble>>
       \/ /\ tx = "rolled_back"
          /\ Raise("stop_again")
          /\ UNCHANGED <<coreSide, trouble>>
       \/ /\ Fault("commit")
          /\ UNCHANGED coreSide \/ (tx # "rolled_back" /\ CoreCommit)
          /\ Raise("stop_again")
    /\ UNCHANGED <<store, journal, control, memtx>>

Committed ==
    pc = "write_committed" /\ Persist("committed", "cleanup", "stop_again")

\* apply_restore has returned committed: the command prints its message.
Report ==
    /\ pc = "report"
    /\ pc' = "idle"
    /\ message' = "restored"
    /\ UNCHANGED <<store, coreSide, journal, cmd, asked, service, mode,
                   memtx, trouble, profile>>

-----------------------------------------------------------------------------
(* _compensate, and the same steps of recover.                              *)

\* Without a transaction id in apply_restore's own journal object the outcome of
\* begin is left to recovery.
WritePending == jstate' = "begin_pending" /\ jtx' = "null" /\ UNCHANGED jarchive

LeavePending ==
    /\ pc = "pend"
    /\ \/ WritePending /\ pc' = "idle" /\ UNCHANGED trouble
       \/ Fault("journal") /\ UNCHANGED journal /\ pc' = "mark"
       \/ Fault("sync") /\ WritePending /\ pc' = "mark"
    /\ memtx' = "null"
    /\ UNCHANGED <<store, coreSide, control, mode>>

StopAgain ==
    /\ pc = "stop_again"
    /\ pc' = "rollback"
    /\ \/ UNCHANGED <<mode, trouble>>
       \/ Fault("stop") /\ mode' = "undo_failed"
    /\ UNCHANGED <<store, coreSide, journal, control, memtx>>

\* Core's rollback_restore: idempotent, refused once committed.
CoreRollback ==
    /\ tx # "committed"
    /\ core' = IF tx = "applied" THEN prior ELSE core
    /\ tx' = "rolled_back"
    /\ UNCHANGED prior

RollbackCore ==
    /\ pc = "rollback"
    /\ \/ CoreRollback /\ pc' = "restore" /\ UNCHANGED <<mode, trouble>>
       \/ tx = "committed" /\ Tolerate("restore") /\ UNCHANGED <<coreSide, trouble>>
       \/ Fault("rollback") /\ Tolerate("restore") /\ (UNCHANGED coreSide \/ CoreRollback)
    /\ UNCHANGED <<store, journal, control, memtx>>

\* _restore_rounds_database: back to the snapshot taken by prepare_restore.
RestoreRounds ==
    /\ pc = "restore"
    /\ \/ /\ "rollback" \in files
          /\ rounds' = snapshot /\ newer' = "none"
          /\ pc' = "restart"
          /\ UNCHANGED <<mode, trouble>>
       \/ /\ "rollback" \notin files
          /\ Tolerate("restart")
          /\ UNCHANGED <<rounds, newer, trouble>>
       \/ /\ Fault("copy")
          /\ Tolerate("restart")
          /\ \/ UNCHANGED <<rounds, newer>>
             \/ "rollback" \in files /\ rounds' = snapshot /\ newer' = "none"
    /\ UNCHANGED <<snapshot, files, coreSide, journal, control, memtx>>

Restart ==
    /\ pc = "restart"
    /\ \/ /\ pc' = IF mode = "undo_failed" THEN "mark" ELSE "write_rolled_back"
          /\ UNCHANGED <<mode, trouble>>
       \/ Fault("start") /\ Tolerate("mark")
    /\ UNCHANGED <<store, coreSide, journal, control, memtx>>

RolledBack ==
    pc = "write_rolled_back" /\ Persist("rolled_back", "cleanup", "stop_again")

\* Mutant: the profile is not looked at.
EndCommand_Serves(recovered) ==
    /\ pc' = "idle"
    /\ service' = IF cmd = "recover" /\ recovered \in BOOLEAN THEN "up" ELSE "down"

\* A service that starts is served as it is, or, in the secure profile, only
\* when nothing is left to recover (secure_serving_ready).
EndCommand(recovered) ==
    /\ pc' = "idle"
    /\ service' = IF cmd = "recover" /\ (recovered \/ profile = "permissive") THEN "up" ELSE "down"

\* _mark_inconsistent: a failed write is swallowed.
Mark ==
    /\ pc = "mark"
    /\ \/ WriteJournal("restore_inconsistent") /\ UNCHANGED trouble
       \/ Fault("journal") /\ UNCHANGED journal
       \/ Fault("sync") /\ WriteJournal("restore_inconsistent")
    /\ EndCommand(FALSE)
    /\ UNCHANGED <<store, coreSide, cmd, asked, message, mode, memtx, profile>>

-----------------------------------------------------------------------------
(* Cleanup: the files first, one by one, the journal last.                  *)

NextFile(f) ==
    /\ f \in files
    /\ f = "exchange" => "rollback" \notin files
    /\ f = "staging" => files = {"staging"}

UnlinkFile ==
    /\ pc \in {"cleanup", "discard"}
    /\ \E f \in AllFiles : NextFile(f) /\ files' = files \ {f}
    /\ UNCHANGED <<rounds, newer, snapshot, coreSide, journal, control, pc, mode,
                   memtx, trouble>>

DropJournal == jstate' = "none" /\ jtx' = "null" /\ jarchive' = Live

\* Mutant: a rollback that could be cleaned up counts as a restore.
Cleaned_Reports ==
    /\ pc = "cleanup"
    /\ files = {}
    /\ DropJournal
    /\ IF cmd = "restore" THEN pc' = "report" /\ UNCHANGED service
       ELSE IF mode = "forward" THEN EndCommand(TRUE) ELSE pc' = "mark" /\ UNCHANGED service
    /\ UNCHANGED <<store, coreSide, cmd, asked, message, mode, memtx, trouble, profile>>

\* _cleanup_success: after a commit, or after a rollback whose error is raised.
Cleaned ==
    /\ pc = "cleanup"
    /\ files = {}
    /\ DropJournal
    /\ IF cmd = "restore"
       THEN pc' = (IF mode = "forward" THEN "report" ELSE "idle") /\ UNCHANGED service
       ELSE IF mode = "forward" THEN EndCommand(TRUE) ELSE pc' = "mark" /\ UNCHANGED service
    /\ UNCHANGED <<store, coreSide, cmd, asked, message, mode, memtx, trouble, profile>>

\* An unlink raises inside the try block; rmtree of the staging directory
\* ignores errors.
CleanupFails ==
    /\ pc = "cleanup"
    /\ files # {"staging"}
    /\ Fault("unlink")
    /\ Raise("stop_again")
    /\ UNCHANGED <<store, coreSide, journal, control, memtx>>

\* _cleanup_failed_before_begin, and recover's cleanup of a committed journal:
\* errors leave the command or the recovery.
Discarded ==
    /\ pc = "discard"
    /\ files = {}
    /\ DropJournal
    /\ EndCommand(TRUE)
    /\ UNCHANGED <<store, coreSide, cmd, asked, message, mode, memtx, trouble, profile>>

DiscardFails ==
    /\ pc = "discard"
    /\ files # {"staging"}
    /\ Fault("unlink")
    /\ EndCommand(FALSE)
    /\ UNCHANGED <<store, coreSide, journal, cmd, asked, message, mode, memtx, profile>>

-----------------------------------------------------------------------------
(* The service, start_capture and _recover_restore_journal.                 *)

ServiceStart ==
    /\ pc = "idle" /\ service = "down"
    /\ jstate = "none"
    /\ service' = "up" /\ message' = "none"
    /\ UNCHANGED <<store, coreSide, journal, cmd, asked, pc, mode, memtx, trouble, profile>>

\* Core is unavailable, or the journal is marked: the service reports it, and
\* in the permissive profile serves all the same.
ServiceStartUnrecovered ==
    /\ pc = "idle" /\ service = "down"
    /\ profile = "permissive"
    /\ \/ jstate = "restore_inconsistent" /\ UNCHANGED trouble
       \/ jstate # "none" /\ Fault("start")
    /\ service' = "up" /\ message' = "none"
    /\ UNCHANGED <<store, coreSide, journal, cmd, asked, pc, mode, memtx, profile>>

\* Mutant: a journal whose begin is unknown is left alone.
Recover_SkipsBeginPending ==
    /\ pc = "idle" /\ service = "down"
    /\ jstate \notin {"none", "begin_pending", "restore_inconsistent"}
    /\ pc' = IF jstate = "committed" \/ (jstate = "prepared" /\ jtx = "null")
             THEN "discard" ELSE "stop"
    /\ cmd' = "recover" /\ message' = "none"
    /\ mode' = "forward" /\ memtx' = jtx
    /\ UNCHANGED <<store, coreSide, journal, asked, service, trouble, profile>>

\* recover, its first tests.
Recover ==
    /\ pc = "idle" /\ service = "down"
    /\ jstate \notin {"none", "restore_inconsistent"}
    /\ pc' = IF jstate = "committed" \/ (jstate = "prepared" /\ jtx = "null")
             THEN "discard" ELSE "stop"
    /\ cmd' = "recover" /\ message' = "none"
    /\ mode' = "forward" /\ memtx' = jtx
    /\ UNCHANGED <<store, coreSide, journal, asked, service, trouble, profile>>

\* A marked journal refuses prepare_restore, apply_restore and recover.
RefuseInconsistent ==
    /\ pc = "idle" /\ service = "down"
    /\ jstate = "restore_inconsistent"
    /\ UNCHANGED vars

CaptureRound ==
    /\ service = "up"
    /\ newer' = "some"
    /\ UNCHANGED <<rounds, snapshot, files, coreSide, journal, control, pc, mode,
                   memtx, trouble>>

ServiceStop ==
    /\ service = "up"
    /\ service' = "down"
    /\ UNCHANGED <<store, coreSide, journal, cmd, asked, message, pc, mode,
                   memtx, trouble, profile>>

\* The process is killed.
Kill ==
    /\ pc # "idle"
    /\ faults < MaxFaults
    /\ faults' = faults + 1
    /\ pc' = "idle"
    /\ UNCHANGED <<store, coreSide, journal, control, mode, memtx, forfeit>>

-----------------------------------------------------------------------------
Step ==
    \/ StopCore \/ StopFails
    \/ BeginPending \/ BeginKnown \/ CallBegin \/ Begun
    \/ ReplaceRounds \/ RoundsApplied \/ StartCore \/ Healthy
    \/ Commit \/ Committed \/ Report
    \/ LeavePending \/ StopAgain \/ RollbackCore \/ RestoreRounds \/ Restart
    \/ RolledBack \/ Mark
    \/ UnlinkFile \/ Cleaned \/ CleanupFails \/ Discarded \/ DiscardFails

Next ==
    \/ \E a \in Archives : Prepare(a) \/ PrepareExisting(a)
    \/ Step
    \/ ServiceStart \/ ServiceStartUnrecovered \/ Recover \/ RefuseInconsistent
    \/ CaptureRound \/ ServiceStop
    \/ Kill

Spec == Init /\ [][Next]_vars

(* A running command or start goes on, and the operator does not repeat the *)
(* restore command for ever without starting the service; nobody has to     *)
(* restore, capture, stop or kill.                                          *)
FairSpec == Spec /\ WF_vars(Step) /\ SF_vars(Recover)

-----------------------------------------------------------------------------
(* Properties.                                                              *)

\* Each of these is about behaviours without a failure that is Unanswered.

\* The restore is all or nothing: without a journal that says otherwise, both
\* databases hold the same version (apply_restore, _compensate, recover).
NoSilentMix ==
    forfeit = "no" /\ jstate = "none" => rounds = core

\* In the secure profile rounds are only captured on top of a consistent pair
\* (_recover_restore_journal, secure_serving_ready).
ServedConsistent ==
    forfeit = "no" /\ profile = "secure" /\ service = "up" => rounds = core /\ jstate = "none"

\* "backup restored: <source>" is printed only when both databases hold the same
\* archive, never after a restore that was undone, whatever journal the command
\* found (apply_restore, _command_backup_restore).
ReportIsOfARestore ==
    forfeit = "no" /\ message = "restored" => rounds = core /\ rounds \in Archives

\* The restore changes both databases or none, seen from outside: by whoever
\* looks for a journal, by a secure service, and by who reads the command's
\* message, up to a failure that is Unanswered.
Atomicity == TypeOK /\ NoSilentMix /\ ServedConsistent /\ ReportIsOfARestore

\* In the secure profile, up to a failure that is Unanswered, going back to the
\* rollback snapshot loses no round captured after it was taken: "temporary Core or
\* provider unavailability must not destroy captured data"
\* (_restore_rounds_database).
RollbackLosesNoCapture ==
    forfeit = "no" /\ profile = "secure" /\ pc = "restore" /\ "rollback" \in files =>
        newer = "none"

\* A restore is open while there is a journal; until it ends the databases
\* count as what they were when it was prepared.
Abstract == INSTANCE AtomicRestore WITH
    local <- IF jstate = "none" THEN rounds ELSE snapshot,
    remote <- IF jstate = "none" THEN core ELSE snapshot,
    target <- jarchive,
    status <- IF forfeit = "yes" THEN "forfeit"
              ELSE IF jstate = "none" THEN "settled"
              ELSE IF jstate = "restore_inconsistent" THEN "marked" ELSE "open"

\* The saga with its journal, kills, continued and recovered restores is a
\* restore that happens at once or not at all: both databases leave it with what
\* they held when it was prepared, or both with the archive it was prepared from.
\* Nothing is promised once a failure is Unanswered (apply_restore, _compensate,
\* recover, _cleanup_success).
ImplementsAtomicRestore == Abstract!Spec

\* Every journal is resolved, whatever failed: a later service start removes it
\* once both sides agree, or marks it for the operator (recover).  A permissive service that
\* runs on an unresolved journal keeps it until its next start.
EveryRestoreResolves ==
    jstate # "none" ~> (jstate \in {"none", "restore_inconsistent"} \/ service = "up")
=============================================================================
