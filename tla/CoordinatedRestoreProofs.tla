---------------------- MODULE CoordinatedRestoreProofs ----------------------
(***************************************************************************)
(* The restore is all or nothing for every set of archives and any number  *)
(* of kills and failed steps, until one of three kinds of step fails:      *)
(* stopping Core, unlinking a file, or the work _write_journal does after  *)
(* it has replaced the file.  TLC shows that each of the three breaks it.  *)
(***************************************************************************)
EXTENDS CoordinatedRestore, TLAPS

Tracked == jstate \notin {"none", "restore_inconsistent"}

Undo == {"stop_again", "rollback", "restore", "restart", "write_rolled_back"}
Forward == {"replace", "write_applied", "start", "write_healthy", "commit",
            "write_committed"}

(* What Core holds follows from its transaction, what rounds.db holds is    *)
(* one of the two versions, and an unknown transaction id means that        *)
(* rounds.db has not been touched.                                          *)
TrackedData ==
    Tracked =>
        /\ tx \in {"none", "rolled_back"} => core = snapshot
        /\ tx \in {"applied", "committed"} => core = jarchive
        /\ tx = "applied" => prior = snapshot
        /\ rounds \in {snapshot, jarchive}
        /\ jtx = "id" => tx # "none"
        /\ jtx = "null" => rounds = snapshot /\ tx # "committed"
        /\ jstate = "prepared" => tx = "none" /\ jtx = "null"
        /\ profile = "secure" => newer = "none"

(* Where the process can be for each state of the journal.                  *)
Places ==
    /\ ~Tracked => pc \in {"idle", "report", "mark"}
    /\ jstate = "committed" =>
          /\ pc \in {"idle", "report", "cleanup", "discard"}
          /\ tx = "committed" /\ rounds = jarchive
    /\ pc = "discard" => jstate \in {"committed", "prepared"}
    /\ pc \notin {"idle", "mark"} /\ Tracked => memtx = jtx
    /\ pc \in Forward \cup Undo => memtx = "id"
    /\ pc \in {"call_begin", "write_begun"} => memtx = "null"
    /\ mode = "undo_begin" => pc \in Undo \cup {"idle", "cleanup", "mark"}

(* What each step of apply_restore and of the undo has established.  What   *)
(* is left to recovery has not been committed, and rounds.db is as before.  *)
Progress ==
    /\ pc = "pend" => rounds = snapshot /\ tx # "committed"
    /\ pc \in Forward \ {"replace"} => rounds = jarchive
    /\ pc \in {"call_begin", "write_begun"} => jstate = "begin_pending"
    /\ pc = "write_begun" => tx # "none"
    /\ pc = "write_committed" => tx = "committed"
    /\ pc \in {"restore", "restart"} /\ mode # "undo_failed" => tx = "rolled_back"
    /\ pc = "restart" /\ mode # "undo_failed" => rounds = snapshot
    /\ pc = "write_rolled_back" => tx = "rolled_back" /\ rounds = snapshot
    /\ pc = "cleanup" =>
          \/ jstate = "committed"
          \/ jstate = "rolled_back" /\ tx = "rolled_back" /\ rounds = snapshot

RestoreInv ==
    /\ TypeOK
    /\ jstate = "none" => rounds = core
    /\ profile = "secure" /\ service = "up" => jstate = "none"
    /\ TrackedData
    /\ Places
    /\ Progress
-----------------------------------------------------------------------------
(* Types, whatever fails.                                                   *)

USE RestoreAssumption

LEMMA InitInv == Init => RestoreInv
<1> SUFFICES ASSUME Init PROVE RestoreInv
    OBVIOUS
<1>1. TypeOK
    BY DEF Init, TypeOK, Versions, AllFiles, Pending, Labels
<1>2. TrackedData /\ Places /\ Progress
    BY DEF Init, TrackedData, Places, Progress, Tracked, Forward, Undo
<1> QED
    BY <1>1, <1>2 DEF RestoreInv, Init

LEMMA TypeStep == TypeOK /\ [Next]_vars => TypeOK'
<1> SUFFICES ASSUME TypeOK, [Next]_vars PROVE TypeOK'
    OBVIOUS
<1> USE DEF TypeOK, Versions, AllFiles, Pending, Labels, store, coreSide, journal, control, trouble
<1>1. CASE UNCHANGED vars
    BY <1>1 DEF vars
<1>2. ASSUME NEW a \in Archives, Prepare(a) PROVE TypeOK'
    BY <1>2 DEF Prepare, PrepareCore
<1>3. ASSUME NEW a \in Archives, PrepareExisting(a) PROVE TypeOK'
    BY <1>3 DEF PrepareExisting
<1>4. CASE StopCore
    BY <1>4 DEF StopCore
<1>5. CASE StopFails
    BY <1>5 DEF StopFails, Fault, Raise
<1>6. CASE BeginPending
    BY <1>6 DEF BeginPending, Persist, WriteJournal, Fault, Raise
<1>7. CASE BeginKnown
    BY <1>7 DEF BeginKnown
<1>8. CASE CallBegin
    BY <1>8 DEF CallBegin, CoreBegin, Fault, Raise
<1>9. CASE Begun
    BY <1>9 DEF Begun, Fault, Raise
<1>10. CASE ReplaceRounds
    BY <1>10 DEF ReplaceRounds, Fault, Raise
<1>11. CASE RoundsApplied
    BY <1>11 DEF RoundsApplied, Persist, WriteJournal, Fault, Raise
<1>12. CASE StartCore
    BY <1>12 DEF StartCore, Fault, Raise
<1>13. CASE Healthy
    BY <1>13 DEF Healthy, Persist, WriteJournal, Fault, Raise
<1>14. CASE Commit
    BY <1>14 DEF Commit, CoreCommit, Fault, Raise
<1>15. CASE Committed
    BY <1>15 DEF Committed, Persist, WriteJournal, Fault, Raise
<1>16. CASE Report
    BY <1>16 DEF Report
<1>17. CASE LeavePending
    BY <1>17 DEF LeavePending, WritePending, Fault
<1>18. CASE StopAgain
    BY <1>18 DEF StopAgain, Fault
<1>19. CASE RollbackCore
    BY <1>19 DEF RollbackCore, CoreRollback, Tolerate, Fault
<1>20. CASE RestoreRounds
    BY <1>20 DEF RestoreRounds, Tolerate, Fault
<1>21. CASE Restart
    BY <1>21 DEF Restart, Tolerate, Fault
<1>22. CASE RolledBack
    BY <1>22 DEF RolledBack, Persist, WriteJournal, Fault, Raise
<1>23. CASE Mark
    BY <1>23 DEF Mark, WriteJournal, EndCommand, Fault
<1>24. CASE UnlinkFile
    BY <1>24 DEF UnlinkFile, NextFile
<1>25. CASE Cleaned
    BY <1>25 DEF Cleaned, DropJournal, EndCommand
<1>26. CASE CleanupFails
    BY <1>26 DEF CleanupFails, Fault, Raise
<1>27. CASE Discarded
    BY <1>27 DEF Discarded, DropJournal, EndCommand
<1>28. CASE DiscardFails
    BY <1>28 DEF DiscardFails, EndCommand, Fault
<1>29. CASE ServiceStart
    BY <1>29 DEF ServiceStart
<1>30. CASE ServiceStartUnrecovered
    BY <1>30 DEF ServiceStartUnrecovered, Fault
<1>31. CASE Recover
    BY <1>31 DEF Recover
<1>32. CASE RefuseInconsistent
    BY <1>32 DEF RefuseInconsistent, vars
<1>33. CASE CaptureRound
    BY <1>33 DEF CaptureRound
<1>34. CASE ServiceStop
    BY <1>34 DEF ServiceStop
<1>35. CASE Kill
    BY <1>35 DEF Kill
<1> QED
    BY <1>1, <1>2, <1>3, <1>4, <1>5, <1>6, <1>7, <1>8, <1>9, <1>10, <1>11,
       <1>12, <1>13, <1>14, <1>15, <1>16, <1>17, <1>18, <1>19, <1>20, <1>21,
       <1>22, <1>23, <1>24, <1>25, <1>26, <1>27, <1>28, <1>29, <1>30, <1>31,
       <1>32, <1>33, <1>34, <1>35 DEF Next, Step

LEMMA InvStep ==
    ASSUME RestoreInv, [Next]_vars, forfeit' = "no"
    PROVE  RestoreInv'
<1> DEFINE Served == profile = "secure" /\ service = "up" => jstate = "none"
<1> DEFINE Same == jstate = "none" => rounds = core
<1> DEFINE Rest == Same /\ Served /\ TrackedData /\ Places /\ Progress
<1>0. TypeOK'
    BY TypeStep DEF RestoreInv
<1> SUFFICES Rest'
    BY <1>0 DEF RestoreInv
<1> USE DEF Unanswered, RestoreInv, TypeOK, TrackedData, Places, Progress, Tracked,
            Forward, Undo, Pending, Labels, store, coreSide, journal, control, trouble
<1>1. CASE UNCHANGED vars
    BY <1>1 DEF vars
<1>2. ASSUME NEW a \in Archives, Prepare(a) PROVE Rest'
    BY <1>2 DEF Prepare, PrepareCore
<1>3. ASSUME NEW a \in Archives, PrepareExisting(a) PROVE Rest'
    BY <1>3 DEF PrepareExisting
<1>4. CASE StopCore
    BY <1>4 DEF StopCore
<1>5. CASE StopFails
    BY <1>5 DEF StopFails, Fault, Raise
<1>6. CASE BeginPending
    BY <1>6 DEF BeginPending, Persist, WriteJournal, Fault, Raise
<1>7. CASE BeginKnown
    BY <1>7 DEF BeginKnown
<1>8. CASE CallBegin
    BY <1>8 DEF CallBegin, CoreBegin, Fault, Raise
<1>9. CASE Begun
    BY <1>9 DEF Begun, Fault, Raise
<1>10. CASE ReplaceRounds
    BY <1>10 DEF ReplaceRounds, Fault, Raise
<1>11. CASE RoundsApplied
    BY <1>11 DEF RoundsApplied, Persist, WriteJournal, Fault, Raise
<1>12. CASE StartCore
    BY <1>12 DEF StartCore, Fault, Raise
<1>13. CASE Healthy
    BY <1>13 DEF Healthy, Persist, WriteJournal, Fault, Raise
<1>14. CASE Commit
    BY <1>14 DEF Commit, CoreCommit, Fault, Raise
<1>15. CASE Committed
    BY <1>15 DEF Committed, Persist, WriteJournal, Fault, Raise
<1>16. CASE Report
    BY <1>16 DEF Report
<1>17. CASE LeavePending
    BY <1>17 DEF LeavePending, WritePending, Fault
<1>18. CASE StopAgain
    BY <1>18 DEF StopAgain, Fault
<1>19. CASE RollbackCore
    BY <1>19 DEF RollbackCore, CoreRollback, Tolerate, Fault
<1>20. CASE RestoreRounds
    BY <1>20 DEF RestoreRounds, Tolerate, Fault
<1>21. CASE Restart
    BY <1>21 DEF Restart, Tolerate, Fault
<1>22. CASE RolledBack
    BY <1>22 DEF RolledBack, Persist, WriteJournal, Fault, Raise
<1>23. CASE Mark
    BY <1>23 DEF Mark, WriteJournal, EndCommand, Fault
<1>24. CASE UnlinkFile
    BY <1>24 DEF UnlinkFile, NextFile
<1>25. CASE Cleaned
    BY <1>25 DEF Cleaned, DropJournal, EndCommand
<1>26. CASE CleanupFails
    BY <1>26 DEF CleanupFails, Fault, Raise
<1>27. CASE Discarded
    BY <1>27 DEF Discarded, DropJournal, EndCommand
<1>28. CASE DiscardFails
    BY <1>28 DEF DiscardFails, EndCommand, Fault
<1>29. CASE ServiceStart
    BY <1>29 DEF ServiceStart
<1>30. CASE ServiceStartUnrecovered
    BY <1>30 DEF ServiceStartUnrecovered, Fault
<1>31. CASE Recover
    BY <1>31 DEF Recover
<1>32. CASE RefuseInconsistent
    BY <1>32 DEF RefuseInconsistent, vars
<1>33. CASE CaptureRound
    BY <1>33 DEF CaptureRound
<1>34. CASE ServiceStop
    BY <1>34 DEF ServiceStop
<1>35. CASE Kill
    BY <1>35 DEF Kill
<1> QED
    BY <1>1, <1>2, <1>3, <1>4, <1>5, <1>6, <1>7, <1>8, <1>9, <1>10, <1>11,
       <1>12, <1>13, <1>14, <1>15, <1>16, <1>17, <1>18, <1>19, <1>20, <1>21,
       <1>22, <1>23, <1>24, <1>25, <1>26, <1>27, <1>28, <1>29, <1>30, <1>31,
       <1>32, <1>33, <1>34, <1>35 DEF Next, Step

-----------------------------------------------------------------------------
(* How a command ends.                                                      *)

(* An undo of the restore command is never taken for a restore, and what is *)
(* reported is the journal's archive.  recover never goes on with a restore *)
(* it finds, so what it cleans up and then marks was undone.                *)
OutcomeInv ==
    /\ Tracked => jarchive \in Archives
    /\ pc \in Undo /\ cmd = "restore" => mode # "forward"
    /\ pc = "cleanup" /\ cmd = "restore" /\ mode = "forward" => jstate = "committed"
    /\ pc = "report" => rounds = core /\ rounds \in Archives
    /\ message = "restored" => pc = "idle" /\ rounds = core /\ rounds \in Archives
    /\ pc = "begin" /\ cmd = "recover" => memtx = "null"
    /\ pc \in Forward => cmd = "restore"
    /\ pc = "cleanup" /\ jstate = "committed" => cmd = "restore"
    /\ pc = "mark" /\ jstate = "none" => rounds = snapshot

LEMMA OutcomeStep ==
    ASSUME RestoreInv, OutcomeInv, [Next]_vars, forfeit' = "no"
    PROVE  OutcomeInv'
<1> USE DEF Unanswered, RestoreInv, OutcomeInv, TypeOK, TrackedData, Places, Progress, Tracked,
            Forward, Undo, Pending, Labels, store, coreSide, journal, control, trouble
<1>1. CASE UNCHANGED vars
    BY <1>1 DEF vars
<1>2. ASSUME NEW a \in Archives, Prepare(a) PROVE OutcomeInv'
    BY <1>2 DEF Prepare, PrepareCore
<1>3. ASSUME NEW a \in Archives, PrepareExisting(a) PROVE OutcomeInv'
    BY <1>3 DEF PrepareExisting
<1>4. CASE StopCore
    BY <1>4 DEF StopCore
<1>5. CASE StopFails
    BY <1>5 DEF StopFails, Fault, Raise
<1>6. CASE BeginPending
    BY <1>6 DEF BeginPending, Persist, WriteJournal, Fault, Raise
<1>7. CASE BeginKnown
    BY <1>7 DEF BeginKnown
<1>8. CASE CallBegin
    BY <1>8 DEF CallBegin, CoreBegin, Fault, Raise
<1>9. CASE Begun
    BY <1>9 DEF Begun, Fault, Raise
<1>10. CASE ReplaceRounds
    BY <1>10 DEF ReplaceRounds, Fault, Raise
<1>11. CASE RoundsApplied
    BY <1>11 DEF RoundsApplied, Persist, WriteJournal, Fault, Raise
<1>12. CASE StartCore
    BY <1>12 DEF StartCore, Fault, Raise
<1>13. CASE Healthy
    BY <1>13 DEF Healthy, Persist, WriteJournal, Fault, Raise
<1>14. CASE Commit
    BY <1>14 DEF Commit, CoreCommit, Fault, Raise
<1>15. CASE Committed
    BY <1>15 DEF Committed, Persist, WriteJournal, Fault, Raise
<1>16. CASE Report
    BY <1>16 DEF Report
<1>17. CASE LeavePending
    BY <1>17 DEF LeavePending, WritePending, Fault
<1>18. CASE StopAgain
    BY <1>18 DEF StopAgain, Fault
<1>19. CASE RollbackCore
    BY <1>19 DEF RollbackCore, CoreRollback, Tolerate, Fault
<1>20. CASE RestoreRounds
    BY <1>20 DEF RestoreRounds, Tolerate, Fault
<1>21. CASE Restart
    BY <1>21 DEF Restart, Tolerate, Fault
<1>22. CASE RolledBack
    BY <1>22 DEF RolledBack, Persist, WriteJournal, Fault, Raise
<1>23. CASE Mark
    BY <1>23 DEF Mark, WriteJournal, EndCommand, Fault
<1>24. CASE UnlinkFile
    BY <1>24 DEF UnlinkFile, NextFile
<1>25. CASE Cleaned
    BY <1>25 DEF Cleaned, DropJournal, EndCommand
<1>26. CASE CleanupFails
    BY <1>26 DEF CleanupFails, Fault, Raise
<1>27. CASE Discarded
    BY <1>27 DEF Discarded, DropJournal, EndCommand
<1>28. CASE DiscardFails
    BY <1>28 DEF DiscardFails, EndCommand, Fault
<1>29. CASE ServiceStart
    BY <1>29 DEF ServiceStart
<1>30. CASE ServiceStartUnrecovered
    BY <1>30 DEF ServiceStartUnrecovered, Fault
<1>31. CASE Recover
    BY <1>31 DEF Recover
<1>32. CASE RefuseInconsistent
    BY <1>32 DEF RefuseInconsistent, vars
<1>33. CASE CaptureRound
    BY <1>33 DEF CaptureRound
<1>34. CASE ServiceStop
    BY <1>34 DEF ServiceStop
<1>35. CASE Kill
    BY <1>35 DEF Kill
<1> QED
    BY <1>1, <1>2, <1>3, <1>4, <1>5, <1>6, <1>7, <1>8, <1>9, <1>10, <1>11,
       <1>12, <1>13, <1>14, <1>15, <1>16, <1>17, <1>18, <1>19, <1>20, <1>21,
       <1>22, <1>23, <1>24, <1>25, <1>26, <1>27, <1>28, <1>29, <1>30, <1>31,
       <1>32, <1>33, <1>34, <1>35 DEF Next, Step

-----------------------------------------------------------------------------
(* The saga's variables keep their types, whatever fails.                   *)
THEOREM RestoreTypes == Spec => []TypeOK
<1>1. Init => TypeOK
    BY InitInv DEF RestoreInv
<1> QED
    BY <1>1, TypeStep, PTL DEF Spec

(* A promise that is forfeit stays so.                                      *)
LEMMA Forfeits ==
    ASSUME TypeOK, [Next]_vars, forfeit' = "no"
    PROVE  forfeit = "no"
<1> USE DEF trouble, Fault, TypeOK
<1>1. CASE \/ StopFails \/ BeginPending \/ CallBegin \/ Begun \/ ReplaceRounds \/ RoundsApplied
           \/ StartCore \/ Healthy \/ Commit \/ Committed
    BY <1>1 DEF StopFails, BeginPending, CallBegin, Begun, ReplaceRounds, RoundsApplied, StartCore,
                Healthy, Commit, Committed, Persist
<1>2. CASE \/ LeavePending \/ StopAgain \/ RollbackCore \/ RestoreRounds \/ Restart \/ RolledBack
           \/ Mark \/ CleanupFails \/ DiscardFails \/ ServiceStartUnrecovered \/ Kill
    BY <1>2 DEF LeavePending, StopAgain, RollbackCore, RestoreRounds, Restart, RolledBack, Persist,
                Mark, CleanupFails, DiscardFails, ServiceStartUnrecovered, Kill
<1>3. CASE \/ \E a \in Archives : Prepare(a) \/ PrepareExisting(a)
           \/ StopCore \/ BeginKnown \/ Report \/ UnlinkFile \/ Cleaned \/ Discarded
           \/ ServiceStart \/ Recover \/ RefuseInconsistent \/ CaptureRound \/ ServiceStop
           \/ UNCHANGED vars
    BY <1>3 DEF Prepare, PrepareExisting, StopCore, BeginKnown, Report, UnlinkFile, Cleaned,
                Discarded, ServiceStart, Recover, RefuseInconsistent, CaptureRound, ServiceStop,
                vars
<1> QED
    BY <1>1, <1>2, <1>3 DEF Next, Step

(* The inductive invariant.                                                 *)
Inv == TypeOK /\ (forfeit = "no" => RestoreInv /\ OutcomeInv)

LEMMA RestoreInvariance == Spec => []Inv
<1>1. Init => Inv
  <2>1. Init => OutcomeInv
    BY DEF Init, OutcomeInv, Tracked, Undo, Forward
  <2> QED
    BY <2>1, InitInv DEF Inv, RestoreInv
<1>2. Inv /\ [Next]_vars => Inv'
    BY TypeStep, Forfeits, InvStep, OutcomeStep DEF Inv
<1> QED
    BY <1>1, <1>2, PTL DEF Spec

(* All or nothing: without a journal both databases hold the same version   *)
(* (apply_restore, _compensate, recover, killed anywhere), up to a failure  *)
(* that is Unanswered; so in the theorems that follow.                      *)
THEOREM RestoreIsAtomic == Spec => []NoSilentMix
<1>1. Inv => NoSilentMix
    BY DEF Inv, RestoreInv, NoSilentMix
<1> QED
    BY <1>1, RestoreInvariance, PTL

(* A secure service only runs on two databases of the same version.         *)
THEOREM ServesConsistentPair == Spec => []ServedConsistent
<1>1. Inv => ServedConsistent
    BY DEF Inv, RestoreInv, ServedConsistent
<1> QED
    BY <1>1, RestoreInvariance, PTL

(* The restore command reports success only when both databases hold the    *)
(* same archive.                                                            *)
THEOREM ReportsARestore == Spec => []ReportIsOfARestore
<1>1. Inv => ReportIsOfARestore
    BY DEF Inv, OutcomeInv, ReportIsOfARestore
<1> QED
    BY <1>1, RestoreInvariance, PTL

(* Both databases are restored, or none, for whoever looks for a journal,   *)
(* for a secure service and for who reads what the command printed.         *)
THEOREM RestoresBothOrNone == Spec => []Atomicity
BY RestoreTypes, RestoreIsAtomic, ServesConsistentPair, ReportsARestore, PTL DEF Atomicity

(* In the secure profile an undo never takes back captured rounds.          *)
THEOREM UndoKeepsCaptures == Spec => []RollbackLosesNoCapture
<1>1. Inv => RollbackLosesNoCapture
    BY DEF Inv, RestoreInv, RollbackLosesNoCapture, TrackedData, Places, Tracked
<1> QED
    BY <1>1, RestoreInvariance, PTL

-----------------------------------------------------------------------------
(* The saga implements AtomicRestore.                                       *)

LEMMA InitAbstract == Init => Abstract!Init
BY DEF Init, Abstract!Init

\* While the journal is there and unmarked, nothing is seen of the saga.
LEMMA UnderWay ==
    ASSUME Tracked, Tracked', UNCHANGED <<snapshot, jarchive, forfeit>>
    PROVE  UNCHANGED Abstract!vars
BY DEF Tracked, Abstract!vars

LEMMA Untouched ==
    ASSUME UNCHANGED <<jstate, rounds, core, snapshot, jarchive, forfeit>>
    PROVE  UNCHANGED Abstract!vars
BY DEF Abstract!vars

\* What the journal says when a restore ends is what both databases hold.
LEMMA EndsTogether ==
    ASSUME RestoreInv, pc \in {"cleanup", "discard"}
    PROVE  /\ Tracked
           /\ rounds = core /\ rounds \in {snapshot, jarchive}
           /\ jstate = "rolled_back" => rounds = snapshot
BY DEF RestoreInv, TypeOK, Tracked, TrackedData, Places, Progress

LEMMA EndAbstract ==
    ASSUME RestoreInv, pc \in {"cleanup", "discard"}, DropJournal, UNCHANGED <<rounds, core>>,
           forfeit = "no", forfeit' = "no"
    PROVE  Abstract!Next
<1>1. Tracked /\ rounds = core /\ rounds \in {snapshot, jarchive}
    BY EndsTogether
<1>2. CASE rounds = jarchive
    BY <1>1, <1>2 DEF Tracked, DropJournal, Abstract!Next, Abstract!Restore
<1>3. CASE rounds = snapshot
    BY <1>1, <1>3 DEF Tracked, DropJournal, Abstract!Next, Abstract!Undo
<1> QED
    BY <1>1, <1>2, <1>3

LEMMA StepAbstract ==
    ASSUME RestoreInv, OutcomeInv, [Next]_vars, forfeit = "no", forfeit' = "no"
    PROVE  [Abstract!Next]_(Abstract!vars)
<1> USE DEF store, coreSide, journal, control
<1>1. ASSUME NEW a \in Archives, Prepare(a) PROVE Abstract!Next
  <2>1. Abstract!Open(a)
    BY <1>1 DEF Prepare, PrepareCore, RestoreInv, Abstract!Open
  <2> QED
    BY <2>1 DEF Abstract!Next
<1>2. ASSUME Cleaned \/ Discarded PROVE Abstract!Next
    BY <1>2, EndAbstract DEF Cleaned, Discarded
<1>3. ASSUME Mark PROVE [Abstract!Next]_(Abstract!vars)
  <2>1. CASE UNCHANGED journal
    BY <1>3, <2>1, Untouched DEF Mark
  <2>2. CASE jstate' = "restore_inconsistent" /\ jstate = "restore_inconsistent"
    BY <1>3, <2>2, Untouched DEF Mark, WriteJournal
  <2>3. CASE jstate' = "restore_inconsistent" /\ jstate # "restore_inconsistent"
    <3>1. jstate = "none" => rounds = snapshot /\ core = snapshot
      BY <1>3 DEF Mark, OutcomeInv, RestoreInv
    <3>2. UNCHANGED <<rounds, core, snapshot, jarchive>>
      BY <1>3 DEF Mark, WriteJournal
    <3>3. Abstract!Mark
      BY <2>3, <3>1, <3>2 DEF Abstract!Mark
    <3> QED
      BY <3>3 DEF Abstract!Next
  <2> QED
    BY <1>3, <2>1, <2>2, <2>3 DEF Mark, WriteJournal
<1>4. ASSUME \/ BeginPending \/ CallBegin \/ Begun \/ ReplaceRounds \/ RoundsApplied
             \/ Healthy \/ Commit \/ Committed \/ LeavePending \/ RollbackCore
             \/ RestoreRounds \/ RolledBack
      PROVE  UNCHANGED Abstract!vars
  <2>1. Tracked
    BY <1>4 DEF RestoreInv, Places, BeginPending, CallBegin, Begun, ReplaceRounds, RoundsApplied,
                Healthy, Commit, Committed, LeavePending, RollbackCore, RestoreRounds, RolledBack
  <2>2. /\ UNCHANGED jstate \/ jstate' \in Pending \cup {"committed", "rolled_back"}
        /\ UNCHANGED <<snapshot, jarchive>>
    BY <1>4 DEF Pending, BeginPending, CallBegin, Begun, ReplaceRounds, RoundsApplied, Healthy,
                Commit, Committed, LeavePending, RollbackCore, RestoreRounds, RolledBack,
                Persist, WriteJournal, WritePending
  <2>3. Tracked'
    BY <2>1, <2>2 DEF Tracked, Pending
  <2> QED
    BY <2>1, <2>2, <2>3, UnderWay
<1>5. ASSUME \/ StopCore \/ StopFails \/ BeginKnown \/ StartCore \/ Report \/ StopAgain
             \/ Restart \/ UnlinkFile \/ CleanupFails \/ DiscardFails
             \/ ServiceStart \/ ServiceStartUnrecovered \/ Recover \/ RefuseInconsistent
             \/ CaptureRound \/ ServiceStop \/ Kill
             \/ (\E a \in Archives : PrepareExisting(a)) \/ UNCHANGED vars
      PROVE  UNCHANGED Abstract!vars
  <2>1. UNCHANGED <<jstate, rounds, core, snapshot, jarchive>>
    BY <1>5 DEF StopCore, StopFails, BeginKnown, StartCore, Report, StopAgain, Restart, UnlinkFile,
                CleanupFails, DiscardFails, ServiceStart, ServiceStartUnrecovered, Recover,
                RefuseInconsistent, CaptureRound, ServiceStop, Kill, PrepareExisting, vars
  <2> QED
    BY <2>1, Untouched
<1> QED
    BY <1>1, <1>2, <1>3, <1>4, <1>5 DEF Next, Step

(* The journaled saga, killed anywhere and recovered or continued later, is *)
(* a restore that happens at once or not at all.                            *)
THEOREM SagaIsARestore == Spec => ImplementsAtomicRestore
<1>1. Inv /\ Inv' /\ [Next]_vars => [Abstract!Next]_(Abstract!vars)
  <2> SUFFICES ASSUME Inv, Inv', [Next]_vars PROVE [Abstract!Next]_(Abstract!vars)
    OBVIOUS
  <2>1. CASE forfeit' = "yes"
    BY <2>1 DEF Abstract!Next, Abstract!Forfeit
  <2>2. CASE forfeit' = "no"
    BY <2>2, Forfeits, StepAbstract DEF Inv
  <2> QED
    BY <2>1, <2>2 DEF Inv, TypeOK
<1> QED
    BY <1>1, InitAbstract, RestoreInvariance, PTL
       DEF Spec, ImplementsAtomicRestore, Abstract!Spec
=============================================================================
