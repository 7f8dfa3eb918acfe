----------------------------- MODULE Installer -----------------------------
(***************************************************************************)
(* The installer: installation of a signed release, update, provider       *)
(* reconfiguration, connection of agents, repair, import and removal       *)
(* (installer/operations, transaction.py, config_writer.py), with the      *)
(* schema migrations of rounds.db (persistence/rounds_migrations) and the  *)
(* cutover of its payloads to the present contract (contract_migration.py).*)
(*                                                                         *)
(* One operator runs one operation at a time.  Agents' hooks start the     *)
(* runtime whenever the update barrier is down, and the runtime captures   *)
(* rounds.  Every step may fail, and the operator's process may be killed  *)
(* or interrupted with Ctrl-C at every step.  Configurations are numbered  *)
(* by Gens; 0 is a file that is not there.  A rollback may fail as well.    *)
(*                                                                         *)
(* A configuration may name a directory of its own for rounds.db           *)
(* (memory_data_path); update and configure nevertheless save, put back    *)
(* and examine only the file of the default directory.                     *)
(***************************************************************************)
EXTENDS Naturals, Sequences, FiniteSets, AgentTargets

CONSTANTS
    Schema,      \* migrations each release has for rounds.db
    Reformed,    \* releases of the present payload contract
    Found,       \* bound: releases that may be there at the start
    Setups,      \* bound: agents, what is in their plugins' places, and where rounds.db is
    Gens,        \* configurations an operator may ask for
    Agents,
    Choices,     \* agents that a configuration may select
    Operations,  \* operations the operator uses
    MaxOps,      \* bound: operations in one behaviour
    MaxFaults,   \* bound: failures, kills and interrupts; of rollbacks, one more
    MaxRounds    \* bound: rounds that are captured

None == "none"

ASSUME InstallerAssumption ==
    /\ Schema \in [Versions -> Nat] /\ Found \subseteq Versions
    /\ {None, "user", "edited", "absent"} \cap Versions = {}
    /\ Reformed \subseteq Versions
    /\ \A v \in Reformed, w \in Versions \ Reformed : Schema[w] < Schema[v]
    /\ Setups \subseteq [place : {"default", "named"}, kind : [Agents -> Kinds],
                         file : [Agents -> {"none", "user"}]]
    /\ 0 \notin Gens /\ Choices \subseteq [Agents -> Enabling]
    /\ MaxOps \in Nat /\ MaxFaults \in Nat /\ MaxRounds \in Nat

\* generation_profile_fingerprint: of the configuration, as the code of a
\* release materializes it.
Fingerprints == [gen : Gens \cup {0}, code : Versions \cup {None}]
NoFingerprint == [gen |-> 0, code |-> None]

Selections == [Agents -> Enabling]
NoSelection == [a \in Agents |-> None]

\* config.json, profiles.json, the secret file, local-config.json and its copy.
Disks == [config : [gen : Gens \cup {0}, sel : Selections], profiles : Gens \cup {0},
          secrets : Gens \cup {0},
          local : [gen : Gens \cup {0}, release : Versions \cup {None, "current"}]]
NoDisk == [config |-> [gen |-> 0, sel |-> NoSelection], profiles |-> 0, secrets |-> 0,
           local |-> [gen |-> 0, release |-> None]]

\* rounds.db, with the rounds whose payloads are of the former contract, the
\* marker of the cutover, and whether a command is left as delivering.
Databases == [profile : Fingerprints, probed : Fingerprints, schema : Nat,
              rounds : SUBSET (1..MaxRounds), legacy : SUBSET (1..MaxRounds),
              marker : {"yes", "no"}, delivering : {"yes", "no"}]
NoDatabase == [profile |-> NoFingerprint, probed |-> NoFingerprint, schema |-> 0, rounds |-> {},
               legacy |-> {}, marker |-> "no", delivering |-> "no"]

Snapshots == [disk : Disks, db : Databases, current : Versions \cup {None},
              releases : SUBSET Versions]
NoSnapshot == [disk |-> NoDisk, db |-> NoDatabase, current |-> None, releases |-> {}]

VARIABLES
    releases,  \* releases on disk
    spoiled,   \* those whose files are not the signed ones
    current,   \* the link to the one in use
    binlink,   \* the command on the user's path
    disk, db,
    place,     \* the directory of rounds.db that the configurations give
    agent,     \* the directories of each agent
    barrier,   \* update-in-progress
    runtime,   \* release of the running runtime
    op,        \* the operation: what was asked for
    pc,        \* its next step
    inner,     \* what InstallTransaction remembers
    outer,     \* what update or configure remembers
    switched, returned,
    todo,      \* agents still to be connected or removed
    seen, step,  \* the adapter's install
    outcome,   \* how the operation ended, or is about to
    before,    \* history: the state when it began
    lapsed,    \* history: the steps of its rollback that failed
    disturbed, \* history: what may have left a release and its files apart
    mine,      \* history: what the user last had at the plugin's place
    replaced,  \* history: whose file the payload replaced last, or that the record
               \* of it is lost
    captured,  \* history: rounds the runtime has captured
    ops, faults

machine == <<releases, spoiled, current, binlink, disk, db, agent, barrier, runtime>>
memory == <<op, inner, outer, switched, returned, todo, seen, step>>
history == <<place, before, lapsed, disturbed, mine, replaced, captured>>
vars == <<machine, memory, pc, outcome, history, ops, faults>>

Bundles == [source : {"network", "file", "directory"}, intact : BOOLEAN]
NoOp == [kind |-> "none", ver |-> None, gen |-> 0, code |-> None, skip |-> "no", purge |-> {},
         sel |-> NoSelection, agent |-> None, enabled |-> None]

Requests == [kind : Operations \cup {"none"}, ver : Versions \cup {None}, gen : Gens \cup {0},
             code : Versions \cup {None}, skip : {"yes", "no"}, purge : SUBSET {"data", "config"},
             sel : Selections, agent : Agents \cup {None}, enabled : Enabling]

WriteSteps == {"secrets", "config", "profiles", "local", "migrate", "materialize", "probe"}
CommittedSteps == {"backup", "switch", "binlink", "doctor"} \cup WriteSteps
AdapterSteps == {"adapter", "persist"}
RollbackSteps == {"undo_link", "undo_release", "undo_db", "undo_files",
                  "back_link", "back_files", "back_db", "back_release"}

TypeOK ==
    /\ releases \subseteq Versions /\ spoiled \subseteq Versions /\ current \in Versions \cup {None}
    /\ binlink \in {"present", "absent"} /\ disk \in Disks /\ db \in Databases
    /\ agent \in [Agents -> Agent] /\ barrier \in {"up", "down"}
    /\ runtime \in Versions \cup {None}
    /\ op \in Requests
    /\ pc \in {"idle", "prepare", "commit", "stop", "save", "connect", "check",
               "disconnect", "unpersist", "remove", "sweep"}
              \cup CommittedSteps \cup AdapterSteps \cup RollbackSteps
    /\ inner \in Snapshots /\ outer \in Snapshots
    /\ switched \in {"yes", "no"} /\ returned \in {"yes", "no"} /\ todo \subseteq Agents
    /\ seen \in Agent /\ step \in 1..4
    /\ outcome \in {"none", "ok", "partial", "failed", "killed", "interrupted"}
    /\ place \in {"default", "named"} /\ before \in Snapshots /\ lapsed \subseteq RollbackSteps
    /\ disturbed \subseteq {"killed", "interrupted", "older", "rollback", "unrestored"}
    /\ mine \in [Agents -> {"none", "user", "edited"}]
    /\ replaced \in [Agents -> {"user", "own", "lost"}]
    /\ captured \in 0..MaxRounds /\ ops \in 0..MaxOps /\ faults \in 0..(MaxFaults + 1)

\* An agent before its first connection, with a file or none at the plugin's place.
Fresh(kind, file) == [kind |-> kind, hooks |-> {"user"}, file |-> file, settings |-> None,
                      record |-> NoRecord, active |-> None]

\* An agent as a first connection leaves it.
Connected(kind, now, release) ==
    [now EXCEPT !.settings = "enabled",
                !.hooks = IF kind = "hooks" THEN MergeHooks(@) ELSE @,
                !.file = IF kind = "hooks" THEN @ ELSE release,
                !.record = IF kind = "hooks" THEN @
                           ELSE [before |-> now.file, after |-> release, settings |-> None],
                !.active = IF kind = "hermes" THEN "enabled" ELSE @]

\* Nothing is installed ...
NothingThere(setup) ==
    /\ releases = {} /\ current = None /\ binlink = "absent" /\ disk = NoDisk /\ db = NoDatabase
    /\ agent = [a \in Agents |-> Fresh(setup.kind[a], setup.file[a])]

\* ... or a release, with some of the agents connected.
ReleaseThere(setup, v, g, connected) ==
    /\ releases = {v} /\ current = v /\ binlink = "present"
    /\ disk = [config |-> [gen |-> g, sel |-> [a \in Agents |->
                              IF a \in connected THEN "enabled" ELSE None]],
               profiles |-> g, secrets |-> g, local |-> [gen |-> g, release |-> v]]
    /\ db = [profile |-> [gen |-> g, code |-> v], probed |-> [gen |-> g, code |-> v],
             schema |-> Schema[v], rounds |-> {}, legacy |-> {},
             marker |-> IF v \in Reformed THEN "yes" ELSE "no", delivering |-> "no"]
    /\ agent = [a \in Agents |->
                  IF a \in connected
                  THEN Connected(setup.kind[a], Fresh(setup.kind[a], setup.file[a]), v)
                  ELSE Fresh(setup.kind[a], setup.file[a])]

Init ==
    /\ \E setup \in Setups :
         /\ place = setup.place /\ mine = setup.file
         /\ \/ NothingThere(setup)
            \/ \E v \in Found, g \in Gens, connected \in SUBSET Agents :
                    ReleaseThere(setup, v, g, connected)
    /\ spoiled = {} /\ barrier = "down" /\ runtime = None
    /\ op = NoOp /\ pc = "idle" /\ inner = NoSnapshot /\ outer = NoSnapshot
    /\ switched = "no" /\ returned = "no" /\ todo = {} /\ seen = Fresh("hooks", "none") /\ step = 1
    /\ outcome = "none" /\ before = NoSnapshot /\ lapsed = {} /\ disturbed = {}
    /\ replaced = [a \in Agents |-> "user"] /\ captured = 0 /\ ops = 0 /\ faults = 0

Installed == disk.config.gen # 0
Kind(a) == agent[a].kind
Now == [disk |-> disk, db |-> db, current |-> current, releases |-> releases]

-----------------------------------------------------------------------------
(* The runtime and the user                                                 *)

\* An agent's hook starts the runtime; acquire refuses while the barrier is up.
Starting ==
    /\ runtime = None /\ barrier = "down" /\ current \in releases
    /\ Installed /\ db.schema <= Schema[current]

\* The marker is not there yet.
CutoverDue == current \in Reformed /\ db.marker = "no"

\* _assert_preconditions: no command is delivering, even if its lease is over.
DeliveryStopped == db.delivering = "no"

\* _migrate_rows: every payload that is kept, and what is derived from it.
Rewritten(d) == [d EXCEPT !.legacy = {}]

\* migrate_contract_payloads: the payloads and the marker in one transaction.
Cutover(d) == [Rewritten(d) EXCEPT !.marker = "yes"]

\* The runtime brings the database to its own schema, refuses a newer one, and
\* cuts over before its workers start; they take over what was delivering.
StartRuntime ==
    /\ Starting /\ (CutoverDue => DeliveryStopped)
    /\ runtime' = current
    /\ db' = [(IF CutoverDue THEN Cutover(db) ELSE db) EXCEPT !.schema = Schema[current],
                                                             !.delivering = "no"]
    /\ UNCHANGED <<releases, spoiled, current, binlink, disk, agent, barrier, memory, pc, outcome, history,
                   ops, faults>>

\* The cutover refuses: the schema is migrated, the service does not start.
StartRefused ==
    /\ Starting /\ CutoverDue /\ ~DeliveryStopped
    /\ db' = [db EXCEPT !.schema = Schema[current]]
    /\ UNCHANGED <<releases, spoiled, current, binlink, disk, agent, barrier, runtime, memory, pc,
                   outcome, history, ops, faults>>

\* The runtime dies while its worker delivers a round.
RuntimeDies ==
    /\ runtime # None /\ db.rounds # {} /\ faults < MaxFaults /\ faults' = faults + 1
    /\ runtime' = None
    /\ db' = [db EXCEPT !.delivering = "yes"]
    /\ UNCHANGED <<releases, spoiled, current, binlink, disk, agent, barrier, memory, pc, outcome, history,
                   ops>>

\* A round is stored in the contract of the release that runs.
Capture ==
    /\ runtime # None /\ captured < MaxRounds
    /\ captured' = captured + 1
    /\ db' = [db EXCEPT !.rounds = @ \cup {captured'},
                        !.legacy = @ \cup IF runtime \in Reformed THEN {} ELSE {captured'}]
    /\ UNCHANGED <<releases, spoiled, current, binlink, disk, agent, barrier, runtime, memory, pc, outcome,
                   place, before, lapsed, disturbed, mine, replaced, ops, faults>>

\* The user changes a plugin's file.
Edit(a) ==
    /\ agent[a].file \in Versions /\ pc = "idle" /\ ops < MaxOps
    /\ agent' = [agent EXCEPT ![a].file = "edited"]
    /\ mine' = [mine EXCEPT ![a] = "edited"] /\ replaced' = [replaced EXCEPT ![a] = "user"]
    /\ UNCHANGED <<releases, spoiled, current, binlink, disk, db, barrier, runtime, memory, pc, outcome,
                   place, before, lapsed, disturbed, captured, ops, faults>>

-----------------------------------------------------------------------------
(* The command line                                                         *)

Begin(request, label) ==
    /\ pc = "idle" /\ ops < MaxOps /\ ops' = ops + 1
    /\ request.kind \in Operations /\ op' = request /\ pc' = label
    /\ before' = Now /\ lapsed' = {} /\ outcome' = "none"
    /\ inner' = NoSnapshot /\ outer' = NoSnapshot /\ switched' = "no" /\ returned' = "no"
    /\ UNCHANGED <<releases, spoiled, current, binlink, disk, db, agent, runtime, seen, step, place,
                   mine, replaced, captured, faults>>

\* Without a configuration: a first installation, by the release's own code.
BeginInstall(v, g, sel, skip) ==
    /\ ~Installed
    /\ Begin([NoOp EXCEPT !.kind = "install", !.ver = v, !.gen = g, !.code = v, !.sel = sel,
                          !.skip = skip], "prepare")
    /\ UNCHANGED <<todo, barrier, disturbed>>

\* Mutant: the runtime is stopped and nothing keeps it from starting again.
BeginUpdate_NoBarrier(v, code, skip) ==
    /\ Installed /\ barrier = "down" /\ code \in {v, current} \ {None}
    /\ Begin([NoOp EXCEPT !.kind = "update", !.ver = v, !.gen = disk.config.gen, !.code = code,
                          !.skip = skip, !.sel = disk.config.sel], "stop")
    /\ disturbed' = disturbed \cup IF Schema[v] < Schema[code] THEN {"older"} ELSE {}
    /\ UNCHANGED <<todo, barrier>>

\* By the code of the release in use or of the one to be installed; the
\* configuration is the installed one.
BeginUpdate(v, code, skip) ==
    /\ Installed /\ barrier = "down" /\ code \in {v, current} \ {None}
    /\ Begin([NoOp EXCEPT !.kind = "update", !.ver = v, !.gen = disk.config.gen, !.code = code,
                          !.skip = skip, !.sel = disk.config.sel], "stop")
    /\ barrier' = "up"
    /\ disturbed' = disturbed \cup IF Schema[v] < Schema[code] THEN {"older"} ELSE {}
    /\ UNCHANGED todo

\* The barrier of an update that was killed refuses every later one.
RefuseUpdate(v) ==
    /\ Installed /\ barrier = "up" /\ pc = "idle" /\ ops < MaxOps /\ ops' = ops + 1
    /\ "update" \in Operations
    /\ op' = [NoOp EXCEPT !.kind = "update", !.ver = v] /\ outcome' = "failed" /\ before' = Now
    /\ UNCHANGED <<machine, inner, outer, switched, returned, todo, seen, step, pc,
                   place, lapsed, disturbed, mine, replaced, captured, faults>>

\* The configuration of a file, or the installed one with other providers
\* (_existing_install, reconfigure).
BeginConfigure(g, sel, skip) ==
    /\ Installed /\ current # None
    /\ Begin([NoOp EXCEPT !.kind = "configure", !.gen = g, !.code = current, !.skip = skip,
                          !.sel = sel], "stop")
    /\ UNCHANGED <<todo, barrier, disturbed>>

BeginImport(g, sel) ==
    /\ Begin([NoOp EXCEPT !.kind = "import", !.gen = g, !.sel = sel], "secrets")
    /\ UNCHANGED <<todo, barrier, disturbed>>

BeginConnect(a, enabled) ==
    /\ Installed
    /\ Begin([NoOp EXCEPT !.kind = "connect", !.agent = a, !.enabled = enabled,
                          !.sel = disk.config.sel], "connect")
    /\ todo' = {a}
    /\ UNCHANGED <<barrier, disturbed>>

BeginDisconnect(a) ==
    /\ Installed
    /\ Begin([NoOp EXCEPT !.kind = "disconnect", !.agent = a, !.sel = disk.config.sel], "remove")
    /\ todo' = {a}
    /\ UNCHANGED <<barrier, disturbed>>

BeginRepair ==
    /\ Installed /\ current \in releases
    /\ Begin([NoOp EXCEPT !.kind = "repair", !.ver = current, !.sel = disk.config.sel], "binlink")
    /\ todo' = {a \in Agents : disk.config.sel[a] # None}
    /\ UNCHANGED <<barrier, disturbed>>

BeginUninstall(purge) ==
    /\ Begin([NoOp EXCEPT !.kind = "uninstall", !.purge = purge, !.sel = disk.config.sel], "stop")
    /\ todo' = {a \in Agents : disk.config.sel[a] # None}
    /\ UNCHANGED <<barrier, disturbed>>

\* The barrier goes in update's finally.
End(how) ==
    /\ pc' = "idle" /\ outcome' = how
    /\ barrier' = IF op.kind = "update" THEN "down" ELSE barrier

Goto(label) == pc' = label /\ UNCHANGED <<outcome, barrier>>

-----------------------------------------------------------------------------
(* Writing the configuration                                                *)

\* The step after a write.
After(label) ==
    CASE label = "secrets" -> "config"
      [] label = "config" -> "profiles"
      [] label = "profiles" -> "local"
      [] label = "local" -> "migrate"
      [] label = "migrate" -> "materialize"
      [] label = "materialize" -> IF op.skip = "yes" THEN "written" ELSE "probe"
      [] label = "probe" -> "written"

Written(label) ==
    IF op.kind = "import" /\ label = "profiles" THEN End("ok")
    ELSE IF After(label) # "written" THEN Goto(After(label))
    ELSE IF op.kind = "configure" THEN End("ok") ELSE Goto("switch")

\* write_installer_config: secrets, then config.json, then profiles.json.  An
\* update only looks whether there are secrets; install writes no agents.
WriteSecrets ==
    /\ pc = "secrets"
    /\ op.kind = "update" => disk.secrets # 0
    /\ disk' = [disk EXCEPT !.secrets = IF op.kind = "update" THEN @ ELSE op.gen]
    /\ Written("secrets")
    /\ UNCHANGED <<releases, spoiled, current, binlink, db, agent, runtime, memory, history, ops, faults>>

WriteConfig ==
    /\ pc = "config"
    /\ disk' = [disk EXCEPT !.config =
                    [gen |-> op.gen,
                     sel |-> IF op.kind \in {"install", "update"} THEN NoSelection ELSE op.sel]]
    /\ Written("config")
    /\ UNCHANGED <<releases, spoiled, current, binlink, db, agent, runtime, memory, history, ops, faults>>

WriteProfiles ==
    /\ pc = "profiles"
    /\ disk' = [disk EXCEPT !.profiles = op.gen]
    /\ Written("profiles")
    /\ UNCHANGED <<releases, spoiled, current, binlink, db, agent, runtime, memory, history, ops, faults>>

\* write_local_config: with the new release's directory, or with the link.
WriteLocal ==
    /\ pc = "local"
    /\ disk' = [disk EXCEPT !.local =
                    [gen |-> op.gen, release |-> IF op.kind = "configure" THEN "current" ELSE op.ver]]
    /\ Written("local")
    /\ UNCHANGED <<releases, spoiled, current, binlink, db, agent, runtime, memory, history, ops, faults>>

\* apply_migrations, of the code that runs: a newer schema is unknown to it.
Migratable == db.schema <= Schema[op.code]

Migrate ==
    /\ pc = "migrate" /\ Migratable
    /\ db' = [db EXCEPT !.schema = Schema[op.code]]
    /\ Written("migrate")
    /\ UNCHANGED <<releases, spoiled, current, binlink, disk, agent, runtime, memory, history, ops, faults>>

Asked == [gen |-> op.gen, code |-> op.code]

\* write_local_profiles: one transaction; what was probed counts for the same
\* fingerprint only (upsert).
Materialize ==
    /\ pc = "materialize"
    /\ db' = [db EXCEPT !.profile = Asked,
                        !.probed = IF @ = Asked THEN @ ELSE NoFingerprint]
    /\ Written("materialize")
    /\ UNCHANGED <<releases, spoiled, current, binlink, disk, agent, runtime, memory, history, ops, faults>>

\* persist_generation_probe.
PersistProbe ==
    /\ pc = "probe"
    /\ db' = [db EXCEPT !.probed = Asked]
    /\ Written("probe")
    /\ UNCHANGED <<releases, spoiled, current, binlink, disk, agent, runtime, memory, history, ops, faults>>

-----------------------------------------------------------------------------
(* install                                                                  *)

\* RuntimeSupervisor.stop(force=True).
Stop ==
    /\ pc = "stop"
    /\ runtime' = None
    /\ Goto(IF op.kind = "uninstall" THEN "remove" ELSE "save")
    /\ UNCHANGED <<releases, spoiled, current, binlink, disk, db, agent, memory, history, ops, faults>>

\* The file in the default directory.
DefaultDatabase == IF place = "default" THEN db ELSE NoDatabase

\* The backups of update and configure.
Save ==
    /\ pc = "save"
    /\ outer' = [Now EXCEPT !.db = DefaultDatabase]
    /\ Goto(IF op.kind = "update" THEN "prepare" ELSE "secrets")
    /\ UNCHANGED <<releases, spoiled, current, binlink, disk, db, agent, runtime, op, inner,
                   switched, returned, todo, seen, step, history, ops, faults>>

\* Size, SHA-256 and signature of an archive; every file of the unpacked tree.
VerifiedArchive(b) == b.source \in {"network", "file"} => b.intact
VerifiedTree(b) == b.intact

\* Manifest, preflight, probes, download, verification, the embedding model.
Prepare(b) ==
    /\ pc = "prepare" /\ VerifiedArchive(b) /\ VerifiedTree(b)
    /\ Goto("commit")
    /\ UNCHANGED <<releases, spoiled, current, binlink, disk, db, agent, runtime, memory, history,
                   ops, faults>>

\* InstallTransaction.copy_bundle and commit.  A bundle that is a directory may
\* change between its verification and the copy.
Commit(b) ==
    /\ pc = "commit" /\ op.ver \notin releases
    /\ releases' = releases \cup {op.ver}
    /\ IF b.intact THEN UNCHANGED <<spoiled, faults>>
       ELSE /\ b.source = "directory" /\ faults < MaxFaults /\ faults' = faults + 1
            /\ spoiled' = spoiled \cup {op.ver}
    /\ Goto("backup")
    /\ UNCHANGED <<current, binlink, disk, db, agent, runtime, memory, history, ops>>

\* backup_file for every file that is about to be written.
Backup ==
    /\ pc = "backup"
    /\ inner' = Now
    /\ Goto("secrets")
    /\ UNCHANGED <<releases, spoiled, current, binlink, disk, db, agent, runtime, op, outer,
                   switched, returned, todo, seen, step, history, ops, faults>>

SwitchCurrent ==
    /\ pc = "switch"
    /\ current' = op.ver /\ switched' = "yes"
    /\ Goto("binlink")
    /\ UNCHANGED <<releases, spoiled, binlink, disk, db, agent, runtime, op, inner, outer, returned,
                   todo, seen, step, history, ops, faults>>

\* install_bin_link.
InstallBinLink ==
    /\ pc = "binlink" /\ current \in releases
    /\ binlink' = "present"
    /\ Goto(IF op.kind = "repair" THEN "connect" ELSE "doctor")
    /\ UNCHANGED <<releases, spoiled, current, disk, db, agent, runtime, memory, history, ops, faults>>

\* doctor, without the providers: the release and its signatures, the
\* configuration, and every agent that is connected.
Doctor(integrations) ==
    /\ current \in releases \ spoiled /\ disk.config.gen # 0 /\ disk.profiles # 0
    /\ integrations => \A a \in Agents : disk.config.sel[a] # None => Verifies(Kind(a), agent[a])

\* The doctor of install; then the agents that were selected are connected.
PassDoctor ==
    /\ pc = "doctor" /\ Doctor(FALSE)
    /\ todo' = {a \in Agents : op.sel[a] # None}
    /\ Goto("connect")
    /\ UNCHANGED <<releases, spoiled, current, binlink, disk, db, agent, runtime, op, inner, outer,
                   switched, returned, seen, step, history, ops, faults>>

-----------------------------------------------------------------------------
(* connect_integration                                                      *)

\* The agent is not discovered: nothing of it is touched, and only the disconnection
\* and the removal go on as if it were.
Undetected(a) ==
    /\ pc \in {"connect", "remove"} /\ a \in todo
    /\ todo' = todo \ {a}
    /\ IF op.kind = "connect" THEN End("failed")
       ELSE /\ pc' = IF op.kind = "disconnect" THEN "unpersist" ELSE pc
            /\ outcome' = "partial" /\ UNCHANGED barrier
    /\ UNCHANGED <<releases, spoiled, current, binlink, disk, db, agent, runtime, op, inner, outer,
                   switched, returned, seen, step, history, ops, faults>>

\* The agent was discovered.
Connect(a) ==
    /\ pc = "connect" /\ a \in todo
    /\ op' = [op EXCEPT !.agent = a, !.enabled = IF op.kind = "connect" THEN @ ELSE op.sel[a]]
    /\ seen' = agent[a] /\ step' = 1
    /\ Goto("adapter")
    /\ UNCHANGED <<releases, spoiled, current, binlink, disk, db, agent, runtime, inner, outer,
                   switched, returned, todo, history, ops, faults>>

Doing == InstallOrder(Kind(op.agent))[step]

\* The payload comes from the release in use.
PayloadThere == Kind(op.agent) = "hooks" \/ current \in releases

Adapted == InstallStep(Kind(op.agent), Doing, seen, agent[op.agent], current, op.enabled)

\* repair does not verify.
AdapterInstall ==
    /\ pc = "adapter" /\ PayloadThere
    /\ Doing = "verify" /\ op.kind # "repair" => Verifies(Kind(op.agent), Adapted)
    /\ agent' = [agent EXCEPT ![op.agent] = Adapted]
    /\ replaced' = [replaced EXCEPT ![op.agent] =
                    IF Doing = "payload" /\ agent[op.agent].file \in Versions THEN "own" ELSE @]
    /\ IF Doing # "verify" THEN step' = step + 1 /\ UNCHANGED todo /\ Goto("adapter")
       ELSE IF op.kind # "repair" THEN Goto("persist") /\ UNCHANGED <<step, todo>>
       ELSE Goto("connect") /\ todo' = todo \ {op.agent} /\ UNCHANGED step
    /\ UNCHANGED <<releases, spoiled, current, binlink, disk, db, runtime, op, inner, outer,
                   switched, returned, seen, place, before, lapsed, disturbed, mine, captured, ops,
                   faults>>

\* bind_existing_profiles_for_agent and persist_installer_config.
PersistSelection ==
    /\ pc = "persist" /\ (db.schema = 0 \/ db.profile # NoFingerprint)
    /\ disk' = [disk EXCEPT !.config.sel[op.agent] = op.enabled]
    /\ todo' = todo \ {op.agent}
    /\ IF op.kind = "connect" THEN End("ok") ELSE Goto("connect")
    /\ UNCHANGED <<releases, spoiled, current, binlink, db, agent, runtime, op, inner, outer,
                   switched, returned, seen, step, history, ops, faults>>

\* The agent's part of a connection that failed is removed again; for an
\* installation the failure is only noted.
UndoConnect ==
    /\ pc = "disconnect"
    /\ agent' = [agent EXCEPT ![op.agent] = Uninstalled(Kind(op.agent), @)]
    /\ todo' = todo \ {op.agent}
    /\ IF op.kind = "connect" THEN End("failed")
       ELSE pc' = "connect" /\ outcome' = "partial" /\ UNCHANGED barrier
    /\ UNCHANGED <<releases, spoiled, current, binlink, disk, db, runtime, op, inner, outer,
                   switched, returned, seen, step, history, ops, faults>>

\* repair counts the adapters that say "passed"; Hermes' says nothing.
AllRepaired ==
    Doctor(TRUE) /\ outcome # "partial"
    /\ \A a \in Agents : op.sel[a] # None => Kind(a) # "hermes"

\* All agents are done.
ConnectDone ==
    /\ pc = "connect" /\ todo = {}
    /\ \/ op.kind = "install" /\ End(IF outcome = "partial" THEN "partial" ELSE "ok")
          /\ UNCHANGED returned
       \/ op.kind = "repair" /\ End(IF AllRepaired THEN "ok" ELSE "failed") /\ UNCHANGED returned
       \/ op.kind = "update" /\ Goto("check") /\ returned' = "yes"
    /\ UNCHANGED <<releases, spoiled, current, binlink, disk, db, agent, runtime, op, inner, outer,
                   switched, todo, seen, step, history, ops, faults>>

\* Mutant: an update does not look at what was probed.
Ready_Always == TRUE

\* _assert_generation_capabilities_ready, of the file in the default directory.
Ready == op.skip = "yes" => place = "default" /\ db.probed = db.profile

CheckUpdate ==
    /\ pc = "check" /\ Ready /\ Doctor(TRUE)
    /\ End(IF outcome = "partial" THEN "partial" ELSE "ok")
    /\ UNCHANGED <<releases, spoiled, current, binlink, disk, db, agent, runtime, memory, history,
                   ops, faults>>

-----------------------------------------------------------------------------
(* Failure and rollback                                                     *)

\* What fails without a fault: the code's own refusals.
Refused ==
    \/ pc = "commit" /\ op.ver \in releases
    \/ pc = "secrets" /\ op.kind = "update" /\ disk.secrets = 0
    \/ pc = "migrate" /\ ~Migratable
    \/ pc = "binlink" /\ current \notin releases
    \/ pc = "doctor" /\ ~Doctor(FALSE)
    \/ pc = "adapter" /\ ~PayloadThere
    \/ pc = "adapter" /\ Doing = "verify" /\ op.kind # "repair"
                      /\ ~Verifies(Kind(op.agent), Adapted)
    \/ pc = "persist" /\ db.schema # 0 /\ db.profile = NoFingerprint
    \/ pc = "check" /\ ~(Ready /\ Doctor(TRUE))

\* Where an exception at a step leads, "idle" when nothing catches it.
Handler ==
    CASE op.kind = "update" /\ pc \in {"prepare", "commit", "check"} -> "back_link"
      [] op.kind \in {"install", "update"} /\ pc \in CommittedSteps -> "undo_link"
      [] op.kind = "configure" /\ pc \in WriteSteps -> "back_files"
      [] op.kind \in {"install", "update", "connect"} /\ pc \in AdapterSteps -> "disconnect"
      [] OTHER -> "idle"

Steps == {"stop", "save", "prepare", "commit", "check", "remove", "unpersist", "sweep"}
             \cup CommittedSteps \cup AdapterSteps

\* History: the adapter has written the payload and not yet the record.
Unrecorded(a) ==
    /\ pc = "adapter" /\ op.agent = a
    /\ \/ Kind(a) = "plugin" /\ step = 3
       \/ Kind(a) = "hermes" /\ step \in {2, 3}
Lost == [a \in Agents |-> IF Unrecorded(a) THEN "lost" ELSE replaced[a]]

Fail ==
    /\ pc \in Steps
    /\ IF Refused THEN UNCHANGED faults ELSE faults < MaxFaults /\ faults' = faults + 1
    /\ IF Handler = "idle" THEN End("failed") ELSE Goto(Handler)
    /\ replaced' = Lost
    /\ UNCHANGED <<releases, spoiled, current, binlink, disk, db, agent, runtime, memory,
                   place, before, lapsed, disturbed, mine, captured, ops>>

\* Mutant: the release goes before the link.
UndoLink_ReleaseFirst ==
    /\ pc = "undo_link"
    /\ releases' = releases \ {op.ver} /\ spoiled' = spoiled \ {op.ver}
    /\ Goto("undo_release")
    /\ UNCHANGED <<current, binlink, disk, db, agent, runtime, memory, history, ops, faults>>

\* InstallTransaction.rollback: the link first ...
UndoLink ==
    /\ pc = "undo_link"
    /\ current' = IF switched = "yes" THEN inner.current ELSE current
    /\ Goto("undo_release")
    /\ UNCHANGED <<releases, spoiled, binlink, disk, db, agent, runtime, memory, history, ops, faults>>

\* ... then the release.  After Ctrl-C this is all that __exit__ does.
UndoRelease ==
    /\ pc = "undo_release"
    /\ releases' = releases \ {op.ver} /\ spoiled' = spoiled \ {op.ver}
    /\ IF outcome = "interrupted" THEN End("interrupted") ELSE Goto("undo_db")
    /\ UNCHANGED <<current, binlink, disk, db, agent, runtime, memory, history, ops, faults>>

\* restore_backups, from the last to the first, of what was backed up.
UndoDatabase ==
    /\ pc = "undo_db"
    /\ db' = IF inner = NoSnapshot THEN db ELSE inner.db
    /\ Goto("undo_files")
    /\ UNCHANGED <<releases, spoiled, current, binlink, disk, agent, runtime, memory, history,
                   ops, faults>>

UndoFiles ==
    /\ pc = "undo_files"
    /\ disk' = IF inner = NoSnapshot THEN disk ELSE inner.disk
    /\ IF op.kind = "update" THEN Goto("back_link") ELSE End("failed")
    /\ UNCHANGED <<releases, spoiled, current, binlink, db, agent, runtime, memory, history, ops,
                   faults>>

\* update's own handler: the link, if there was one, the files, the database,
\* and the release if install had returned.
BackLink ==
    /\ pc = "back_link"
    /\ current' = IF outer.current # None THEN outer.current ELSE current
    /\ Goto("back_files")
    /\ UNCHANGED <<releases, spoiled, binlink, disk, db, agent, runtime, memory, history, ops, faults>>

\* Mutant: secrets and profiles stay as they were written.
BackFiles_ConfigOnly ==
    /\ pc = "back_files"
    /\ disk' = [disk EXCEPT !.config = outer.disk.config]
    /\ Goto("back_db")
    /\ UNCHANGED <<releases, spoiled, current, binlink, db, agent, runtime, memory, history, ops,
                   faults>>

\* The handlers of update and of configure.
BackFiles ==
    /\ pc = "back_files"
    /\ disk' = outer.disk
    /\ Goto("back_db")
    /\ UNCHANGED <<releases, spoiled, current, binlink, db, agent, runtime, memory, history, ops,
                   faults>>

\* The file in the default directory: a database of another place stays as it is,
\* also after install had returned and its own backup is gone.
BackDatabase ==
    /\ pc = "back_db"
    /\ db' = IF place = "default" THEN outer.db ELSE db
    /\ disturbed' = disturbed \cup IF place = "named" /\ returned = "yes" THEN {"unrestored"} ELSE {}
    /\ IF op.kind = "update" THEN Goto("back_release") ELSE End("failed")
    /\ UNCHANGED <<releases, spoiled, current, binlink, disk, agent, runtime, memory, place, before,
                   lapsed, mine, replaced, captured, ops, faults>>

BackRelease ==
    /\ pc = "back_release"
    /\ LET gone == IF returned = "yes" /\ outer.current \notin {None, op.ver}
                   THEN {op.ver} ELSE {}
       IN  releases' = releases \ gone /\ spoiled' = spoiled \ gone
    /\ End("failed")
    /\ UNCHANGED <<current, binlink, disk, db, agent, runtime, memory, history, ops, faults>>

Lapse ==
    /\ faults <= MaxFaults /\ faults' = faults + 1
    /\ lapsed' = lapsed \cup {pc} /\ disturbed' = disturbed \cup {"rollback"}
    /\ UNCHANGED <<place, before, mine, replaced, captured>>

\* An exception in install's handler, or in __exit__, is one that update catches.
Aborted ==
    IF op.kind = "update" /\ pc \in {"undo_link", "undo_db", "undo_files"}
    THEN Goto("back_link") ELSE End("failed")

\* Link or database cannot be put back ("release rollback failed"): the steps that
\* follow are left out.
RollbackStops ==
    /\ \/ pc = "undo_link" /\ switched = "yes"
       \/ pc = "undo_db" /\ inner # NoSnapshot
       \/ pc = "back_link" /\ outer.current # None
       \/ pc = "back_db"
    /\ Lapse /\ Aborted
    /\ UNCHANGED <<releases, spoiled, current, binlink, disk, db, agent, runtime, memory, ops>>

\* The files that are put back before one that cannot be.
PutBack ==
    IF pc = "undo_files" THEN {{}, {"local"}, {"local", "secrets"}, {"local", "secrets", "profiles"}}
    ELSE {{}, {"config"}, {"config", "profiles"}, {"config", "profiles", "secrets"}}

FilesStop(files, old) ==
    /\ pc \in {"undo_files", "back_files"} /\ files \in PutBack
    /\ old = IF pc = "undo_files" THEN inner.disk ELSE outer.disk
    /\ pc = "undo_files" => inner # NoSnapshot
    /\ disk' = [disk EXCEPT !.config = IF "config" \in files THEN old.config ELSE @,
                            !.profiles = IF "profiles" \in files THEN old.profiles ELSE @,
                            !.secrets = IF "secrets" \in files THEN old.secrets ELSE @,
                            !.local = IF "local" \in files THEN old.local ELSE @]
    /\ Lapse /\ Aborted
    /\ UNCHANGED <<releases, spoiled, current, binlink, db, agent, runtime, memory, ops>>

\* rmtree with ignore_errors: a part of the release stays, and nobody is told.
ReleaseStays ==
    /\ \/ pc = "undo_release" /\ IF outcome = "interrupted" THEN End("interrupted") ELSE Goto("undo_db")
       \/ pc = "back_release" /\ returned = "yes" /\ outer.current \notin {None, op.ver} /\ End("failed")
    /\ spoiled' = spoiled \cup {op.ver}
    /\ Lapse
    /\ UNCHANGED <<releases, current, binlink, disk, db, agent, runtime, memory, ops>>

\* The process is killed: nothing of it runs any more.
Kill ==
    /\ pc # "idle" /\ faults < MaxFaults /\ faults' = faults + 1
    /\ pc' = "idle" /\ outcome' = "killed"
    /\ disturbed' = disturbed \cup {"killed"}
    /\ replaced' = Lost
    /\ UNCHANGED <<machine, memory, place, before, lapsed, mine, captured, ops>>

\* KeyboardInterrupt: no except clause catches it, with and finally blocks run.
Interrupt ==
    /\ pc \in Steps \cup {"connect"} /\ faults < MaxFaults /\ faults' = faults + 1
    /\ disturbed' = disturbed \cup {"interrupted"}
    /\ replaced' = Lost
    /\ IF op.kind \in {"install", "update"} /\ pc \in CommittedSteps
       THEN pc' = "undo_link" /\ outcome' = "interrupted" /\ UNCHANGED barrier
       ELSE End("interrupted")
    /\ UNCHANGED <<releases, spoiled, current, binlink, disk, db, agent, runtime, memory,
                   place, before, lapsed, mine, captured, ops>>

-----------------------------------------------------------------------------
(* Agents one by one, and removal                                           *)

\* set_integration_enabled: the bridge's settings and the selection.
SetEnabled(a, enabled) ==
    /\ "enable" \in Operations
    /\ pc = "idle" /\ ops < MaxOps /\ ops' = ops + 1
    /\ Installed /\ disk.config.sel[a] \notin {None, enabled} /\ agent[a].settings # None
    /\ agent' = [agent EXCEPT ![a].settings = enabled]
    /\ disk' = [disk EXCEPT !.config.sel[a] = enabled]
    /\ op' = [NoOp EXCEPT !.kind = "enable", !.agent = a] /\ outcome' = "ok" /\ before' = Now
    /\ UNCHANGED <<releases, spoiled, current, binlink, db, barrier, runtime, inner, outer,
                   switched, returned, todo, seen, step, pc, place, lapsed, disturbed, mine,
                   replaced, captured, faults>>

\* disconnect_integration and uninstall: the adapter takes its part away.
Remove(a) ==
    /\ pc = "remove" /\ a \in todo
    /\ agent' = [agent EXCEPT ![a] = Uninstalled(Kind(a), @)]
    /\ todo' = todo \ {a}
    /\ Goto(IF op.kind = "disconnect" THEN "unpersist" ELSE "remove")
    /\ UNCHANGED <<releases, spoiled, current, binlink, disk, db, runtime, op, inner, outer,
                   switched, returned, seen, step, history, ops, faults>>

Unpersist ==
    /\ pc = "unpersist"
    /\ disk' = [disk EXCEPT !.config.sel[op.agent] = None]
    /\ End(IF outcome = "partial" THEN "partial" ELSE "ok")
    /\ UNCHANGED <<releases, spoiled, current, binlink, db, agent, runtime, memory, history, ops,
                   faults>>

\* remove_bin_link, and the link to the release in use.
Unlink ==
    /\ pc = "remove" /\ todo = {}
    /\ binlink' = "absent" /\ current' = None
    /\ Goto("sweep")
    /\ UNCHANGED <<releases, spoiled, disk, db, agent, runtime, memory, history, ops, faults>>

Sweep(v) ==
    /\ pc = "sweep" /\ v \in releases
    /\ releases' = releases \ {v} /\ spoiled' = spoiled \ {v}
    /\ Goto("sweep")
    /\ UNCHANGED <<current, binlink, disk, db, agent, runtime, memory, history, ops, faults>>

\* Data and configuration stay unless they are purged; the bridges' settings and
\* records are data, also those of agents that are not selected any more, and so
\* is a database of another place if there is a configuration to name it.
Finish ==
    /\ pc = "sweep" /\ releases = {}
    /\ IF "data" \in op.purge
       THEN /\ db' = IF place = "default" \/ Installed THEN NoDatabase ELSE db
            /\ agent' = [a \in Agents |-> IF Kind(a) = "hermes" THEN agent[a]
                             ELSE [agent[a] EXCEPT !.settings = None, !.record = NoRecord]]
            /\ replaced' = [a \in Agents |-> IF Kind(a) = "plugin" /\ agent[a].record # NoRecord
                                          THEN "lost" ELSE replaced[a]]
       ELSE UNCHANGED <<db, agent, replaced>>
    /\ disk' = IF "config" \in op.purge THEN NoDisk ELSE disk
    /\ End("ok")
    /\ UNCHANGED <<releases, spoiled, current, binlink, runtime, memory, place, before, lapsed,
                   disturbed, mine, captured, ops, faults>>

-----------------------------------------------------------------------------
BeginStep ==
    \/ \E v \in Versions, skip \in {"yes", "no"} :
            \/ RefuseUpdate(v)
            \/ \E code \in Versions : BeginUpdate(v, code, skip)
            \/ \E g \in Gens, sel \in Choices : BeginInstall(v, g, sel, skip)
    \/ \E g \in Gens, sel \in Choices :
            BeginImport(g, sel) \/ \E skip \in {"yes", "no"} : BeginConfigure(g, sel, skip)
    \/ \E a \in Agents :
            \/ BeginDisconnect(a)
            \/ \E e \in {"enabled", "disabled"} : BeginConnect(a, e) \/ SetEnabled(a, e)
    \/ BeginRepair \/ \E purge \in SUBSET {"data", "config"} : BeginUninstall(purge)

WriteStep ==
    WriteSecrets \/ WriteConfig \/ WriteProfiles \/ WriteLocal \/ Migrate \/ Materialize
    \/ PersistProbe

InstallSteps ==
    \/ Stop \/ Save \/ \E b \in Bundles : Prepare(b) \/ Commit(b)
    \/ Backup \/ SwitchCurrent \/ InstallBinLink \/ PassDoctor \/ CheckUpdate

AgentStep ==
    \/ \E a \in Agents : Connect(a) \/ Remove(a) \/ Undetected(a)
    \/ AdapterInstall \/ PersistSelection \/ UndoConnect \/ ConnectDone \/ Unpersist

RollbackStep ==
    UndoLink \/ UndoRelease \/ UndoDatabase \/ UndoFiles \/ BackLink \/ BackFiles \/ BackDatabase
    \/ BackRelease \/ RollbackStops \/ ReleaseStays
    \/ \E files \in SUBSET {"config", "profiles", "secrets", "local"}, old \in {inner.disk, outer.disk} :
            FilesStop(files, old)

RemovalStep == Unlink \/ (\E v \in Versions : Sweep(v)) \/ Finish

Next ==
    \/ BeginStep \/ WriteStep \/ InstallSteps \/ AgentStep \/ RollbackStep \/ RemovalStep
    \/ Fail \/ Kill \/ Interrupt
    \/ StartRuntime \/ StartRefused \/ RuntimeDies \/ Capture \/ \E a \in Agents : Edit(a)

Spec == Init /\ [][Next]_vars

-----------------------------------------------------------------------------
(* Properties                                                               *)

\* The link to the release in use never names a release that is not there, in
\* no step of an installation, update, rollback or removal and wherever the
\* process is killed (InstallTransaction.rollback, uninstall).
NoDanglingCurrent == current \in releases \cup {None}

\* Both handlers of the operation have put back what they are to put back: update's
\* makes up for a rollback of install that failed.
RolledBack ==
    lapsed \subseteq {"undo_release", "back_release"}
        \cup IF op.kind = "update" THEN {"undo_link", "undo_db", "undo_files"} ELSE {}

\* A database in a directory of its own is put back by install's handler only.
DatabaseSaved ==
    \/ place = "default" \/ op.kind = "install"
    \/ op.kind = "update" /\ returned = "no" /\ lapsed \cap {"undo_link", "undo_db"} = {}

\* An installation, update or reconfiguration that fails leaves link, releases,
\* configuration, secrets and profiles as they were, whichever step failed, the
\* refusals after the switch and after install has returned included, and an
\* update also if the rollback of its installation failed: then the new release
\* may stay on disk.  Only an update without a previous release keeps the new one.
FailureRestores ==
    pc = "idle" /\ outcome = "failed" /\ op.kind \in {"install", "update", "configure"}
    /\ (op.kind = "update" => before.current # None) /\ RolledBack
    => /\ disk = before.disk /\ current = before.current
       /\ before.releases \subseteq releases /\ releases \subseteq before.releases \cup {op.ver}
       /\ lapsed \cap {"undo_link", "undo_release", "back_release"} = {} =>
            releases = before.releases
       /\ DatabaseSaved => db.profile = before.db.profile /\ db.probed = before.db.probed

\* "a failed post-install diagnostic cannot leave a partially upgraded database
\* behind after the release link rolls back": the release in use knows the
\* schema of the database, unless an operation was cut off, a rollback failed, an
\* older release was installed by the code of a newer one, or an update failed
\* after install had returned with a database that is not in the default directory.
SchemaFits ==
    pc = "idle" /\ disturbed = {} /\ current # None => db.schema <= Schema[current]

\* After an operation the release in use consists of the signed files, even if a
\* bundle changed between its verification and the copy; not so after a kill or a
\* rollback that failed.
CurrentIsSigned ==
    pc = "idle" /\ disturbed \cap {"killed", "rollback"} = {} => current \notin spoiled

\* After an update the profiles, as this release materializes them, have a probe
\* of their own, also where the update was told not to probe; and all files are
\* of one configuration.
UpdateIsReady ==
    pc = "idle" /\ op.kind = "update" /\ outcome \in {"ok", "partial"} =>
        /\ db.probed = db.profile /\ db.profile.gen = disk.config.gen
        /\ disk.profiles = disk.config.gen
        /\ disk.local = [gen |-> disk.config.gen, release |-> current]

\* The barrier is up only while an update runs, however it ends, also by Ctrl-C or
\* with a rollback that fails; only a kill leaves it.
BarrierOnlyInUpdate ==
    barrier = "up" => (pc # "idle" /\ op.kind = "update") \/ "killed" \in disturbed

\* Where the marker is, no payload of the former contract is left or can come
\* again, although the schema is migrated by the installer, the payloads by the
\* runtime, and either may be undone or cut off: a release that writes the
\* former contract does not start on the schema that the marker needs.
MarkerTells == db.marker = "yes" => db.legacy = {}

\* What is in use, whichever operations came before and however they ended: a
\* release that is there, signed, fit for its database and its payloads, not barred.
ReleaseFits ==
    TypeOK /\ NoDanglingCurrent /\ CurrentIsSigned /\ SchemaFits /\ BarrierOnlyInUpdate
    /\ MarkerTells

\* Disconnecting an agent that is discovered puts back what the payload replaced:
\* what the user had there, the user's own change of the payload included; but if
\* the payload was last written over one of LedgerMind's own, by a repair, an update
\* or a second connection, that one, since the record notes what it finds.  Unknown
\* only where install stopped between payload and record, or uninstall purged it.
UserFileComesBack ==
    pc = "idle" /\ op.kind = "disconnect" /\ outcome = "ok" /\ Kind(op.agent) # "hooks"
    => /\ replaced[op.agent] = "user" => agent[op.agent].file = mine[op.agent]
       /\ replaced[op.agent] = "own" => agent[op.agent].file \in Versions

\* No round is lost by an update, whether it succeeds, fails or is killed: the
\* database that is put back is as new as the last round.
UpdateLosesNoRound ==
    [][op.kind = "update" /\ pc # "idle" => db.rounds \subseteq db'.rounds]_vars
=============================================================================
