--------------------------- MODULE InstallerProofs ---------------------------
(***************************************************************************)
(* The installer, for every set of releases, configurations and agents and *)
(* any number of operations, failures, kills, interrupts and rollbacks     *)
(* that fail themselves: the release in use fits, a failed operation       *)
(* restores what was there, a finished update is ready, an update loses no *)
(* round, and what the payload replaced comes back when an agent is        *)
(* disconnected.                                                           *)
(***************************************************************************)
EXTENDS Installer, TLAPS

Installing == op.kind \in {"install", "update"}
Saving == op.kind \in {"update", "configure"}

FirstSteps == {"stop", "save", "prepare", "commit"}
ConnectSteps == {"connect", "adapter", "persist", "disconnect"}
LinkLost == {"undo_link", "undo_db"}
ReleaseKept == {"undo_link", "undo_release", "back_release"}
UndoSteps == {"undo_link", "undo_release", "undo_db", "undo_files"}
BackSteps == {"back_link", "back_files", "back_db", "back_release"}

\* Which operations come to a step.
Places ==
    /\ pc \in {"prepare", "commit", "backup", "switch", "doctor"} \cup UndoSteps => Installing
    /\ pc = "stop" => op.kind \in {"update", "configure", "uninstall"}
    /\ pc = "save" => Saving
    /\ pc \in {"secrets", "config", "profiles"} =>
         op.kind \in {"install", "update", "configure", "import"}
    /\ pc \in {"local", "migrate", "materialize", "probe"} =>
         op.kind \in {"install", "update", "configure"}
    /\ pc = "binlink" => op.kind \in {"install", "update", "repair"}
    /\ pc \in {"connect", "adapter"} => op.kind \in {"install", "update", "repair", "connect"}
    /\ pc \in {"persist", "disconnect"} => op.kind \in {"install", "update", "connect"}
    /\ pc \in {"check", "back_link", "back_release"} => op.kind = "update"
    /\ pc \in {"back_files", "back_db"} => Saving
    /\ pc = "remove" => op.kind \in {"disconnect", "uninstall"}
    /\ pc = "unpersist" => op.kind = "disconnect"
    /\ pc = "sweep" => op.kind = "uninstall"

\* What the running operation was asked for.
AskedFor ==
    /\ pc # "idle" /\ Installing => op.ver \in Versions /\ op.code \in Versions /\ op.gen \in Gens
    /\ pc # "idle" /\ op.kind = "install" => op.code = op.ver
    /\ pc # "idle" /\ op.kind = "configure" => op.code \in Versions /\ op.gen \in Gens
    /\ pc # "idle" /\ op.kind = "import" => op.gen \in Gens
    /\ pc \in {"adapter", "persist", "disconnect"} \/ op.kind = "disconnect" => op.agent \in Agents
    /\ pc = "remove" /\ op.kind = "disconnect" => todo = {op.agent}

\* No release is linked that is not there, and none was when the operation began.
Linked ==
    /\ NoDanglingCurrent
    /\ pc # "idle" => before.current \in before.releases \cup {None}
    /\ pc = "sweep" => current = None

\* The parts of a database that a rollback is about.
Same(d, e) == d.profile = e.profile /\ d.probed = e.probed

\* A snapshot holds what was there when the operation began, the outer one of the
\* database only what is in the default directory.
Held(s) == s.disk = before.disk /\ s.current = before.current
HeldInner == Held(inner) /\ Same(inner.db, before.db)
HeldOuter == Held(outer) /\ (place = "default" => Same(outer.db, before.db))

Plus(S, v) == S \cup {v}

\* What each step has changed since the operation began ...
Changed ==
    /\ pc \in FirstSteps /\ (Installing \/ Saving) =>
         disk = before.disk /\ current = before.current /\ Same(db, before.db)
    /\ pc \in {"backup", "switch"} \cup WriteSteps /\ Installing => current = before.current
    /\ pc \in {"binlink", "doctor", "check"} \cup ConnectSteps /\ Installing => current = op.ver
    /\ pc = "undo_link" => current \in {op.ver, before.current}
    /\ pc \in {"undo_release", "undo_db", "undo_files"} => current = before.current
    /\ pc = "undo_files" => Same(db, before.db)
    /\ pc # "idle" /\ op.kind = "configure" => current = before.current /\ current = op.code

\* ... which releases are there, the new one too if it could not be removed ...
Kept ==
    \/ releases = before.releases
    \/ lapsed \cap ReleaseKept # {} /\ releases = Plus(before.releases, op.ver)
Releases ==
    /\ pc \in FirstSteps /\ (Installing \/ Saving) => releases = before.releases
    /\ pc \in CommittedSteps \cup ConnectSteps \cup {"check", "undo_link", "undo_release"} /\ Installing =>
         releases = Plus(before.releases, op.ver) /\ op.ver \notin before.releases
    /\ pc \in {"undo_db", "undo_files"} => Kept
    /\ pc # "idle" /\ op.kind = "configure" => releases = before.releases
    /\ pc \in BackSteps /\ op.kind = "update" =>
         /\ returned = "yes" => releases = Plus(before.releases, op.ver) /\ op.ver \notin before.releases
         /\ returned = "no" => Kept

\* ... and what is remembered of it.
Remembered ==
    /\ pc \in FirstSteps \cup {"backup"} => inner = NoSnapshot
    /\ pc = "backup" => disk = before.disk /\ Same(db, before.db)
    /\ pc \in CommittedSteps \ {"backup"} /\ Installing => inner # NoSnapshot /\ HeldInner
    /\ pc \in UndoSteps => IF inner = NoSnapshot THEN disk = before.disk /\ Same(db, before.db)
                           ELSE HeldInner
    /\ pc \in FirstSteps \cup {"backup", "switch"} \cup WriteSteps => switched = "no"
    /\ pc \in {"binlink", "doctor"} /\ Installing => switched = "yes"
    /\ pc = "undo_link" => IF switched = "yes" THEN inner # NoSnapshot ELSE current = before.current
    /\ pc \notin {"idle", "stop", "save"} /\ Saving => HeldOuter

\* The handler of update and of configure.
GoingBack ==
    /\ pc \notin {"idle", "check"} \cup BackSteps => returned = "no"
    /\ pc = "check" => returned = "yes"
    /\ pc \in BackSteps /\ op.kind = "update" =>
         /\ current \in {op.ver, before.current}
         /\ returned = "no" /\ lapsed = {} => current = before.current
         /\ returned = "no" /\ lapsed \cap LinkLost = {} => Same(db, before.db)
    /\ pc \in {"back_files", "back_db", "back_release"} /\ before.current # None =>
         current = before.current
    /\ pc \in {"back_db", "back_release"} => disk = before.disk
    /\ pc = "back_release" /\ place = "default" => Same(db, before.db)

\* Which steps of the rollback may have failed by now.
Lapses ==
    /\ pc \notin {"idle"} \cup UndoSteps \cup BackSteps => lapsed = {}
    /\ pc \in UndoSteps => lapsed \subseteq {"undo_release"}
    /\ pc \in BackSteps => lapsed \subseteq UndoSteps /\ (op.kind = "configure" => lapsed = {})
    /\ pc # "idle" /\ lapsed # {} => "rollback" \in disturbed

Restorable == Lapses /\ Changed /\ Releases /\ Remembered /\ GoingBack /\ FailureRestores

\* Files that are not the signed ones are those of the release being installed.
Signed ==
    disturbed \cap {"killed", "rollback"} = {} /\ spoiled # {} =>
        /\ Installing /\ pc \in CommittedSteps \cup {"undo_link", "undo_release"}
        /\ spoiled = {op.ver}

\* The runtime cannot run while an update does.
Barred ==
    /\ BarrierOnlyInUpdate
    /\ pc # "idle" /\ op.kind = "update" => barrier = "up"
    /\ pc \notin {"idle", "stop"} /\ op.kind = "update" => runtime = None

\* A release knows the schema of a database.
Fit(d, c) == c # None => d.schema <= Schema[c]

NewSteps == {"materialize", "probe", "switch", "binlink", "doctor", "check"} \cup ConnectSteps
OldSteps == FirstSteps \cup {"backup", "secrets", "config", "profiles", "local", "migrate"}

SchemaKept ==
    /\ pc = "idle" \/ ~Installing => Fit(db, current)
    /\ (pc = "idle" \/ op.kind # "install") /\ disk.config.gen = 0 => current = None
    /\ pc # "idle" => outcome # "interrupted"
    /\ pc # "idle" /\ op.kind = "install" => before.current = None
    /\ pc # "idle" /\ op.kind = "update" => Schema[op.code] <= Schema[op.ver]
    /\ pc # "idle" /\ Saving => before.disk.config.gen # 0 /\ disk.config.gen # 0
    /\ pc \in {"materialize", "probe", "switch"} /\ Installing => db.schema = Schema[op.code]
    /\ pc \in {"binlink", "doctor", "check"} \cup ConnectSteps /\ Installing =>
         db.schema <= Schema[op.ver]

SchemaSaved ==
    /\ pc \notin {"idle", "stop", "save"} /\ Saving => Fit(outer.db, before.current)
    /\ pc \in OldSteps /\ op.kind = "update" => Fit(db, before.current)
    /\ pc \in OldSteps \ {"stop", "save"} /\ op.kind = "update" => outer.db.schema <= db.schema
    /\ op.kind = "update" /\ (pc \in NewSteps \/ (pc \in BackSteps /\ returned = "yes")) =>
         outer.db.schema <= Schema[op.code]
    /\ pc = "back_release" /\ returned = "yes" => db.schema = outer.db.schema
    /\ pc \in (CommittedSteps \ {"backup"}) \cup UndoSteps /\ op.kind = "update" /\ inner # NoSnapshot =>
         Fit(inner.db, before.current)
    /\ pc \in UndoSteps /\ op.kind = "update" /\ (inner = NoSnapshot \/ pc = "undo_files") =>
         Fit(db, before.current)
    /\ pc \in BackSteps /\ op.kind = "update" /\ returned = "no" => Fit(db, before.current)

SchemaInv == disturbed = {} => SchemaKept /\ SchemaSaved

\* What was written so far, of the configuration that is asked for.
LocalOf(g, v) == [gen |-> g, release |-> v]
ProfileOf(g, c) == [gen |-> g, code |-> c]

WrittenSteps == {"switch", "binlink", "doctor", "check"} \cup ConnectSteps
WrittenSoFar ==
    /\ Installing /\ pc \in WrittenSteps \cup {"profiles", "local", "migrate", "materialize", "probe"} =>
         disk.config.gen = op.gen
    /\ Installing /\ pc \in WrittenSteps \cup {"local", "migrate", "materialize", "probe"} =>
         disk.profiles = op.gen
    /\ Installing /\ pc \in WrittenSteps \cup {"migrate", "materialize", "probe"} =>
         disk.local = LocalOf(op.gen, op.ver)
    /\ Installing /\ pc \in WrittenSteps \cup {"probe"} => db.profile = ProfileOf(op.gen, op.code)
    /\ Installing /\ pc \in WrittenSteps /\ op.skip = "no" => db.probed = ProfileOf(op.gen, op.code)

UpToDate(d, profile, probed, c) ==
    /\ probed = profile /\ profile.gen = d.config.gen
    /\ d.profiles = d.config.gen
    /\ d.local = [gen |-> d.config.gen, release |-> c]

Updated ==
    pc = "idle" /\ op.kind = "update" /\ outcome \in {"ok", "partial"} =>
        UpToDate(disk, db.profile, db.probed, current)

\* A database with the marker has no payload of the former contract, and a schema
\* that only releases of the present one know.
Marked(d) == d.marker = "yes" => d.legacy = {} /\ \E v \in Reformed : Schema[v] <= d.schema
Later(d, e) == d.marker = "yes" => e.marker = "yes"

Cut ==
    /\ Marked(db)
    /\ runtime \notin Reformed \cup {None} => db.marker = "no"
    /\ pc # "idle" => Marked(inner.db) /\ Marked(outer.db) /\ Later(outer.db, db)
    /\ pc \notin {"idle", "back_release"} => Later(inner.db, db)
    /\ pc # "idle" /\ inner # NoSnapshot => Later(outer.db, inner.db)

\* What an update remembers has every round.
RoundsKept ==
    op.kind = "update" /\ pc \notin {"idle", "stop", "save"} =>
        (place = "default" => outer.db.rounds = db.rounds) /\ (inner # NoSnapshot => inner.db.rounds = db.rounds)

\* A file that the last install replaced.
Came(a, file) ==
    /\ replaced[a] = "user" => file = mine[a]
    /\ replaced[a] = "own" => file \in Versions

\* Disconnecting an agent puts back what the payload replaced.
OwnFile(a) ==
    /\ agent[a].record # NoRecord => agent[a].file # "none"
    /\ pc = "adapter" /\ op.agent = a /\ ~Unrecorded(a) /\ step < 4 => seen.file = agent[a].file
    /\ Unrecorded(a) => /\ agent[a].file = current /\ current \in Versions
                        /\ Came(a, seen.file)
    /\ ~Unrecorded(a) => Came(a, RestoredFile(agent[a]))
    /\ pc = "unpersist" /\ op.agent = a /\ outcome # "partial" => Came(a, agent[a].file)

UserFiles ==
    /\ \A a \in Agents : Kind(a) # "hooks" => OwnFile(a)
    /\ UserFileComesBack

InstallerInv ==
    /\ TypeOK /\ Places /\ AskedFor /\ Linked /\ Restorable /\ Signed /\ Barred /\ SchemaInv
    /\ WrittenSoFar /\ Updated /\ Cut /\ RoundsKept /\ UserFiles

-----------------------------------------------------------------------------
(* Where a step leads.                                                      *)

\* Where each write of the configuration leads, for each operation that writes it.
LEMMA WriteLeads ==
    /\ Written("secrets") => pc' = "config" /\ UNCHANGED <<outcome, barrier>>
    /\ Written("config") => pc' = "profiles" /\ UNCHANGED <<outcome, barrier>>
    /\ Written("profiles") =>
         \/ op.kind = "import" /\ End("ok")
         \/ op.kind # "import" /\ pc' = "local" /\ UNCHANGED <<outcome, barrier>>
    /\ Written("local") => pc' = "migrate" /\ UNCHANGED <<outcome, barrier>>
    /\ Written("migrate") => pc' = "materialize" /\ UNCHANGED <<outcome, barrier>>
    /\ Written("materialize") =>
         \/ op.skip # "yes" /\ pc' = "probe" /\ UNCHANGED <<outcome, barrier>>
         \/ op.skip = "yes" /\ op.kind = "configure" /\ End("ok")
         \/ op.skip = "yes" /\ op.kind # "configure" /\ pc' = "switch" /\ UNCHANGED <<outcome, barrier>>
    /\ Written("probe") =>
         \/ op.kind = "configure" /\ End("ok")
         \/ op.kind # "configure" /\ pc' = "switch" /\ UNCHANGED <<outcome, barrier>>
<1>1. /\ After("secrets") = "config" /\ After("config") = "profiles"
      /\ After("profiles") = "local" /\ After("local") = "migrate"
      /\ After("migrate") = "materialize" /\ After("probe") = "written"
      /\ After("materialize") = IF op.skip = "yes" THEN "written" ELSE "probe"
    BY DEF After
<1> QED
    BY <1>1 DEF Written, Goto

\* An exception of an operation is caught by one handler, or by none.
LEMMA FailLeads ==
    ASSUME Fail
    PROVE  \/ /\ op.kind = "update" /\ pc \in {"prepare", "commit", "check"}
              /\ pc' = "back_link" /\ UNCHANGED <<outcome, barrier>>
           \/ /\ Installing /\ pc \in CommittedSteps
              /\ pc' = "undo_link" /\ UNCHANGED <<outcome, barrier>>
           \/ /\ op.kind = "configure" /\ pc \in WriteSteps
              /\ pc' = "back_files" /\ UNCHANGED <<outcome, barrier>>
           \/ /\ op.kind \in {"install", "update", "connect"} /\ pc \in AdapterSteps
              /\ pc' = "disconnect" /\ UNCHANGED <<outcome, barrier>>
           \/ /\ ~(op.kind = "update" /\ pc \in {"prepare", "commit", "check"})
              /\ ~(Installing /\ pc \in CommittedSteps)
              /\ ~(op.kind = "configure" /\ pc \in WriteSteps)
              /\ ~(op.kind \in {"install", "update", "connect"} /\ pc \in AdapterSteps)
              /\ End("failed")
<1>1. CASE op.kind = "update" /\ pc \in {"prepare", "commit", "check"}
  <2>1. Handler = "back_link"
    BY <1>1 DEF Handler, CommittedSteps, WriteSteps, AdapterSteps
  <2> QED
    BY <1>1, <2>1 DEF Fail, Goto
<1>2. CASE Installing /\ pc \in CommittedSteps
  <2>1. Handler = "undo_link"
    BY <1>2 DEF Handler, CommittedSteps, WriteSteps, AdapterSteps, Installing
  <2> QED
    BY <1>2, <2>1 DEF Fail, Goto
<1>3. CASE op.kind = "configure" /\ pc \in WriteSteps
  <2>1. Handler = "back_files"
    BY <1>3 DEF Handler, CommittedSteps, WriteSteps, AdapterSteps
  <2> QED
    BY <1>3, <2>1 DEF Fail, Goto
<1>4. CASE op.kind \in {"install", "update", "connect"} /\ pc \in AdapterSteps
  <2>1. Handler = "disconnect"
    BY <1>4 DEF Handler, CommittedSteps, WriteSteps, AdapterSteps
  <2> QED
    BY <1>4, <2>1 DEF Fail, Goto
<1>5. CASE /\ ~(op.kind = "update" /\ pc \in {"prepare", "commit", "check"})
           /\ ~(Installing /\ pc \in CommittedSteps)
           /\ ~(op.kind = "configure" /\ pc \in WriteSteps)
           /\ ~(op.kind \in {"install", "update", "connect"} /\ pc \in AdapterSteps)
  <2>1. Handler = "idle"
    BY <1>5 DEF Handler, Installing
  <2> QED
    BY <1>5, <2>1 DEF Fail
<1> QED
    BY <1>1, <1>2, <1>3, <1>4, <1>5

\* One write of an adapter: the agent stays an agent of its kind.
LEMMA AdapterLeads ==
    ASSUME TypeOK, AskedFor, AdapterInstall
    PROVE  /\ agent' \in [Agents -> Agent] /\ step' \in 1..4 /\ todo' \subseteq todo
           /\ \A a \in Agents : agent'[a].kind = agent[a].kind
           /\ replaced' \in [Agents -> {"user", "own", "lost"}]
           /\ \/ pc' = "adapter" /\ Doing # "verify"
              \/ pc' = "persist" /\ op.kind # "repair"
              \/ pc' = "connect" /\ op.kind = "repair"
           /\ UNCHANGED <<outcome, barrier>>
<1> DEFINE a == op.agent
<1> DEFINE k == agent[a].kind
<1>1. /\ a \in Agents /\ agent \in [Agents -> Agent] /\ agent[a] \in Agent /\ k \in Kinds
      /\ step \in 1..4 /\ seen \in Agent /\ op.enabled \in Enabling
      /\ pc = "adapter" /\ (k # "hooks" => current \in Versions)
    BY DEF AdapterInstall, TypeOK, AskedFor, PayloadThere, Kind, Agent, Requests
<1>2. /\ InstallOrder(k)[1] \in {"payload", "settings"} /\ InstallOrder(k)[2] \in {"payload", "settings"}
      /\ InstallOrder(k)[3] = "record" /\ InstallOrder(k)[4] = "verify"
    BY <1>1 DEF InstallOrder
<1>3. Doing \in {"payload", "settings", "record", "verify"} /\ (Doing # "verify" => step < 4)
    BY <1>1, <1>2 DEF Doing, Kind
<1>4. Adapted \in Agent /\ Adapted.kind = agent[a].kind
  <2>1. CASE Doing = "settings"
    <3>1. Adapted = [agent[a] EXCEPT !.settings = op.enabled]
      BY <2>1 DEF Adapted, InstallStep
    <3> QED
      BY <1>1, <3>1 DEF Agent
  <2>2. CASE Doing = "payload"
    <3>1. Adapted = IF k = "hooks" THEN [agent[a] EXCEPT !.hooks = MergeHooks(@)]
                    ELSE [agent[a] EXCEPT !.file = current]
      BY <2>2 DEF Adapted, InstallStep, Kind
    <3> QED
      BY <1>1, <3>1 DEF Agent, MergeHooks, Contents
  <2>3. CASE Doing = "record"
    <3>1. Adapted = IF k = "hooks" THEN agent[a]
                    ELSE [agent[a] EXCEPT !.record = Recorded(seen, current)]
      BY <2>3 DEF Adapted, InstallStep, Kind
    <3>2. k # "hooks" => Recorded(seen, current) \in Records
      BY <1>1 DEF Recorded, Records, Agent
    <3> QED
      BY <1>1, <3>1, <3>2 DEF Agent
  <2>4. CASE Doing = "verify"
    <3>1. Adapted = IF k = "hermes" THEN [agent[a] EXCEPT !.active = op.enabled] ELSE agent[a]
      BY <2>4 DEF Adapted, InstallStep, Kind
    <3> QED
      BY <1>1, <3>1 DEF Agent
  <2> QED
    BY <1>3, <2>1, <2>2, <2>3, <2>4
<1>5. agent' = [agent EXCEPT ![a] = Adapted]
    BY DEF AdapterInstall
<1>6. agent' \in [Agents -> Agent] /\ \A b \in Agents : agent'[b].kind = agent[b].kind
    BY <1>1, <1>4, <1>5
<1>7. replaced' \in [Agents -> {"user", "own", "lost"}]
    BY <1>1 DEF AdapterInstall, TypeOK
<1>8. /\ step' \in 1..4 /\ todo' \subseteq todo
      /\ \/ pc' = "adapter" /\ Doing # "verify"
         \/ pc' = "persist" /\ op.kind # "repair"
         \/ pc' = "connect" /\ op.kind = "repair"
      /\ UNCHANGED <<outcome, barrier>>
    BY <1>1, <1>3 DEF AdapterInstall, Goto
<1> QED
    BY <1>6, <1>7, <1>8

\* A request changes nothing of the machine but the barrier and the selection.
LEMMA BeginLeads ==
    ASSUME BeginStep
    PROVE  /\ pc = "idle" /\ ops < MaxOps /\ ops' = ops + 1
           /\ UNCHANGED <<releases, spoiled, current, binlink, db, runtime, seen, step, place,
                          mine, replaced, captured, faults>>
<1>1. ASSUME NEW v \in Versions, RefuseUpdate(v)
      PROVE  /\ pc = "idle" /\ ops < MaxOps /\ ops' = ops + 1
             /\ UNCHANGED <<releases, spoiled, current, binlink, db, runtime, seen, step, place,
                            mine, replaced, captured, faults>>
    BY <1>1 DEF RefuseUpdate, machine
<1>2. ASSUME NEW v \in Versions, NEW code \in Versions, NEW skip \in {"yes", "no"},
              BeginUpdate(v, code, skip)
      PROVE  /\ pc = "idle" /\ ops < MaxOps /\ ops' = ops + 1
             /\ UNCHANGED <<releases, spoiled, current, binlink, db, runtime, seen, step, place,
                            mine, replaced, captured, faults>>
    BY <1>2 DEF BeginUpdate, Begin, machine
<1>3. ASSUME NEW v \in Versions, NEW g \in Gens, NEW sel \in Choices, NEW skip \in {"yes", "no"},
              BeginInstall(v, g, sel, skip)
      PROVE  /\ pc = "idle" /\ ops < MaxOps /\ ops' = ops + 1
             /\ UNCHANGED <<releases, spoiled, current, binlink, db, runtime, seen, step, place,
                            mine, replaced, captured, faults>>
    BY <1>3 DEF BeginInstall, Begin, machine
<1>4. ASSUME NEW g \in Gens, NEW sel \in Choices, BeginImport(g, sel)
      PROVE  /\ pc = "idle" /\ ops < MaxOps /\ ops' = ops + 1
             /\ UNCHANGED <<releases, spoiled, current, binlink, db, runtime, seen, step, place,
                            mine, replaced, captured, faults>>
    BY <1>4 DEF BeginImport, Begin, machine
<1>5. ASSUME NEW g \in Gens, NEW sel \in Choices, NEW skip \in {"yes", "no"},
              BeginConfigure(g, sel, skip)
      PROVE  /\ pc = "idle" /\ ops < MaxOps /\ ops' = ops + 1
             /\ UNCHANGED <<releases, spoiled, current, binlink, db, runtime, seen, step, place,
                            mine, replaced, captured, faults>>
    BY <1>5 DEF BeginConfigure, Begin, machine
<1>6. ASSUME NEW a \in Agents, BeginDisconnect(a)
      PROVE  /\ pc = "idle" /\ ops < MaxOps /\ ops' = ops + 1
             /\ UNCHANGED <<releases, spoiled, current, binlink, db, runtime, seen, step, place,
                            mine, replaced, captured, faults>>
    BY <1>6 DEF BeginDisconnect, Begin, machine
<1>7. ASSUME NEW a \in Agents, NEW e \in {"enabled", "disabled"}, BeginConnect(a, e)
      PROVE  /\ pc = "idle" /\ ops < MaxOps /\ ops' = ops + 1
             /\ UNCHANGED <<releases, spoiled, current, binlink, db, runtime, seen, step, place,
                            mine, replaced, captured, faults>>
    BY <1>7 DEF BeginConnect, Begin, machine
<1>8. ASSUME NEW a \in Agents, NEW e \in {"enabled", "disabled"}, SetEnabled(a, e)
      PROVE  /\ pc = "idle" /\ ops < MaxOps /\ ops' = ops + 1
             /\ UNCHANGED <<releases, spoiled, current, binlink, db, runtime, seen, step, place,
                            mine, replaced, captured, faults>>
    BY <1>8 DEF SetEnabled, machine
<1>9. ASSUME BeginRepair
      PROVE  /\ pc = "idle" /\ ops < MaxOps /\ ops' = ops + 1
             /\ UNCHANGED <<releases, spoiled, current, binlink, db, runtime, seen, step, place,
                            mine, replaced, captured, faults>>
    BY <1>9 DEF BeginRepair, Begin, machine
<1>10. ASSUME NEW purge \in SUBSET {"data", "config"}, BeginUninstall(purge)
      PROVE  /\ pc = "idle" /\ ops < MaxOps /\ ops' = ops + 1
             /\ UNCHANGED <<releases, spoiled, current, binlink, db, runtime, seen, step, place,
                            mine, replaced, captured, faults>>
    BY <1>10 DEF BeginUninstall, Begin, machine
<1> QED
    BY <1>1, <1>2, <1>3, <1>4, <1>5, <1>6, <1>7, <1>8, <1>9, <1>10 DEF BeginStep

\* Removing an adapter's part leaves an agent of its kind.
LEMMA UninstalledTypes ==
    ASSUME NEW now \in Agent
    PROVE  /\ Uninstalled(now.kind, now) \in Agent
           /\ Uninstalled(now.kind, now).kind = now.kind
<1>1. /\ now.kind \in Kinds /\ now.file \in Contents /\ RestoredFile(now) \in Contents
      /\ NoRecord \in Records \cup {NoRecord} /\ "none" \in Enabling
      /\ now.record # NoRecord => now.record.settings \in Enabling
    BY DEF Agent, RestoredFile, Records, Enabling
<1>2. CASE now.kind = "hooks"
  <2>1. Uninstalled(now.kind, now) = [now EXCEPT !.hooks = RemoveHooks(@), !.settings = "none"]
    BY <1>2 DEF Uninstalled
  <2> QED
    BY <1>1, <2>1 DEF Agent, RemoveHooks
<1>3. CASE now.kind = "plugin"
  <2>1. Uninstalled(now.kind, now) = [now EXCEPT !.file = RestoredFile(now), !.settings = "none",
                                                 !.record = NoRecord]
    BY <1>3 DEF Uninstalled
  <2> QED
    BY <1>1, <2>1 DEF Agent
<1>4. CASE now.kind = "hermes"
  <2>1. Uninstalled(now.kind, now) =
            IF now.record = NoRecord THEN now
            ELSE [now EXCEPT !.file = RestoredFile(now), !.settings = now.record.settings,
                             !.record = NoRecord]
    BY <1>4 DEF Uninstalled
  <2> QED
    BY <1>1, <2>1 DEF Agent
<1> QED
    BY <1>1, <1>2, <1>3, <1>4 DEF Kinds

-----------------------------------------------------------------------------
(* Types                                                                    *)

\* What stands for nothing has its type.
LEMMA Constants ==
    /\ NoOp \in [kind : {"none"}, ver : Versions \cup {None}, gen : Gens \cup {0},
                 code : Versions \cup {None}, skip : {"yes", "no"},
                 purge : SUBSET {"data", "config"}, sel : Selections,
                 agent : Agents \cup {None}, enabled : Enabling]
    /\ NoDisk \in Disks /\ NoDatabase \in Databases /\ NoSnapshot \in Snapshots
    /\ NoFingerprint \in Fingerprints /\ NoSelection \in Selections
<1>1. NoSelection \in Selections
    BY DEF NoSelection, Selections, Enabling, None
<1>2. NoFingerprint \in Fingerprints
    BY DEF NoFingerprint, Fingerprints
<1>3. NoDisk \in Disks
    BY <1>1 DEF NoDisk, Disks
<1>4. NoDatabase \in Databases
    BY <1>2 DEF NoDatabase, Databases
<1>5. NoSnapshot \in Snapshots
    BY <1>3, <1>4 DEF NoSnapshot, Snapshots
<1>6. None \in Enabling
    BY DEF Enabling, None
<1> QED
    BY <1>1, <1>2, <1>3, <1>4, <1>5, <1>6 DEF NoOp

MachineTypes ==
    /\ releases \subseteq Versions /\ spoiled \subseteq Versions /\ current \in Versions \cup {None}
    /\ binlink \in {"present", "absent"} /\ runtime \in Versions \cup {None}
AgentTypes ==
    /\ agent \in [Agents -> Agent] /\ seen \in Agent /\ step \in 1..4 /\ todo \subseteq Agents
    /\ mine \in [Agents -> {"none", "user", "edited"}] /\ replaced \in [Agents -> {"user", "own", "lost"}]
Labels ==
    {"idle", "prepare", "commit", "stop", "save", "connect", "check", "disconnect", "unpersist",
     "remove", "sweep"} \cup CommittedSteps \cup AdapterSteps \cup RollbackSteps
Outcomes == {"none", "ok", "partial", "failed", "killed", "interrupted"}
SnapshotTypes == inner \in Snapshots /\ outer \in Snapshots /\ before \in Snapshots
FlagTypes ==
    /\ pc \in Labels /\ outcome \in Outcomes /\ barrier \in {"up", "down"}
    /\ switched \in {"yes", "no"} /\ returned \in {"yes", "no"}
PastTypes ==
    /\ place \in {"default", "named"} /\ lapsed \subseteq RollbackSteps
    /\ disturbed \subseteq {"killed", "interrupted", "older", "rollback", "unrestored"}
CountTypes == captured \in 0..MaxRounds /\ ops \in 0..MaxOps /\ faults \in 0..(MaxFaults + 1)

LEMMA TypeParts ==
    TypeOK <=> /\ MachineTypes /\ AgentTypes /\ SnapshotTypes /\ FlagTypes /\ PastTypes /\ CountTypes
               /\ disk \in Disks /\ db \in Databases /\ op \in Requests
    BY DEF TypeOK, MachineTypes, AgentTypes, SnapshotTypes, FlagTypes, PastTypes,
           CountTypes, Labels, Outcomes

LEMMA MachineStep ==
    ASSUME TypeOK, AskedFor, Places, [Next]_vars
    PROVE  MachineTypes'
<1>0. /\ MachineTypes /\ inner \in Snapshots /\ outer \in Snapshots
      /\ pc # "idle" /\ Installing => op.ver \in Versions
      /\ pc \in {"commit", "switch", "undo_release", "back_release"} => Installing
    BY DEF TypeOK, MachineTypes, AskedFor, Places, UndoSteps, Installing
<1> USE InstallerAssumption DEF MachineTypes
<1>1. CASE BeginStep
    BY <1>1, <1>0, BeginLeads
<1>2. CASE WriteStep
    BY <1>2, <1>0 DEF WriteStep, WriteSecrets, memory, history, WriteConfig,
                      WriteProfiles, WriteLocal, Migrate, Materialize, PersistProbe
<1>3. CASE Stop
    BY <1>3, <1>0 DEF Stop, Goto, memory, history
<1>4. ASSUME NEW b \in Bundles, Commit(b)
      PROVE MachineTypes'
    BY <1>4, <1>0 DEF Commit, Goto, memory, history
<1>5. CASE SwitchCurrent
    BY <1>5, <1>0 DEF SwitchCurrent, Goto, history
<1>6. CASE InstallBinLink
    BY <1>6, <1>0 DEF InstallBinLink, Goto, memory, history
<1>7. CASE \/ Save \/ Backup \/ PassDoctor \/ CheckUpdate
           \/ \E b \in Bundles : Prepare(b)
    BY <1>7, <1>0 DEF Save, Goto, history, Prepare, memory, Backup, PassDoctor,
                      CheckUpdate, End
<1>8. CASE AgentStep
    BY <1>8, <1>0 DEF AgentStep, Connect, Goto, history, Remove, Undetected, End,
                      AdapterInstall, PersistSelection, UndoConnect, ConnectDone,
                      Unpersist, memory
<1>9. CASE UndoLink
    BY <1>9, <1>0 DEF UndoLink, Goto, memory, history, Snapshots
<1>10. CASE UndoRelease
    BY <1>10, <1>0 DEF UndoRelease, Goto, End, memory, history
<1>11. CASE BackLink
    BY <1>11, <1>0 DEF BackLink, Goto, memory, history, Snapshots
<1>12. CASE BackRelease
    BY <1>12, <1>0 DEF BackRelease, End, memory, history
<1>13. CASE ReleaseStays
    BY <1>13, <1>0 DEF ReleaseStays, Lapse, Goto, End, memory
<1>14. CASE \/ UndoDatabase \/ UndoFiles \/ BackFiles \/ BackDatabase \/ RollbackStops
            \/ \E files \in SUBSET {"config", "profiles", "secrets", "local"}, old \in {inner.disk, outer.disk} :
                FilesStop(files, old)
    BY <1>14, <1>0 DEF UndoDatabase, Goto, memory, history, UndoFiles, End,
                       BackFiles, BackDatabase, RollbackStops, Lapse, Aborted,
                       FilesStop
<1>15. CASE Unlink
    BY <1>15, <1>0 DEF Unlink, Goto, memory, history
<1>16. ASSUME NEW v \in Versions, Sweep(v)
      PROVE MachineTypes'
    BY <1>16, <1>0 DEF Sweep, Goto, memory, history
<1>17. CASE Finish
    BY <1>17, <1>0 DEF Finish, End, memory
<1>18. CASE StartRuntime
    BY <1>18, <1>0 DEF StartRuntime, memory, history, Starting
<1>19. CASE RuntimeDies
    BY <1>19, <1>0 DEF RuntimeDies, memory, history
<1>20. CASE \/ Fail \/ Kill \/ Interrupt \/ StartRefused \/ Capture \/ UNCHANGED vars
            \/ \E a \in Agents : Edit(a)
    BY <1>20, <1>0 DEF Fail, memory, Kill, machine, Interrupt, End, StartRefused,
                       history, Capture, Edit, vars
<1> HIDE DEF MachineTypes
<1> QED
    BY <1>1, <1>2, <1>3, <1>4, <1>5, <1>6, <1>7, <1>8, <1>9, <1>10, <1>11, <1>12, <1>13,
       <1>14, <1>15, <1>16, <1>17, <1>18, <1>19, <1>20
    DEF Next, BeginStep, WriteStep, InstallSteps, AgentStep, RollbackStep, RemovalStep

LEMMA FlagStep ==
    ASSUME TypeOK, AskedFor, [Next]_vars
    PROVE  FlagTypes'
<1>0. FlagTypes
    BY DEF TypeOK, FlagTypes, Labels, Outcomes
<1> USE DEF FlagTypes, Labels, Outcomes, CommittedSteps, WriteSteps, AdapterSteps,
            RollbackSteps
<1>1. ASSUME NEW v \in Versions, RefuseUpdate(v)
      PROVE FlagTypes'
    BY <1>1, <1>0 DEF RefuseUpdate, machine
<1>2. ASSUME NEW v \in Versions, NEW code \in Versions, NEW skip \in {"yes", "no"},
              BeginUpdate(v, code, skip)
      PROVE FlagTypes'
    BY <1>2, <1>0 DEF BeginUpdate, Begin
<1>3. ASSUME NEW v \in Versions, NEW g \in Gens, NEW sel \in Choices, NEW skip \in {"yes", "no"},
              BeginInstall(v, g, sel, skip)
      PROVE FlagTypes'
    BY <1>3, <1>0 DEF BeginInstall, Begin
<1>4. ASSUME NEW g \in Gens, NEW sel \in Choices, BeginImport(g, sel)
      PROVE FlagTypes'
    BY <1>4, <1>0 DEF BeginImport, Begin
<1>5. ASSUME NEW g \in Gens, NEW sel \in Choices, NEW skip \in {"yes", "no"},
              BeginConfigure(g, sel, skip)
      PROVE FlagTypes'
    BY <1>5, <1>0 DEF BeginConfigure, Begin
<1>6. ASSUME NEW a \in Agents, BeginDisconnect(a)
      PROVE FlagTypes'
    BY <1>6, <1>0 DEF BeginDisconnect, Begin
<1>7. ASSUME NEW a \in Agents, NEW e \in {"enabled", "disabled"}, BeginConnect(a, e)
      PROVE FlagTypes'
    BY <1>7, <1>0 DEF BeginConnect, Begin
<1>8. ASSUME NEW a \in Agents, NEW e \in {"enabled", "disabled"}, SetEnabled(a, e)
      PROVE FlagTypes'
    BY <1>8, <1>0 DEF SetEnabled
<1>9. CASE BeginRepair
    BY <1>9, <1>0 DEF BeginRepair, Begin
<1>10. ASSUME NEW purge \in SUBSET {"data", "config"}, BeginUninstall(purge)
      PROVE FlagTypes'
    BY <1>10, <1>0 DEF BeginUninstall, Begin
<1>11. CASE WriteSecrets
    BY <1>11, <1>0, WriteLeads DEF WriteSecrets, memory, history, End
<1>12. CASE WriteConfig
    BY <1>12, <1>0, WriteLeads DEF WriteConfig, memory, history, End
<1>13. CASE WriteProfiles
    BY <1>13, <1>0, WriteLeads DEF WriteProfiles, memory, history, End
<1>14. CASE WriteLocal
    BY <1>14, <1>0, WriteLeads DEF WriteLocal, memory, history, End
<1>15. CASE Migrate
    BY <1>15, <1>0, WriteLeads DEF Migrate, memory, history, End
<1>16. CASE Materialize
    BY <1>16, <1>0, WriteLeads DEF Materialize, memory, history, End
<1>17. CASE PersistProbe
    BY <1>17, <1>0, WriteLeads DEF PersistProbe, memory, history, End
<1>18. CASE Stop
    BY <1>18, <1>0 DEF Stop, Goto, memory, history
<1>19. CASE Save
    BY <1>19, <1>0 DEF Save, Goto, history
<1>20. ASSUME NEW b \in Bundles, Prepare(b)
      PROVE FlagTypes'
    BY <1>20, <1>0 DEF Prepare, Goto, memory, history
<1>21. ASSUME NEW b \in Bundles, Commit(b)
      PROVE FlagTypes'
    BY <1>21, <1>0 DEF Commit, Goto, memory, history
<1>22. CASE Backup
    BY <1>22, <1>0 DEF Backup, Goto, history
<1>23. CASE SwitchCurrent
    BY <1>23, <1>0 DEF SwitchCurrent, Goto, history
<1>24. CASE InstallBinLink
    BY <1>24, <1>0 DEF InstallBinLink, Goto, memory, history
<1>25. CASE PassDoctor
    BY <1>25, <1>0 DEF PassDoctor, Goto, history
<1>26. CASE CheckUpdate
    BY <1>26, <1>0 DEF CheckUpdate, End, memory, history
<1>27. ASSUME NEW a \in Agents, Connect(a)
      PROVE FlagTypes'
    BY <1>27, <1>0 DEF Connect, Goto, history
<1>28. ASSUME NEW a \in Agents, Remove(a)
      PROVE FlagTypes'
    BY <1>28, <1>0 DEF Remove, Goto, history
<1>29. ASSUME NEW a \in Agents, Undetected(a)
      PROVE FlagTypes'
    BY <1>29, <1>0 DEF Undetected, End, history
<1>30. CASE AdapterInstall
    BY <1>30, <1>0, AdapterLeads DEF AdapterInstall, Goto
<1>31. CASE PersistSelection
    BY <1>31, <1>0 DEF PersistSelection, Goto, End, history
<1>32. CASE UndoConnect
    BY <1>32, <1>0 DEF UndoConnect, End, history
<1>33. CASE ConnectDone
    BY <1>33, <1>0 DEF ConnectDone, Goto, End, history
<1>34. CASE Unpersist
    BY <1>34, <1>0 DEF Unpersist, End, memory, history
<1>35. CASE UndoLink
    BY <1>35, <1>0 DEF UndoLink, Goto, memory, history
<1>36. CASE UndoRelease
    BY <1>36, <1>0 DEF UndoRelease, Goto, End, memory, history
<1>37. CASE UndoDatabase
    BY <1>37, <1>0 DEF UndoDatabase, Goto, memory, history
<1>38. CASE UndoFiles
    BY <1>38, <1>0 DEF UndoFiles, Goto, End, memory, history
<1>39. CASE BackLink
    BY <1>39, <1>0 DEF BackLink, Goto, memory, history
<1>40. CASE BackFiles
    BY <1>40, <1>0 DEF BackFiles, Goto, memory, history
<1>41. CASE BackDatabase
    BY <1>41, <1>0 DEF BackDatabase, Goto, End, memory
<1>42. CASE BackRelease
    BY <1>42, <1>0 DEF BackRelease, End, memory, history
<1>43. CASE RollbackStops
    BY <1>43, <1>0 DEF RollbackStops, Lapse, Aborted, Goto, End, memory
<1>44. CASE ReleaseStays
    BY <1>44, <1>0 DEF ReleaseStays, Lapse, Goto, End, memory
<1>45. ASSUME NEW files \in SUBSET {"config", "profiles", "secrets", "local"},
             NEW old \in {inner.disk, outer.disk}, FilesStop(files, old)
      PROVE FlagTypes'
    BY <1>45, <1>0 DEF FilesStop, Lapse, Aborted, Goto, End, memory
<1>46. CASE Unlink
    BY <1>46, <1>0 DEF Unlink, Goto, memory, history
<1>47. ASSUME NEW v \in Versions, Sweep(v)
      PROVE FlagTypes'
    BY <1>47, <1>0 DEF Sweep, Goto, memory, history
<1>48. CASE Finish
    BY <1>48, <1>0 DEF Finish, End, memory
<1>49. CASE Fail
    BY <1>49, <1>0, FailLeads DEF Fail, memory, End
<1>50. CASE Kill
    BY <1>50, <1>0 DEF Kill, machine, memory
<1>51. CASE Interrupt
    BY <1>51, <1>0 DEF Interrupt, End, memory
<1>52. CASE \/ StartRuntime \/ StartRefused \/ RuntimeDies \/ Capture \/ UNCHANGED vars
            \/ \E a \in Agents : Edit(a)
    BY <1>52, <1>0 DEF StartRuntime, memory, history, StartRefused, RuntimeDies,
                       Capture, Edit, machine, vars
<1> HIDE DEF FlagTypes, Labels, Outcomes, CommittedSteps, WriteSteps, AdapterSteps,
             RollbackSteps
<1> QED
    BY <1>1, <1>2, <1>3, <1>4, <1>5, <1>6, <1>7, <1>8, <1>9, <1>10, <1>11, <1>12, <1>13,
       <1>14, <1>15, <1>16, <1>17, <1>18, <1>19, <1>20, <1>21, <1>22, <1>23, <1>24, <1>25,
       <1>26, <1>27, <1>28, <1>29, <1>30, <1>31, <1>32, <1>33, <1>34, <1>35, <1>36, <1>37,
       <1>38, <1>39, <1>40, <1>41, <1>42, <1>43, <1>44, <1>45, <1>46, <1>47, <1>48, <1>49,
       <1>50, <1>51, <1>52
    DEF Next, BeginStep, WriteStep, InstallSteps, AgentStep, RollbackStep, RemovalStep

\* What is noted of the past keeps its type.
LEMMA PastStep ==
    ASSUME TypeOK, [Next]_vars
    PROVE  PastTypes'
<1>0. PastTypes
    BY DEF TypeOK, PastTypes, RollbackSteps
<1> USE DEF PastTypes, RollbackSteps
<1>1. ASSUME NEW v \in Versions, RefuseUpdate(v)
      PROVE PastTypes'
    BY <1>1, <1>0 DEF RefuseUpdate, machine
<1>2. ASSUME NEW v \in Versions, NEW code \in Versions, NEW skip \in {"yes", "no"},
              BeginUpdate(v, code, skip)
      PROVE PastTypes'
    BY <1>2, <1>0 DEF BeginUpdate, Begin
<1>3. ASSUME NEW v \in Versions, NEW g \in Gens, NEW sel \in Choices, NEW skip \in {"yes", "no"},
              BeginInstall(v, g, sel, skip)
      PROVE PastTypes'
    BY <1>3, <1>0 DEF BeginInstall, Begin
<1>4. ASSUME NEW g \in Gens, NEW sel \in Choices, BeginImport(g, sel)
      PROVE PastTypes'
    BY <1>4, <1>0 DEF BeginImport, Begin
<1>5. ASSUME NEW g \in Gens, NEW sel \in Choices, NEW skip \in {"yes", "no"},
              BeginConfigure(g, sel, skip)
      PROVE PastTypes'
    BY <1>5, <1>0 DEF BeginConfigure, Begin
<1>6. ASSUME NEW a \in Agents, BeginDisconnect(a)
      PROVE PastTypes'
    BY <1>6, <1>0 DEF BeginDisconnect, Begin
<1>7. ASSUME NEW a \in Agents, NEW e \in {"enabled", "disabled"}, BeginConnect(a, e)
      PROVE PastTypes'
    BY <1>7, <1>0 DEF BeginConnect, Begin
<1>8. ASSUME NEW a \in Agents, NEW e \in {"enabled", "disabled"}, SetEnabled(a, e)
      PROVE PastTypes'
    BY <1>8, <1>0 DEF SetEnabled
<1>9. CASE BeginRepair
    BY <1>9, <1>0 DEF BeginRepair, Begin
<1>10. ASSUME NEW purge \in SUBSET {"data", "config"}, BeginUninstall(purge)
      PROVE PastTypes'
    BY <1>10, <1>0 DEF BeginUninstall, Begin
<1>11. CASE WriteStep
    BY <1>11, <1>0 DEF WriteStep, WriteSecrets, memory, history, WriteConfig,
                       WriteProfiles, WriteLocal, Migrate, Materialize, PersistProbe
<1>12. CASE InstallSteps
    BY <1>12, <1>0 DEF InstallSteps, Stop, Goto, memory, history, Save, Prepare,
                       Commit, Backup, SwitchCurrent, InstallBinLink, PassDoctor,
                       CheckUpdate, End
<1>13. CASE AgentStep
    BY <1>13, <1>0 DEF AgentStep, Connect, Goto, history, Remove, Undetected, End,
                       AdapterInstall, PersistSelection, UndoConnect, ConnectDone,
                       Unpersist, memory
<1>14. CASE BackDatabase
    BY <1>14, <1>0 DEF BackDatabase, Goto, End, memory
<1>15. CASE RollbackStops
    BY <1>15, <1>0 DEF RollbackStops, Lapse, Aborted, Goto, End, memory
<1>16. CASE ReleaseStays
    BY <1>16, <1>0 DEF ReleaseStays, Lapse, Goto, End, memory
<1>17. ASSUME NEW files \in SUBSET {"config", "profiles", "secrets", "local"},
             NEW old \in {inner.disk, outer.disk}, FilesStop(files, old)
      PROVE PastTypes'
    BY <1>17, <1>0 DEF FilesStop, Lapse, Aborted, Goto, End, memory
<1>18. CASE \/ UndoLink \/ UndoRelease \/ UndoDatabase \/ UndoFiles \/ BackLink \/ BackFiles
            \/ BackRelease
    BY <1>18, <1>0 DEF UndoLink, Goto, memory, history, UndoRelease, End,
                       UndoDatabase, UndoFiles, BackLink, BackFiles, BackRelease
<1>19. CASE RemovalStep
    BY <1>19, <1>0 DEF RemovalStep, Unlink, Goto, memory, history, Sweep, Finish, End
<1>20. CASE Kill
    BY <1>20, <1>0 DEF Kill, machine, memory
<1>21. CASE Interrupt
    BY <1>21, <1>0 DEF Interrupt, End, memory
<1>22. CASE \/ Fail \/ StartRuntime \/ StartRefused \/ RuntimeDies \/ Capture \/ UNCHANGED vars
            \/ \E a \in Agents : Edit(a)
    BY <1>22, <1>0 DEF Fail, memory, StartRuntime, history, StartRefused,
                       RuntimeDies, Capture, Edit, machine, vars
<1> HIDE DEF PastTypes, RollbackSteps
<1> QED
    BY <1>1, <1>2, <1>3, <1>4, <1>5, <1>6, <1>7, <1>8, <1>9, <1>10, <1>11, <1>12, <1>13,
       <1>14, <1>15, <1>16, <1>17, <1>18, <1>19, <1>20, <1>21, <1>22
    DEF Next, BeginStep, WriteStep, InstallSteps, AgentStep, RollbackStep, RemovalStep

LEMMA CountStep ==
    ASSUME TypeOK, [Next]_vars
    PROVE  CountTypes'
<1>0. CountTypes
    BY DEF TypeOK, CountTypes
<1> USE InstallerAssumption DEF CountTypes
<1>1. ASSUME NEW v \in Versions, RefuseUpdate(v)
      PROVE CountTypes'
    BY <1>1, <1>0 DEF RefuseUpdate, machine
<1>2. ASSUME NEW v \in Versions, NEW code \in Versions, NEW skip \in {"yes", "no"},
              BeginUpdate(v, code, skip)
      PROVE CountTypes'
    BY <1>2, <1>0 DEF BeginUpdate, Begin
<1>3. ASSUME NEW v \in Versions, NEW g \in Gens, NEW sel \in Choices, NEW skip \in {"yes", "no"},
              BeginInstall(v, g, sel, skip)
      PROVE CountTypes'
    BY <1>3, <1>0 DEF BeginInstall, Begin
<1>4. ASSUME NEW g \in Gens, NEW sel \in Choices, BeginImport(g, sel)
      PROVE CountTypes'
    BY <1>4, <1>0 DEF BeginImport, Begin
<1>5. ASSUME NEW g \in Gens, NEW sel \in Choices, NEW skip \in {"yes", "no"},
              BeginConfigure(g, sel, skip)
      PROVE CountTypes'
    BY <1>5, <1>0 DEF BeginConfigure, Begin
<1>6. ASSUME NEW a \in Agents, BeginDisconnect(a)
      PROVE CountTypes'
    BY <1>6, <1>0 DEF BeginDisconnect, Begin
<1>7. ASSUME NEW a \in Agents, NEW e \in {"enabled", "disabled"}, BeginConnect(a, e)
      PROVE CountTypes'
    BY <1>7, <1>0 DEF BeginConnect, Begin
<1>8. ASSUME NEW a \in Agents, NEW e \in {"enabled", "disabled"}, SetEnabled(a, e)
      PROVE CountTypes'
    BY <1>8, <1>0 DEF SetEnabled
<1>9. CASE BeginRepair
    BY <1>9, <1>0 DEF BeginRepair, Begin
<1>10. ASSUME NEW purge \in SUBSET {"data", "config"}, BeginUninstall(purge)
      PROVE CountTypes'
    BY <1>10, <1>0 DEF BeginUninstall, Begin
<1>11. CASE WriteStep
    BY <1>11, <1>0 DEF WriteStep, WriteSecrets, memory, history, WriteConfig,
                       WriteProfiles, WriteLocal, Migrate, Materialize, PersistProbe
<1>12. ASSUME NEW b \in Bundles, Commit(b)
      PROVE CountTypes'
    BY <1>12, <1>0 DEF Commit, Goto, memory, history
<1>13. CASE \/ Stop \/ Save \/ Backup \/ SwitchCurrent \/ InstallBinLink \/ PassDoctor
            \/ CheckUpdate
            \/ \E b \in Bundles : Prepare(b)
    BY <1>13, <1>0 DEF Stop, Goto, memory, history, Save, Prepare, Backup,
                       SwitchCurrent, InstallBinLink, PassDoctor, CheckUpdate, End
<1>14. CASE AgentStep
    BY <1>14, <1>0 DEF AgentStep, Connect, Goto, history, Remove, Undetected, End,
                       AdapterInstall, PersistSelection, UndoConnect, ConnectDone,
                       Unpersist, memory
<1>15. CASE RollbackStops
    BY <1>15, <1>0 DEF RollbackStops, Lapse, Aborted, Goto, End, memory
<1>16. CASE ReleaseStays
    BY <1>16, <1>0 DEF ReleaseStays, Lapse, Goto, End, memory
<1>17. ASSUME NEW files \in SUBSET {"config", "profiles", "secrets", "local"},
             NEW old \in {inner.disk, outer.disk}, FilesStop(files, old)
      PROVE CountTypes'
    BY <1>17, <1>0 DEF FilesStop, Lapse, Aborted, Goto, End, memory
<1>18. CASE \/ UndoLink \/ UndoRelease \/ UndoDatabase \/ UndoFiles \/ BackLink \/ BackFiles
            \/ BackDatabase \/ BackRelease
    BY <1>18, <1>0 DEF UndoLink, Goto, memory, history, UndoRelease, End,
                       UndoDatabase, UndoFiles, BackLink, BackFiles, BackDatabase,
                       BackRelease
<1>19. CASE RemovalStep
    BY <1>19, <1>0 DEF RemovalStep, Unlink, Goto, memory, history, Sweep, Finish, End
<1>20. CASE Fail
    BY <1>20, <1>0, FailLeads DEF Fail, memory
<1>21. CASE Kill
    BY <1>21, <1>0 DEF Kill, machine, memory
<1>22. CASE Interrupt
    BY <1>22, <1>0 DEF Interrupt, End, memory
<1>23. CASE RuntimeDies
    BY <1>23, <1>0 DEF RuntimeDies, memory, history
<1>24. CASE Capture
    BY <1>24, <1>0 DEF Capture, memory
<1>25. CASE \/ StartRuntime \/ StartRefused \/ UNCHANGED vars
            \/ \E a \in Agents : Edit(a)
    BY <1>25, <1>0 DEF StartRuntime, memory, history, StartRefused, Edit, machine, vars
<1> HIDE DEF CountTypes
<1> QED
    BY <1>1, <1>2, <1>3, <1>4, <1>5, <1>6, <1>7, <1>8, <1>9, <1>10, <1>11, <1>12, <1>13,
       <1>14, <1>15, <1>16, <1>17, <1>18, <1>19, <1>20, <1>21, <1>22, <1>23, <1>24, <1>25
    DEF Next, BeginStep, WriteStep, InstallSteps, AgentStep, RollbackStep, RemovalStep

LEMMA SnapshotStep ==
    ASSUME TypeOK, [Next]_vars
    PROVE  SnapshotTypes'
<1>0. SnapshotTypes /\ Now \in Snapshots /\ NoSnapshot \in Snapshots
    BY Constants DEF TypeOK, SnapshotTypes, Now, Snapshots
<1>a. DefaultDatabase \in Databases
    BY Constants DEF TypeOK, DefaultDatabase
<1>b. [Now EXCEPT !.db = DefaultDatabase] \in Snapshots
    BY <1>0, <1>a DEF Snapshots
<1> USE InstallerAssumption DEF SnapshotTypes
<1>1. ASSUME NEW v \in Versions, RefuseUpdate(v)
      PROVE SnapshotTypes'
    BY <1>1, <1>0 DEF RefuseUpdate, machine
<1>2. ASSUME NEW v \in Versions, NEW code \in Versions, NEW skip \in {"yes", "no"},
              BeginUpdate(v, code, skip)
      PROVE SnapshotTypes'
    BY <1>2, <1>0 DEF BeginUpdate, Begin
<1>3. ASSUME NEW v \in Versions, NEW g \in Gens, NEW sel \in Choices, NEW skip \in {"yes", "no"},
              BeginInstall(v, g, sel, skip)
      PROVE SnapshotTypes'
    BY <1>3, <1>0 DEF BeginInstall, Begin
<1>4. ASSUME NEW g \in Gens, NEW sel \in Choices, BeginImport(g, sel)
      PROVE SnapshotTypes'
    BY <1>4, <1>0 DEF BeginImport, Begin
<1>5. ASSUME NEW g \in Gens, NEW sel \in Choices, NEW skip \in {"yes", "no"},
              BeginConfigure(g, sel, skip)
      PROVE SnapshotTypes'
    BY <1>5, <1>0 DEF BeginConfigure, Begin
<1>6. ASSUME NEW a \in Agents, BeginDisconnect(a)
      PROVE SnapshotTypes'
    BY <1>6, <1>0 DEF BeginDisconnect, Begin
<1>7. ASSUME NEW a \in Agents, NEW e \in {"enabled", "disabled"}, BeginConnect(a, e)
      PROVE SnapshotTypes'
    BY <1>7, <1>0 DEF BeginConnect, Begin
<1>8. ASSUME NEW a \in Agents, NEW e \in {"enabled", "disabled"}, SetEnabled(a, e)
      PROVE SnapshotTypes'
    BY <1>8, <1>0 DEF SetEnabled
<1>9. CASE BeginRepair
    BY <1>9, <1>0 DEF BeginRepair, Begin
<1>10. ASSUME NEW purge \in SUBSET {"data", "config"}, BeginUninstall(purge)
      PROVE SnapshotTypes'
    BY <1>10, <1>0 DEF BeginUninstall, Begin
<1>11. CASE WriteStep
    BY <1>11, <1>0 DEF WriteStep, WriteSecrets, memory, history, WriteConfig,
                       WriteProfiles, WriteLocal, Migrate, Materialize, PersistProbe
<1>12. CASE Save
    BY <1>12, <1>0, <1>b DEF Save, Goto, history
<1>13. CASE Backup
    BY <1>13, <1>0 DEF Backup, Goto, history
<1>14. CASE \/ Stop \/ SwitchCurrent \/ InstallBinLink \/ PassDoctor \/ CheckUpdate
            \/ \E b \in Bundles : Prepare(b)
            \/ \E b \in Bundles : Commit(b)
    BY <1>14, <1>0 DEF Stop, Goto, memory, history, Prepare, Commit, SwitchCurrent,
                       InstallBinLink, PassDoctor, CheckUpdate, End
<1>15. CASE AgentStep
    BY <1>15, <1>0 DEF AgentStep, Connect, Goto, history, Remove, Undetected, End,
                       AdapterInstall, PersistSelection, UndoConnect, ConnectDone,
                       Unpersist, memory
<1>16. CASE RollbackStep
    BY <1>16, <1>0 DEF RollbackStep, UndoLink, Goto, memory, history, UndoRelease,
                       End, UndoDatabase, UndoFiles, BackLink, BackFiles,
                       BackDatabase, BackRelease, RollbackStops, Lapse, Aborted,
                       ReleaseStays, FilesStop
<1>17. CASE RemovalStep
    BY <1>17, <1>0 DEF RemovalStep, Unlink, Goto, memory, history, Sweep, Finish, End
<1>18. CASE \/ Fail \/ Kill \/ Interrupt \/ StartRuntime \/ StartRefused \/ RuntimeDies
            \/ Capture \/ UNCHANGED vars
            \/ \E a \in Agents : Edit(a)
    BY <1>18, <1>0 DEF Fail, memory, Kill, machine, Interrupt, End, StartRuntime,
                       history, StartRefused, RuntimeDies, Capture, Edit, vars
<1> HIDE DEF SnapshotTypes
<1> QED
    BY <1>1, <1>2, <1>3, <1>4, <1>5, <1>6, <1>7, <1>8, <1>9, <1>10, <1>11, <1>12, <1>13,
       <1>14, <1>15, <1>16, <1>17, <1>18
    DEF Next, BeginStep, WriteStep, InstallSteps, AgentStep, RollbackStep, RemovalStep

LEMMA DiskStep ==
    ASSUME TypeOK, AskedFor, Places, [Next]_vars
    PROVE  (disk \in Disks)'
<1>0. /\ disk \in Disks /\ inner.disk \in Disks /\ outer.disk \in Disks /\ NoDisk \in Disks
      /\ op.gen \in Gens \cup {0} /\ op.sel \in Selections /\ op.enabled \in Enabling
      /\ op.ver \in Versions \cup {None} /\ NoSelection \in Selections
    BY Constants DEF TypeOK, Snapshots, Requests
<1> USE DEF Disks
<1>1. ASSUME NEW v \in Versions, RefuseUpdate(v)
      PROVE (disk \in Disks)'
    BY <1>1, <1>0 DEF RefuseUpdate, machine
<1>2. ASSUME NEW v \in Versions, NEW code \in Versions, NEW skip \in {"yes", "no"},
              BeginUpdate(v, code, skip)
      PROVE (disk \in Disks)'
    BY <1>2, <1>0 DEF BeginUpdate, Begin
<1>3. ASSUME NEW v \in Versions, NEW g \in Gens, NEW sel \in Choices, NEW skip \in {"yes", "no"},
              BeginInstall(v, g, sel, skip)
      PROVE (disk \in Disks)'
    BY <1>3, <1>0 DEF BeginInstall, Begin
<1>4. ASSUME NEW g \in Gens, NEW sel \in Choices, BeginImport(g, sel)
      PROVE (disk \in Disks)'
    BY <1>4, <1>0 DEF BeginImport, Begin
<1>5. ASSUME NEW g \in Gens, NEW sel \in Choices, NEW skip \in {"yes", "no"},
              BeginConfigure(g, sel, skip)
      PROVE (disk \in Disks)'
    BY <1>5, <1>0 DEF BeginConfigure, Begin
<1>6. ASSUME NEW a \in Agents, BeginDisconnect(a)
      PROVE (disk \in Disks)'
    BY <1>6, <1>0 DEF BeginDisconnect, Begin
<1>7. ASSUME NEW a \in Agents, NEW e \in {"enabled", "disabled"}, BeginConnect(a, e)
      PROVE (disk \in Disks)'
    BY <1>7, <1>0 DEF BeginConnect, Begin
<1>8. ASSUME NEW a \in Agents, NEW e \in {"enabled", "disabled"}, SetEnabled(a, e)
      PROVE (disk \in Disks)'
    BY <1>8, <1>0 DEF SetEnabled, Selections, Enabling
<1>9. CASE BeginRepair
    BY <1>9, <1>0 DEF BeginRepair, Begin
<1>10. ASSUME NEW purge \in SUBSET {"data", "config"}, BeginUninstall(purge)
      PROVE (disk \in Disks)'
    BY <1>10, <1>0 DEF BeginUninstall, Begin
<1>11. CASE WriteSecrets
    BY <1>11, <1>0, WriteLeads DEF WriteSecrets, memory, history
<1>12. CASE WriteConfig
    BY <1>12, <1>0, WriteLeads DEF WriteConfig, memory, history
<1>13. CASE WriteProfiles
    BY <1>13, <1>0, WriteLeads DEF WriteProfiles, memory, history
<1>14. CASE WriteLocal
    BY <1>14, <1>0, WriteLeads DEF WriteLocal, memory, history
<1>15. CASE Migrate \/ Materialize \/ PersistProbe
    BY <1>15, <1>0 DEF Migrate, memory, history, Materialize, PersistProbe
<1>16. CASE InstallSteps
    BY <1>16, <1>0 DEF InstallSteps, Stop, Goto, memory, history, Save, Prepare,
                       Commit, Backup, SwitchCurrent, InstallBinLink, PassDoctor,
                       CheckUpdate, End
<1>17. CASE PersistSelection
    BY <1>17, <1>0 DEF PersistSelection, Goto, End, history, Selections
<1>18. CASE Unpersist
    BY <1>18, <1>0 DEF Unpersist, End, memory, history, Selections, Enabling, None
<1>19. CASE \/ AdapterInstall \/ UndoConnect \/ ConnectDone
            \/ \E a \in Agents : Connect(a)
            \/ \E a \in Agents : Remove(a)
            \/ \E a \in Agents : Undetected(a)
    BY <1>19, <1>0 DEF Connect, Goto, history, Remove, Undetected, End,
                       AdapterInstall, UndoConnect, ConnectDone
<1>20. CASE UndoFiles
    BY <1>20, <1>0 DEF UndoFiles, Goto, End, memory, history
<1>21. CASE BackFiles
    BY <1>21, <1>0 DEF BackFiles, Goto, memory, history
<1>22. ASSUME NEW files \in SUBSET {"config", "profiles", "secrets", "local"},
             NEW old \in {inner.disk, outer.disk}, FilesStop(files, old)
      PROVE (disk \in Disks)'
  <2>1. old \in Disks
    BY <1>22, <1>0
  <2>2. PICK c \in {disk.config, old.config}, p \in {disk.profiles, old.profiles} :
          \E t \in {disk.secrets, old.secrets}, l \in {disk.local, old.local} :
          disk' = [disk EXCEPT !.config = c, !.profiles = p, !.secrets = t, !.local = l]
    BY <1>22 DEF FilesStop
  <2>3. PICK t \in {disk.secrets, old.secrets}, l \in {disk.local, old.local} :
          disk' = [disk EXCEPT !.config = c, !.profiles = p, !.secrets = t, !.local = l]
    BY <2>2
  <2>4. /\ c \in [gen : Gens \cup {0}, sel : Selections] /\ p \in Gens \cup {0} /\ t \in Gens \cup {0}
        /\ l \in [gen : Gens \cup {0}, release : Versions \cup {None, "current"}]
    BY <1>0, <2>1
  <2> QED
    BY <1>0, <2>3, <2>4
<1>23. CASE \/ UndoLink \/ UndoRelease \/ UndoDatabase \/ BackLink \/ BackDatabase \/ BackRelease
            \/ RollbackStops \/ ReleaseStays
    BY <1>23, <1>0 DEF UndoLink, Goto, memory, history, UndoRelease, End,
                       UndoDatabase, BackLink, BackDatabase, BackRelease,
                       RollbackStops, Lapse, Aborted, ReleaseStays
<1>24. CASE Finish
    BY <1>24, <1>0 DEF Finish, End, memory
<1>25. CASE \/ Unlink
            \/ \E v \in Versions : Sweep(v)
    BY <1>25, <1>0 DEF Unlink, Goto, memory, history, Sweep
<1>26. CASE \/ Fail \/ Kill \/ Interrupt \/ StartRuntime \/ StartRefused \/ RuntimeDies
            \/ Capture \/ UNCHANGED vars
            \/ \E a \in Agents : Edit(a)
    BY <1>26, <1>0 DEF Fail, memory, Kill, machine, Interrupt, End, StartRuntime,
                       history, StartRefused, RuntimeDies, Capture, Edit, vars
<1> HIDE DEF Disks
<1> QED
    BY <1>1, <1>2, <1>3, <1>4, <1>5, <1>6, <1>7, <1>8, <1>9, <1>10, <1>11, <1>12, <1>13,
       <1>14, <1>15, <1>16, <1>17, <1>18, <1>19, <1>20, <1>21, <1>22, <1>23, <1>24, <1>25,
       <1>26
    DEF Next, BeginStep, WriteStep, InstallSteps, AgentStep, RollbackStep, RemovalStep

LEMMA DbStep ==
    ASSUME TypeOK, AskedFor, Places, [Next]_vars
    PROVE  (db \in Databases)'
<1>0. /\ db \in Databases /\ inner.db \in Databases /\ outer.db \in Databases /\ NoDatabase \in Databases
      /\ op.gen \in Gens \cup {0} /\ op.code \in Versions \cup {None} /\ current \in Versions \cup {None}
      /\ NoFingerprint \in Fingerprints /\ Asked \in Fingerprints /\ captured \in 0..MaxRounds
      /\ pc = "migrate" => op.code \in Versions
      /\ releases \subseteq Versions /\ None \notin Versions
    BY Constants, InstallerAssumption DEF AskedFor, Places, Installing, TypeOK,
                                          Snapshots, Requests, Asked, Fingerprints
<1> USE InstallerAssumption DEF Databases
<1>1. CASE BeginStep
    BY <1>1, <1>0, BeginLeads
<1>2. CASE Migrate
    BY <1>2, <1>0, WriteLeads DEF Migrate, memory, history
<1>3. CASE Materialize
    BY <1>3, <1>0, WriteLeads DEF Materialize, memory, history
<1>4. CASE PersistProbe
    BY <1>4, <1>0, WriteLeads DEF PersistProbe, memory, history
<1>5. CASE WriteSecrets \/ WriteConfig \/ WriteProfiles \/ WriteLocal
    BY <1>5, <1>0 DEF WriteSecrets, memory, history, WriteConfig, WriteProfiles,
                      WriteLocal
<1>6. CASE InstallSteps
    BY <1>6, <1>0 DEF InstallSteps, Stop, Goto, memory, history, Save, Prepare,
                      Commit, Backup, SwitchCurrent, InstallBinLink, PassDoctor,
                      CheckUpdate, End
<1>7. CASE AgentStep
    BY <1>7, <1>0 DEF AgentStep, Connect, Goto, history, Remove, Undetected, End,
                      AdapterInstall, PersistSelection, UndoConnect, ConnectDone,
                      Unpersist, memory
<1>8. CASE UndoDatabase
    BY <1>8, <1>0 DEF UndoDatabase, Goto, memory, history
<1>9. CASE BackDatabase
    BY <1>9, <1>0 DEF BackDatabase, Goto, End, memory
<1>10. CASE \/ UndoLink \/ UndoRelease \/ UndoFiles \/ BackLink \/ BackFiles \/ BackRelease
            \/ RollbackStops \/ ReleaseStays
            \/ \E files \in SUBSET {"config", "profiles", "secrets", "local"}, old \in {inner.disk, outer.disk} :
                FilesStop(files, old)
    BY <1>10, <1>0 DEF UndoLink, Goto, memory, history, UndoRelease, End, UndoFiles,
                       BackLink, BackFiles, BackRelease, RollbackStops, Lapse,
                       Aborted, ReleaseStays, FilesStop
<1>11. CASE Finish
    BY <1>11, <1>0 DEF Finish, End, memory
<1>12. CASE \/ Unlink
            \/ \E v \in Versions : Sweep(v)
    BY <1>12, <1>0 DEF Unlink, Goto, memory, history, Sweep
<1>13. CASE StartRuntime
    BY <1>13, <1>0 DEF StartRuntime, memory, history, Starting, Cutover, Rewritten
<1>14. CASE StartRefused
    BY <1>14, <1>0 DEF StartRefused, memory, history, Starting
<1>15. CASE RuntimeDies
    BY <1>15, <1>0 DEF RuntimeDies, memory, history
<1>16. CASE Capture
  <2>1. captured + 1 \in 1..MaxRounds /\ captured' = captured + 1
    BY <1>16, <1>0 DEF Capture
  <2>2. /\ db.rounds \cup {captured'} \in SUBSET (1..MaxRounds)
        /\ db.legacy \cup {captured'} \in SUBSET (1..MaxRounds)
        /\ db.legacy \cup {} \in SUBSET (1..MaxRounds)
    BY <1>0, <2>1
  <2> QED
    BY <1>16, <1>0, <2>2 DEF Capture
<1>17. CASE \/ Fail \/ Kill \/ Interrupt \/ UNCHANGED vars
            \/ \E a \in Agents : Edit(a)
    BY <1>17, <1>0 DEF Fail, memory, Kill, machine, Interrupt, End, Edit, history, vars
<1> HIDE DEF Databases
<1> QED
    BY <1>1, <1>2, <1>3, <1>4, <1>5, <1>6, <1>7, <1>8, <1>9, <1>10, <1>11, <1>12, <1>13,
       <1>14, <1>15, <1>16, <1>17
    DEF Next, BeginStep, WriteStep, InstallSteps, AgentStep, RollbackStep, RemovalStep

LEMMA RequestStep ==
    ASSUME TypeOK, [Next]_vars
    PROVE  (op \in Requests)'
<1>0. /\ op \in Requests /\ disk.config.gen \in Gens \cup {0} /\ disk.config.sel \in Selections
      /\ current \in Versions \cup {None} /\ Choices \subseteq Selections
      /\ \A a \in Agents : op.sel[a] \in Enabling
    BY InstallerAssumption DEF TypeOK, Disks, Requests, Selections
<1> USE DEF Requests
<1>1. ASSUME NEW v \in Versions, RefuseUpdate(v)
      PROVE (op \in Requests)'
    BY <1>1, <1>0, Constants DEF RefuseUpdate, machine
<1>2. ASSUME NEW v \in Versions, NEW code \in Versions, NEW skip \in {"yes", "no"},
              BeginUpdate(v, code, skip)
      PROVE (op \in Requests)'
    BY <1>2, <1>0, Constants DEF BeginUpdate, Begin
<1>3. ASSUME NEW v \in Versions, NEW g \in Gens, NEW sel \in Choices, NEW skip \in {"yes", "no"},
              BeginInstall(v, g, sel, skip)
      PROVE (op \in Requests)'
    BY <1>3, <1>0, Constants DEF BeginInstall, Begin
<1>4. ASSUME NEW g \in Gens, NEW sel \in Choices, BeginImport(g, sel)
      PROVE (op \in Requests)'
    BY <1>4, <1>0, Constants DEF BeginImport, Begin
<1>5. ASSUME NEW g \in Gens, NEW sel \in Choices, NEW skip \in {"yes", "no"},
              BeginConfigure(g, sel, skip)
      PROVE (op \in Requests)'
    BY <1>5, <1>0, Constants DEF BeginConfigure, Begin
<1>6. ASSUME NEW a \in Agents, BeginDisconnect(a)
      PROVE (op \in Requests)'
    BY <1>6, <1>0, Constants DEF BeginDisconnect, Begin
<1>7. ASSUME NEW a \in Agents, NEW e \in {"enabled", "disabled"}, BeginConnect(a, e)
      PROVE (op \in Requests)'
    BY <1>7, <1>0, Constants DEF BeginConnect, Begin, Enabling
<1>8. ASSUME NEW a \in Agents, NEW e \in {"enabled", "disabled"}, SetEnabled(a, e)
      PROVE (op \in Requests)'
    BY <1>8, <1>0, Constants DEF SetEnabled
<1>9. CASE BeginRepair
    BY <1>9, <1>0, Constants DEF BeginRepair, Begin
<1>10. ASSUME NEW purge \in SUBSET {"data", "config"}, BeginUninstall(purge)
      PROVE (op \in Requests)'
    BY <1>10, <1>0, Constants DEF BeginUninstall, Begin
<1>11. CASE WriteStep
    BY <1>11, <1>0, Constants DEF WriteStep, WriteSecrets, memory, history,
                                  WriteConfig, WriteProfiles, WriteLocal, Migrate,
                                  Materialize, PersistProbe
<1>12. CASE InstallSteps
    BY <1>12, <1>0, Constants DEF InstallSteps, Stop, Goto, memory, history, Save,
                                  Prepare, Commit, Backup, SwitchCurrent,
                                  InstallBinLink, PassDoctor, CheckUpdate, End
<1>13. ASSUME NEW a \in Agents, Connect(a)
      PROVE (op \in Requests)'
    BY <1>13, <1>0, Constants DEF Connect, Goto, history
<1>14. CASE \/ AdapterInstall \/ PersistSelection \/ UndoConnect \/ ConnectDone \/ Unpersist
            \/ \E a \in Agents : Remove(a)
            \/ \E a \in Agents : Undetected(a)
    BY <1>14, <1>0, Constants DEF Remove, Goto, history, Undetected, End,
                                  AdapterInstall, PersistSelection, UndoConnect,
                                  ConnectDone, Unpersist, memory
<1>15. CASE RollbackStep
    BY <1>15, <1>0, Constants DEF RollbackStep, UndoLink, Goto, memory, history,
                                  UndoRelease, End, UndoDatabase, UndoFiles,
                                  BackLink, BackFiles, BackDatabase, BackRelease,
                                  RollbackStops, Lapse, Aborted, ReleaseStays,
                                  FilesStop
<1>16. CASE RemovalStep
    BY <1>16, <1>0, Constants DEF RemovalStep, Unlink, Goto, memory, history, Sweep,
                                  Finish, End
<1>17. CASE \/ Fail \/ Kill \/ Interrupt \/ StartRuntime \/ StartRefused \/ RuntimeDies
            \/ Capture \/ UNCHANGED vars
            \/ \E a \in Agents : Edit(a)
    BY <1>17, <1>0, Constants DEF Fail, memory, Kill, machine, Interrupt, End,
                                  StartRuntime, history, StartRefused, RuntimeDies,
                                  Capture, Edit, vars
<1> HIDE DEF Requests
<1> QED
    BY <1>1, <1>2, <1>3, <1>4, <1>5, <1>6, <1>7, <1>8, <1>9, <1>10, <1>11, <1>12, <1>13,
       <1>14, <1>15, <1>16, <1>17
    DEF Next, BeginStep, WriteStep, InstallSteps, AgentStep, RollbackStep, RemovalStep

LEMMA AgentStepTypes ==
    ASSUME TypeOK, AskedFor, [Next]_vars
    PROVE  AgentTypes'
<1>0. AgentTypes /\ Lost \in [Agents -> {"user", "own", "lost"}]
    BY DEF TypeOK, AgentTypes, Lost
<1> USE DEF AgentTypes
<1>1. ASSUME NEW v \in Versions, RefuseUpdate(v)
      PROVE AgentTypes'
    BY <1>1, <1>0 DEF RefuseUpdate, machine
<1>2. ASSUME NEW v \in Versions, NEW code \in Versions, NEW skip \in {"yes", "no"},
              BeginUpdate(v, code, skip)
      PROVE AgentTypes'
    BY <1>2, <1>0 DEF BeginUpdate, Begin
<1>3. ASSUME NEW v \in Versions, NEW g \in Gens, NEW sel \in Choices, NEW skip \in {"yes", "no"},
              BeginInstall(v, g, sel, skip)
      PROVE AgentTypes'
    BY <1>3, <1>0 DEF BeginInstall, Begin
<1>4. ASSUME NEW g \in Gens, NEW sel \in Choices, BeginImport(g, sel)
      PROVE AgentTypes'
    BY <1>4, <1>0 DEF BeginImport, Begin
<1>5. ASSUME NEW g \in Gens, NEW sel \in Choices, NEW skip \in {"yes", "no"},
              BeginConfigure(g, sel, skip)
      PROVE AgentTypes'
    BY <1>5, <1>0 DEF BeginConfigure, Begin
<1>6. ASSUME NEW a \in Agents, BeginDisconnect(a)
      PROVE AgentTypes'
    BY <1>6, <1>0 DEF BeginDisconnect, Begin
<1>7. ASSUME NEW a \in Agents, NEW e \in {"enabled", "disabled"}, BeginConnect(a, e)
      PROVE AgentTypes'
    BY <1>7, <1>0 DEF BeginConnect, Begin
<1>8. ASSUME NEW a \in Agents, NEW e \in {"enabled", "disabled"}, SetEnabled(a, e)
      PROVE AgentTypes'
  <2>1. agent[a] \in Agent /\ e \in Enabling
    BY <1>0 DEF Enabling
  <2>2. [agent[a] EXCEPT !.settings = e] \in Agent
    BY <2>1 DEF Agent
  <2> QED
    BY <1>8, <1>0, <2>2 DEF SetEnabled
<1>9. CASE BeginRepair
    BY <1>9, <1>0 DEF BeginRepair, Begin
<1>10. ASSUME NEW purge \in SUBSET {"data", "config"}, BeginUninstall(purge)
      PROVE AgentTypes'
    BY <1>10, <1>0 DEF BeginUninstall, Begin
<1>11. CASE WriteStep
    BY <1>11, <1>0 DEF WriteStep, WriteSecrets, memory, history, WriteConfig,
                       WriteProfiles, WriteLocal, Migrate, Materialize, PersistProbe
<1>12. CASE PassDoctor
    BY <1>12, <1>0 DEF PassDoctor, Goto, history
<1>13. CASE \/ Stop \/ Save \/ Backup \/ SwitchCurrent \/ InstallBinLink \/ CheckUpdate
            \/ \E b \in Bundles : Prepare(b)
            \/ \E b \in Bundles : Commit(b)
    BY <1>13, <1>0 DEF Stop, Goto, memory, history, Save, Prepare, Commit, Backup,
                       SwitchCurrent, InstallBinLink, CheckUpdate, End
<1>14. ASSUME NEW a \in Agents, Connect(a)
      PROVE AgentTypes'
    BY <1>14, <1>0 DEF Connect, Goto, history
<1>15. ASSUME NEW a \in Agents, Remove(a)
      PROVE AgentTypes'
  <2>1. Uninstalled(agent[a].kind, agent[a]) \in Agent
    BY <1>0, UninstalledTypes
  <2> QED
    BY <1>15, <1>0, <2>1 DEF Remove, Goto, history, Kind
<1>16. ASSUME NEW a \in Agents, Undetected(a)
      PROVE AgentTypes'
    BY <1>16, <1>0 DEF Undetected, End, history
<1>17. CASE AdapterInstall
    BY <1>17, <1>0, AdapterLeads DEF AdapterInstall, Goto
<1>18. CASE PersistSelection
    BY <1>18, <1>0 DEF PersistSelection, Goto, End, history
<1>19. CASE UndoConnect
  <2>1. op.agent \in Agents
    BY <1>19 DEF UndoConnect, AskedFor
  <2>2. Uninstalled(agent[op.agent].kind, agent[op.agent]) \in Agent
    BY <1>0, <2>1, UninstalledTypes
  <2> QED
    BY <1>19, <1>0, <2>2 DEF UndoConnect, End, history, Kind
<1>20. CASE ConnectDone \/ Unpersist
    BY <1>20, <1>0 DEF ConnectDone, Goto, End, history, Unpersist, memory
<1>21. CASE RollbackStep
    BY <1>21, <1>0 DEF RollbackStep, UndoLink, Goto, memory, history, UndoRelease,
                       End, UndoDatabase, UndoFiles, BackLink, BackFiles,
                       BackDatabase, BackRelease, RollbackStops, Lapse, Aborted,
                       ReleaseStays, FilesStop
<1>22. CASE Finish
  <2>1. \A a \in Agents : [agent[a] EXCEPT !.settings = None, !.record = NoRecord] \in Agent
    BY <1>0 DEF Agent, Enabling, None
  <2> QED
    BY <1>22, <1>0, <2>1 DEF Finish, End, memory
<1>23. CASE \/ Unlink
            \/ \E v \in Versions : Sweep(v)
    BY <1>23, <1>0 DEF Unlink, Goto, memory, history, Sweep
<1>24. CASE Fail
    BY <1>24, <1>0, FailLeads DEF Fail, memory
<1>25. CASE Kill
    BY <1>25, <1>0 DEF Kill, machine, memory
<1>26. CASE Interrupt
    BY <1>26, <1>0 DEF Interrupt, End, memory
<1>27. ASSUME NEW a \in Agents, Edit(a)
      PROVE AgentTypes'
  <2>1. [agent[a] EXCEPT !.file = "edited"] \in Agent
    BY <1>0 DEF Agent, Contents
  <2> QED
    BY <1>27, <1>0, <2>1 DEF Edit, memory
<1>28. CASE StartRuntime \/ StartRefused \/ RuntimeDies \/ Capture \/ UNCHANGED vars
    BY <1>28, <1>0 DEF StartRuntime, memory, history, StartRefused, RuntimeDies,
                       Capture, machine, vars
<1> HIDE DEF AgentTypes
<1> QED
    BY <1>1, <1>2, <1>3, <1>4, <1>5, <1>6, <1>7, <1>8, <1>9, <1>10, <1>11, <1>12, <1>13,
       <1>14, <1>15, <1>16, <1>17, <1>18, <1>19, <1>20, <1>21, <1>22, <1>23, <1>24, <1>25,
       <1>26, <1>27, <1>28
    DEF Next, BeginStep, WriteStep, InstallSteps, AgentStep, RollbackStep, RemovalStep

\* Every step keeps the types.
LEMMA TypeStep ==
    ASSUME TypeOK, AskedFor, Places, [Next]_vars
    PROVE  TypeOK'
<1>1. /\ MachineTypes' /\ AgentTypes' /\ SnapshotTypes' /\ FlagTypes' /\ PastTypes' /\ CountTypes'
      /\ (disk \in Disks)' /\ (db \in Databases)' /\ (op \in Requests)'
    BY MachineStep, AgentStepTypes, SnapshotStep, FlagStep, PastStep, CountStep, DiskStep, DbStep, RequestStep
<1> QED
    BY <1>1 DEF TypeOK, MachineTypes, AgentTypes, SnapshotTypes, FlagTypes,
                PastTypes, CountTypes, Labels, Outcomes

-----------------------------------------------------------------------------
(* Steps and requests                                                       *)

\* Every step leads where its operation may be.
LEMMA PlacesStep ==
    ASSUME TypeOK, AskedFor, Places, [Next]_vars
    PROVE  Places'
<1> USE DEF Places, Installing, Saving, CommittedSteps, WriteSteps, AdapterSteps,
            FirstSteps, ConnectSteps, UndoSteps, BackSteps
<1>1. ASSUME NEW v \in Versions, RefuseUpdate(v)
      PROVE Places'
    BY <1>1 DEF RefuseUpdate, machine, NoOp
<1>2. ASSUME NEW v \in Versions, NEW code \in Versions, NEW skip \in {"yes", "no"},
              BeginUpdate(v, code, skip)
      PROVE Places'
    BY <1>2 DEF BeginUpdate, Begin, NoOp
<1>3. ASSUME NEW v \in Versions, NEW g \in Gens, NEW sel \in Choices, NEW skip \in {"yes", "no"},
              BeginInstall(v, g, sel, skip)
      PROVE Places'
    BY <1>3 DEF BeginInstall, Begin, NoOp
<1>4. ASSUME NEW g \in Gens, NEW sel \in Choices, BeginImport(g, sel)
      PROVE Places'
    BY <1>4 DEF BeginImport, Begin, NoOp
<1>5. ASSUME NEW g \in Gens, NEW sel \in Choices, NEW skip \in {"yes", "no"},
              BeginConfigure(g, sel, skip)
      PROVE Places'
    BY <1>5 DEF BeginConfigure, Begin, NoOp
<1>6. ASSUME NEW a \in Agents, BeginDisconnect(a)
      PROVE Places'
    BY <1>6 DEF BeginDisconnect, Begin, NoOp
<1>7. ASSUME NEW a \in Agents, NEW e \in {"enabled", "disabled"}, BeginConnect(a, e)
      PROVE Places'
    BY <1>7 DEF BeginConnect, Begin, NoOp
<1>8. ASSUME NEW a \in Agents, NEW e \in {"enabled", "disabled"}, SetEnabled(a, e)
      PROVE Places'
    BY <1>8 DEF SetEnabled, NoOp
<1>9. CASE BeginRepair
    BY <1>9 DEF BeginRepair, Begin, NoOp
<1>10. ASSUME NEW purge \in SUBSET {"data", "config"}, BeginUninstall(purge)
      PROVE Places'
    BY <1>10 DEF BeginUninstall, Begin, NoOp
<1>11. CASE WriteSecrets
    BY <1>11, WriteLeads DEF WriteSecrets, memory, history, End
<1>12. CASE WriteConfig
    BY <1>12, WriteLeads DEF WriteConfig, memory, history, End
<1>13. CASE WriteProfiles
    BY <1>13, WriteLeads DEF WriteProfiles, memory, history, End
<1>14. CASE WriteLocal
    BY <1>14, WriteLeads DEF WriteLocal, memory, history, End
<1>15. CASE Migrate
    BY <1>15, WriteLeads DEF Migrate, memory, history, End
<1>16. CASE Materialize
    BY <1>16, WriteLeads DEF Materialize, memory, history, End
<1>17. CASE PersistProbe
    BY <1>17, WriteLeads DEF PersistProbe, memory, history, End
<1>18. CASE Stop
    BY <1>18 DEF Stop, Goto, memory, history
<1>19. CASE Save
    BY <1>19 DEF Save, Goto, history
<1>20. ASSUME NEW b \in Bundles, Prepare(b)
      PROVE Places'
    BY <1>20 DEF Prepare, Goto, memory, history
<1>21. ASSUME NEW b \in Bundles, Commit(b)
      PROVE Places'
    BY <1>21 DEF Commit, Goto, memory, history
<1>22. CASE Backup
    BY <1>22 DEF Backup, Goto, history
<1>23. CASE SwitchCurrent
    BY <1>23 DEF SwitchCurrent, Goto, history
<1>24. CASE InstallBinLink
    BY <1>24 DEF InstallBinLink, Goto, memory, history
<1>25. CASE PassDoctor
    BY <1>25 DEF PassDoctor, Goto, history
<1>26. CASE CheckUpdate
    BY <1>26 DEF CheckUpdate, End, memory, history
<1>27. ASSUME NEW a \in Agents, Connect(a)
      PROVE Places'
    BY <1>27 DEF Connect, Goto, history
<1>28. ASSUME NEW a \in Agents, Remove(a)
      PROVE Places'
    BY <1>28 DEF Remove, Goto, history
<1>29. ASSUME NEW a \in Agents, Undetected(a)
      PROVE Places'
    BY <1>29 DEF Undetected, End, history
<1>30. CASE AdapterInstall
    BY <1>30, AdapterLeads DEF AdapterInstall, Goto
<1>31. CASE PersistSelection
    BY <1>31 DEF PersistSelection, Goto, End, history
<1>32. CASE UndoConnect
    BY <1>32 DEF UndoConnect, End, history
<1>33. CASE ConnectDone
    BY <1>33 DEF ConnectDone, Goto, End, history
<1>34. CASE Unpersist
    BY <1>34 DEF Unpersist, End, memory, history
<1>35. CASE UndoLink
    BY <1>35 DEF UndoLink, Goto, memory, history
<1>36. CASE UndoRelease
    BY <1>36 DEF UndoRelease, Goto, End, memory, history
<1>37. CASE UndoDatabase
    BY <1>37 DEF UndoDatabase, Goto, memory, history
<1>38. CASE UndoFiles
    BY <1>38 DEF UndoFiles, Goto, End, memory, history
<1>39. CASE BackLink
    BY <1>39 DEF BackLink, Goto, memory, history
<1>40. CASE BackFiles
    BY <1>40 DEF BackFiles, Goto, memory, history
<1>41. CASE BackDatabase
    BY <1>41 DEF BackDatabase, Goto, End, memory
<1>42. CASE BackRelease
    BY <1>42 DEF BackRelease, End, memory, history
<1>43. CASE RollbackStops
    BY <1>43 DEF RollbackStops, Lapse, Aborted, Goto, End, memory
<1>44. CASE ReleaseStays
    BY <1>44 DEF ReleaseStays, Lapse, Goto, End, memory
<1>45. ASSUME NEW files \in SUBSET {"config", "profiles", "secrets", "local"},
             NEW old \in {inner.disk, outer.disk}, FilesStop(files, old)
      PROVE Places'
    BY <1>45 DEF FilesStop, Lapse, Aborted, Goto, End, memory
<1>46. CASE Unlink
    BY <1>46 DEF Unlink, Goto, memory, history, AskedFor
<1>47. ASSUME NEW v \in Versions, Sweep(v)
      PROVE Places'
    BY <1>47 DEF Sweep, Goto, memory, history
<1>48. CASE Finish
    BY <1>48 DEF Finish, End, memory
<1>49. CASE Fail
    BY <1>49, FailLeads DEF Fail, memory, End, Steps
<1>50. CASE Kill
    BY <1>50 DEF Kill, machine, memory
<1>51. CASE Interrupt
    BY <1>51 DEF Interrupt, End, memory, Steps
<1>52. CASE \/ StartRuntime \/ StartRefused \/ RuntimeDies \/ Capture \/ UNCHANGED vars
            \/ \E a \in Agents : Edit(a)
    BY <1>52 DEF StartRuntime, memory, history, StartRefused, RuntimeDies, Capture,
                 Edit, machine, vars
<1> HIDE DEF Places, Installing, Saving, CommittedSteps, WriteSteps, AdapterSteps,
             FirstSteps, ConnectSteps, UndoSteps, BackSteps
<1> QED
    BY <1>1, <1>2, <1>3, <1>4, <1>5, <1>6, <1>7, <1>8, <1>9, <1>10, <1>11, <1>12, <1>13,
       <1>14, <1>15, <1>16, <1>17, <1>18, <1>19, <1>20, <1>21, <1>22, <1>23, <1>24, <1>25,
       <1>26, <1>27, <1>28, <1>29, <1>30, <1>31, <1>32, <1>33, <1>34, <1>35, <1>36, <1>37,
       <1>38, <1>39, <1>40, <1>41, <1>42, <1>43, <1>44, <1>45, <1>46, <1>47, <1>48, <1>49,
       <1>50, <1>51, <1>52
    DEF Next, BeginStep, WriteStep, InstallSteps, AgentStep, RollbackStep, RemovalStep

\* What was asked for stays asked for.
LEMMA AskedForStep ==
    ASSUME TypeOK, AskedFor, Places, [Next]_vars
    PROVE  AskedFor'
<1>0. /\ None \notin Versions /\ None \notin {"adapter", "persist", "disconnect"}
      /\ current \in Versions \cup {None} /\ disk.config.gen \in Gens \cup {0} /\ 0 \notin Gens
      /\ op \in Requests /\ op.agent \in Agents \cup {None} /\ todo \subseteq Agents
      /\ pc \in {"persist", "disconnect"} => op.kind # "disconnect"
      /\ pc = "unpersist" => op.kind = "disconnect"
    BY InstallerAssumption DEF TypeOK, Disks, Requests, Places, None
<1> USE DEF AskedFor, Installing
<1>1. ASSUME NEW v \in Versions, RefuseUpdate(v)
      PROVE AskedFor'
    BY <1>1, <1>0 DEF RefuseUpdate, machine, NoOp
<1>2. ASSUME NEW v \in Versions, NEW code \in Versions, NEW skip \in {"yes", "no"},
              BeginUpdate(v, code, skip)
      PROVE AskedFor'
    BY <1>2, <1>0 DEF BeginUpdate, Begin, Installed, NoOp
<1>3. ASSUME NEW v \in Versions, NEW g \in Gens, NEW sel \in Choices, NEW skip \in {"yes", "no"},
              BeginInstall(v, g, sel, skip)
      PROVE AskedFor'
    BY <1>3, <1>0 DEF BeginInstall, Begin, NoOp
<1>4. ASSUME NEW g \in Gens, NEW sel \in Choices, BeginImport(g, sel)
      PROVE AskedFor'
    BY <1>4, <1>0 DEF BeginImport, Begin, NoOp
<1>5. ASSUME NEW g \in Gens, NEW sel \in Choices, NEW skip \in {"yes", "no"},
              BeginConfigure(g, sel, skip)
      PROVE AskedFor'
    BY <1>5, <1>0 DEF BeginConfigure, Begin, NoOp
<1>6. ASSUME NEW a \in Agents, BeginDisconnect(a)
      PROVE AskedFor'
    BY <1>6, <1>0 DEF BeginDisconnect, Begin, NoOp
<1>7. ASSUME NEW a \in Agents, NEW e \in {"enabled", "disabled"}, BeginConnect(a, e)
      PROVE AskedFor'
    BY <1>7, <1>0 DEF BeginConnect, Begin, NoOp
<1>8. ASSUME NEW a \in Agents, NEW e \in {"enabled", "disabled"}, SetEnabled(a, e)
      PROVE AskedFor'
    BY <1>8, <1>0 DEF SetEnabled, NoOp
<1>9. CASE BeginRepair
    BY <1>9, <1>0 DEF BeginRepair, Begin, NoOp
<1>10. ASSUME NEW purge \in SUBSET {"data", "config"}, BeginUninstall(purge)
      PROVE AskedFor'
    BY <1>10, <1>0 DEF BeginUninstall, Begin, NoOp
<1>11. CASE WriteSecrets
    BY <1>11, <1>0, WriteLeads DEF WriteSecrets, memory, history, End
<1>12. CASE WriteConfig
    BY <1>12, <1>0, WriteLeads DEF WriteConfig, memory, history, End
<1>13. CASE WriteProfiles
    BY <1>13, <1>0, WriteLeads DEF WriteProfiles, memory, history, End
<1>14. CASE WriteLocal
    BY <1>14, <1>0, WriteLeads DEF WriteLocal, memory, history, End
<1>15. CASE Migrate
    BY <1>15, <1>0, WriteLeads DEF Migrate, memory, history, End
<1>16. CASE Materialize
    BY <1>16, <1>0, WriteLeads DEF Materialize, memory, history, End
<1>17. CASE PersistProbe
    BY <1>17, <1>0, WriteLeads DEF PersistProbe, memory, history, End
<1>18. CASE Stop
    BY <1>18, <1>0 DEF Stop, Goto, memory, history
<1>19. CASE Save
    BY <1>19, <1>0 DEF Save, Goto, history
<1>20. ASSUME NEW b \in Bundles, Prepare(b)
      PROVE AskedFor'
    BY <1>20, <1>0 DEF Prepare, Goto, memory, history
<1>21. ASSUME NEW b \in Bundles, Commit(b)
      PROVE AskedFor'
    BY <1>21, <1>0 DEF Commit, Goto, memory, history
<1>22. CASE Backup
    BY <1>22, <1>0 DEF Backup, Goto, history
<1>23. CASE SwitchCurrent
    BY <1>23, <1>0 DEF SwitchCurrent, Goto, history
<1>24. CASE InstallBinLink
    BY <1>24, <1>0 DEF InstallBinLink, Goto, memory, history
<1>25. CASE PassDoctor
    BY <1>25, <1>0 DEF PassDoctor, Goto, history
<1>26. CASE CheckUpdate
    BY <1>26, <1>0 DEF CheckUpdate, End, memory, history
<1>27. ASSUME NEW a \in Agents, Connect(a)
      PROVE AskedFor'
    BY <1>27, <1>0 DEF Connect, Goto, history, Requests
<1>28. ASSUME NEW a \in Agents, Remove(a)
      PROVE AskedFor'
    BY <1>28, <1>0 DEF Remove, Goto, history
<1>29. ASSUME NEW a \in Agents, Undetected(a)
      PROVE AskedFor'
    BY <1>29, <1>0 DEF Undetected, End, history
<1>30. CASE AdapterInstall
    BY <1>30, <1>0, AdapterLeads DEF AdapterInstall, Goto
<1>31. CASE PersistSelection
    BY <1>31, <1>0 DEF PersistSelection, Goto, End, history
<1>32. CASE UndoConnect
    BY <1>32, <1>0 DEF UndoConnect, End, history
<1>33. CASE ConnectDone
    BY <1>33, <1>0 DEF ConnectDone, Goto, End, history
<1>34. CASE Unpersist
    BY <1>34, <1>0 DEF Unpersist, End, memory, history
<1>35. CASE UndoLink
    BY <1>35, <1>0 DEF UndoLink, Goto, memory, history
<1>36. CASE UndoRelease
    BY <1>36, <1>0 DEF UndoRelease, Goto, End, memory, history
<1>37. CASE UndoDatabase
    BY <1>37, <1>0 DEF UndoDatabase, Goto, memory, history
<1>38. CASE UndoFiles
    BY <1>38, <1>0 DEF UndoFiles, Goto, End, memory, history
<1>39. CASE BackLink
    BY <1>39, <1>0 DEF BackLink, Goto, memory, history
<1>40. CASE BackFiles
    BY <1>40, <1>0 DEF BackFiles, Goto, memory, history
<1>41. CASE BackDatabase
    BY <1>41, <1>0 DEF BackDatabase, Goto, End, memory
<1>42. CASE BackRelease
    BY <1>42, <1>0 DEF BackRelease, End, memory, history
<1>43. CASE RollbackStops
    BY <1>43, <1>0 DEF RollbackStops, Lapse, Aborted, Goto, End, memory
<1>44. CASE ReleaseStays
    BY <1>44, <1>0 DEF ReleaseStays, Lapse, Goto, End, memory
<1>45. ASSUME NEW files \in SUBSET {"config", "profiles", "secrets", "local"},
             NEW old \in {inner.disk, outer.disk}, FilesStop(files, old)
      PROVE AskedFor'
    BY <1>45, <1>0 DEF FilesStop, Lapse, Aborted, Goto, End, memory
<1>46. CASE Unlink
    BY <1>46, <1>0 DEF Unlink, Goto, memory, history
<1>47. ASSUME NEW v \in Versions, Sweep(v)
      PROVE AskedFor'
    BY <1>47, <1>0 DEF Sweep, Goto, memory, history
<1>48. CASE Finish
    BY <1>48, <1>0 DEF Finish, End, memory
<1>49. CASE Fail
    BY <1>49, <1>0, FailLeads DEF Fail, memory, End, Steps, AdapterSteps,
                                  WriteSteps, CommittedSteps
<1>50. CASE Kill
    BY <1>50, <1>0 DEF Kill, machine, memory
<1>51. CASE Interrupt
    BY <1>51, <1>0 DEF Interrupt, End, memory, Steps, AdapterSteps, WriteSteps,
                       CommittedSteps
<1>52. CASE \/ StartRuntime \/ StartRefused \/ RuntimeDies \/ Capture \/ UNCHANGED vars
            \/ \E a \in Agents : Edit(a)
    BY <1>52, <1>0 DEF StartRuntime, memory, history, StartRefused, RuntimeDies,
                       Capture, Edit, machine, vars
<1> HIDE DEF AskedFor, Installing
<1> QED
    BY <1>1, <1>2, <1>3, <1>4, <1>5, <1>6, <1>7, <1>8, <1>9, <1>10, <1>11, <1>12, <1>13,
       <1>14, <1>15, <1>16, <1>17, <1>18, <1>19, <1>20, <1>21, <1>22, <1>23, <1>24, <1>25,
       <1>26, <1>27, <1>28, <1>29, <1>30, <1>31, <1>32, <1>33, <1>34, <1>35, <1>36, <1>37,
       <1>38, <1>39, <1>40, <1>41, <1>42, <1>43, <1>44, <1>45, <1>46, <1>47, <1>48, <1>49,
       <1>50, <1>51, <1>52
    DEF Next, BeginStep, WriteStep, InstallSteps, AgentStep, RollbackStep, RemovalStep

-----------------------------------------------------------------------------
(* What an operation changes and remembers                                  *)

\* Only a rollback step fails as one, and update's handler follows install's.
LEMMA LapsesStep ==
    ASSUME TypeOK, AskedFor, Places, Linked, Restorable, [Next]_vars
    PROVE  Lapses'
<1>0. Lapses
    BY DEF Restorable
<1> USE DEF Lapses, Installing, Saving, CommittedSteps, WriteSteps, AdapterSteps,
            FirstSteps, ConnectSteps, UndoSteps, BackSteps
<1>1. ASSUME NEW v \in Versions, RefuseUpdate(v)
      PROVE Lapses'
    BY <1>1, <1>0 DEF RefuseUpdate, machine, NoOp
<1>2. ASSUME NEW v \in Versions, NEW code \in Versions, NEW skip \in {"yes", "no"},
              BeginUpdate(v, code, skip)
      PROVE Lapses'
    BY <1>2, <1>0 DEF BeginUpdate, Begin, NoOp
<1>3. ASSUME NEW v \in Versions, NEW g \in Gens, NEW sel \in Choices, NEW skip \in {"yes", "no"},
              BeginInstall(v, g, sel, skip)
      PROVE Lapses'
    BY <1>3, <1>0 DEF BeginInstall, Begin, NoOp
<1>4. ASSUME NEW g \in Gens, NEW sel \in Choices, BeginImport(g, sel)
      PROVE Lapses'
    BY <1>4, <1>0 DEF BeginImport, Begin, NoOp
<1>5. ASSUME NEW g \in Gens, NEW sel \in Choices, NEW skip \in {"yes", "no"},
              BeginConfigure(g, sel, skip)
      PROVE Lapses'
    BY <1>5, <1>0 DEF BeginConfigure, Begin, NoOp
<1>6. ASSUME NEW a \in Agents, BeginDisconnect(a)
      PROVE Lapses'
    BY <1>6, <1>0 DEF BeginDisconnect, Begin, NoOp
<1>7. ASSUME NEW a \in Agents, NEW e \in {"enabled", "disabled"}, BeginConnect(a, e)
      PROVE Lapses'
    BY <1>7, <1>0 DEF BeginConnect, Begin, NoOp
<1>8. ASSUME NEW a \in Agents, NEW e \in {"enabled", "disabled"}, SetEnabled(a, e)
      PROVE Lapses'
    BY <1>8, <1>0 DEF SetEnabled, NoOp
<1>9. CASE BeginRepair
    BY <1>9, <1>0 DEF BeginRepair, Begin, NoOp
<1>10. ASSUME NEW purge \in SUBSET {"data", "config"}, BeginUninstall(purge)
      PROVE Lapses'
    BY <1>10, <1>0 DEF BeginUninstall, Begin, NoOp
<1>11. CASE WriteSecrets
    BY <1>11, <1>0, WriteLeads DEF WriteSecrets, memory, history, End
<1>12. CASE WriteConfig
    BY <1>12, <1>0, WriteLeads DEF WriteConfig, memory, history, End
<1>13. CASE WriteProfiles
    BY <1>13, <1>0, WriteLeads DEF WriteProfiles, memory, history, End
<1>14. CASE WriteLocal
    BY <1>14, <1>0, WriteLeads DEF WriteLocal, memory, history, End
<1>15. CASE Migrate
    BY <1>15, <1>0, WriteLeads DEF Migrate, memory, history, End
<1>16. CASE Materialize
    BY <1>16, <1>0, WriteLeads DEF Materialize, memory, history, End
<1>17. CASE PersistProbe
    BY <1>17, <1>0, WriteLeads DEF PersistProbe, memory, history, End
<1>18. CASE Stop
    BY <1>18, <1>0 DEF Stop, Goto, memory, history
<1>19. CASE Save
    BY <1>19, <1>0 DEF Save, Goto, history
<1>20. ASSUME NEW b \in Bundles, Prepare(b)
      PROVE Lapses'
    BY <1>20, <1>0 DEF Prepare, Goto, memory, history
<1>21. ASSUME NEW b \in Bundles, Commit(b)
      PROVE Lapses'
    BY <1>21, <1>0 DEF Commit, Goto, memory, history
<1>22. CASE Backup
    BY <1>22, <1>0 DEF Backup, Goto, history
<1>23. CASE SwitchCurrent
    BY <1>23, <1>0 DEF SwitchCurrent, Goto, history
<1>24. CASE InstallBinLink
    BY <1>24, <1>0 DEF InstallBinLink, Goto, memory, history
<1>25. CASE PassDoctor
    BY <1>25, <1>0 DEF PassDoctor, Goto, history
<1>26. CASE CheckUpdate
    BY <1>26, <1>0 DEF CheckUpdate, End, memory, history
<1>27. ASSUME NEW a \in Agents, Connect(a)
      PROVE Lapses'
    BY <1>27, <1>0 DEF Connect, Goto, history
<1>28. ASSUME NEW a \in Agents, Remove(a)
      PROVE Lapses'
    BY <1>28, <1>0 DEF Remove, Goto, history
<1>29. ASSUME NEW a \in Agents, Undetected(a)
      PROVE Lapses'
    BY <1>29, <1>0 DEF Undetected, End, history
<1>30. CASE AdapterInstall
    BY <1>30, <1>0, AdapterLeads DEF AdapterInstall, Goto
<1>31. CASE PersistSelection
    BY <1>31, <1>0 DEF PersistSelection, Goto, End, history
<1>32. CASE UndoConnect
    BY <1>32, <1>0 DEF UndoConnect, End, history
<1>33. CASE ConnectDone
    BY <1>33, <1>0 DEF ConnectDone, Goto, End, history
<1>34. CASE Unpersist
    BY <1>34, <1>0 DEF Unpersist, End, memory, history
<1>35. CASE UndoLink
    BY <1>35, <1>0 DEF UndoLink, Goto, memory, history
<1>36. CASE UndoRelease
    BY <1>36, <1>0 DEF UndoRelease, Goto, End, memory, history
<1>37. CASE UndoDatabase
    BY <1>37, <1>0 DEF UndoDatabase, Goto, memory, history
<1>38. CASE UndoFiles
    BY <1>38, <1>0 DEF UndoFiles, Goto, End, memory, history, Places
<1>39. CASE BackLink
    BY <1>39, <1>0 DEF BackLink, Goto, memory, history, Places
<1>40. CASE BackFiles
    BY <1>40, <1>0 DEF BackFiles, Goto, memory, history
<1>41. CASE BackDatabase
    BY <1>41, <1>0 DEF BackDatabase, Goto, End, memory
<1>42. CASE BackRelease
    BY <1>42, <1>0 DEF BackRelease, End, memory, history
<1>43. CASE RollbackStops
    BY <1>43, <1>0 DEF RollbackStops, Lapse, Aborted, Goto, End, memory, Places
<1>44. CASE ReleaseStays
    BY <1>44, <1>0 DEF ReleaseStays, Lapse, Goto, End, memory, Places
<1>45. ASSUME NEW files \in SUBSET {"config", "profiles", "secrets", "local"},
             NEW old \in {inner.disk, outer.disk}, FilesStop(files, old)
      PROVE Lapses'
    BY <1>45, <1>0 DEF FilesStop, Lapse, Aborted, Goto, End, memory, Places
<1>46. CASE Unlink
    BY <1>46, <1>0 DEF Unlink, Goto, memory, history
<1>47. ASSUME NEW v \in Versions, Sweep(v)
      PROVE Lapses'
    BY <1>47, <1>0 DEF Sweep, Goto, memory, history
<1>48. CASE Finish
    BY <1>48, <1>0 DEF Finish, End, memory
<1>49. CASE Fail
    BY <1>49, <1>0, FailLeads DEF Fail, memory, End, Steps
<1>50. CASE Kill
    BY <1>50, <1>0 DEF Kill, machine, memory
<1>51. CASE Interrupt
    BY <1>51, <1>0 DEF Interrupt, End, memory, Steps
<1>52. CASE \/ StartRuntime \/ StartRefused \/ RuntimeDies \/ Capture \/ UNCHANGED vars
            \/ \E a \in Agents : Edit(a)
    BY <1>52, <1>0 DEF StartRuntime, memory, history, StartRefused, RuntimeDies,
                       Capture, Edit, machine, vars
<1> HIDE DEF Lapses, Installing, Saving, CommittedSteps, WriteSteps, AdapterSteps,
             FirstSteps, ConnectSteps, UndoSteps, BackSteps
<1> QED
    BY <1>1, <1>2, <1>3, <1>4, <1>5, <1>6, <1>7, <1>8, <1>9, <1>10, <1>11, <1>12, <1>13,
       <1>14, <1>15, <1>16, <1>17, <1>18, <1>19, <1>20, <1>21, <1>22, <1>23, <1>24, <1>25,
       <1>26, <1>27, <1>28, <1>29, <1>30, <1>31, <1>32, <1>33, <1>34, <1>35, <1>36, <1>37,
       <1>38, <1>39, <1>40, <1>41, <1>42, <1>43, <1>44, <1>45, <1>46, <1>47, <1>48, <1>49,
       <1>50, <1>51, <1>52
    DEF Next, BeginStep, WriteStep, InstallSteps, AgentStep, RollbackStep, RemovalStep

\* Link and database are what the step of the operation makes them.
LEMMA ChangedStep ==
    ASSUME TypeOK, AskedFor, Places, Linked, Restorable, [Next]_vars
    PROVE  Changed'
<1>0. Changed
    BY DEF Restorable
<1>a. /\ pc = "undo_db" => IF inner = NoSnapshot THEN Same(db, before.db)
                           ELSE Same(inner.db, before.db)
      /\ pc = "undo_link" => IF switched = "yes" THEN inner.current = before.current
                             ELSE current = before.current
    BY DEF Restorable, Remembered, HeldInner, Held, UndoSteps
<1> USE DEF Changed, Installing, Saving, CommittedSteps, WriteSteps, AdapterSteps,
            FirstSteps, ConnectSteps, UndoSteps, BackSteps
<1>1. ASSUME NEW v \in Versions, RefuseUpdate(v)
      PROVE Changed'
    BY <1>1, <1>0 DEF RefuseUpdate, machine, NoOp, Now, Same
<1>2. ASSUME NEW v \in Versions, NEW code \in Versions, NEW skip \in {"yes", "no"},
              BeginUpdate(v, code, skip)
      PROVE Changed'
    BY <1>2, <1>0 DEF BeginUpdate, Begin, NoOp, Now, Same
<1>3. ASSUME NEW v \in Versions, NEW g \in Gens, NEW sel \in Choices, NEW skip \in {"yes", "no"},
              BeginInstall(v, g, sel, skip)
      PROVE Changed'
    BY <1>3, <1>0 DEF BeginInstall, Begin, NoOp, Now, Same
<1>4. ASSUME NEW g \in Gens, NEW sel \in Choices, BeginImport(g, sel)
      PROVE Changed'
    BY <1>4, <1>0 DEF BeginImport, Begin, NoOp, Now, Same
<1>5. ASSUME NEW g \in Gens, NEW sel \in Choices, NEW skip \in {"yes", "no"},
              BeginConfigure(g, sel, skip)
      PROVE Changed'
    BY <1>5, <1>0 DEF BeginConfigure, Begin, NoOp, Now, Same
<1>6. ASSUME NEW a \in Agents, BeginDisconnect(a)
      PROVE Changed'
    BY <1>6, <1>0 DEF BeginDisconnect, Begin, NoOp, Now, Same
<1>7. ASSUME NEW a \in Agents, NEW e \in {"enabled", "disabled"}, BeginConnect(a, e)
      PROVE Changed'
    BY <1>7, <1>0 DEF BeginConnect, Begin, NoOp, Now, Same
<1>8. ASSUME NEW a \in Agents, NEW e \in {"enabled", "disabled"}, SetEnabled(a, e)
      PROVE Changed'
    BY <1>8, <1>0 DEF SetEnabled, NoOp, Now, Same
<1>9. CASE BeginRepair
    BY <1>9, <1>0 DEF BeginRepair, Begin, NoOp, Now, Same
<1>10. ASSUME NEW purge \in SUBSET {"data", "config"}, BeginUninstall(purge)
      PROVE Changed'
    BY <1>10, <1>0 DEF BeginUninstall, Begin, NoOp, Now, Same
<1>11. CASE WriteSecrets
    BY <1>11, <1>0, WriteLeads DEF WriteSecrets, memory, history, End
<1>12. CASE WriteConfig
    BY <1>12, <1>0, WriteLeads DEF WriteConfig, memory, history, End
<1>13. CASE WriteProfiles
    BY <1>13, <1>0, WriteLeads DEF WriteProfiles, memory, history, End
<1>14. CASE WriteLocal
    BY <1>14, <1>0, WriteLeads DEF WriteLocal, memory, history, End
<1>15. CASE Migrate
    BY <1>15, <1>0, WriteLeads DEF Migrate, memory, history, End
<1>16. CASE Materialize
    BY <1>16, <1>0, WriteLeads DEF Materialize, memory, history, End
<1>17. CASE PersistProbe
    BY <1>17, <1>0, WriteLeads DEF PersistProbe, memory, history, End
<1>18. CASE Stop
    BY <1>18, <1>0 DEF Stop, Goto, memory, history
<1>19. CASE Save
    BY <1>19, <1>0 DEF Save, Goto, history, Places
<1>20. ASSUME NEW b \in Bundles, Prepare(b)
      PROVE Changed'
    BY <1>20, <1>0 DEF Prepare, Goto, memory, history, Places
<1>21. ASSUME NEW b \in Bundles, Commit(b)
      PROVE Changed'
    BY <1>21, <1>0 DEF Commit, Goto, memory, history, Places
<1>22. CASE Backup
    BY <1>22, <1>0 DEF Backup, Goto, history
<1>23. CASE SwitchCurrent
    BY <1>23, <1>0 DEF SwitchCurrent, Goto, history, Places
<1>24. CASE InstallBinLink
    BY <1>24, <1>0 DEF InstallBinLink, Goto, memory, history, Places
<1>25. CASE PassDoctor
    BY <1>25, <1>0 DEF PassDoctor, Goto, history, Places
<1>26. CASE CheckUpdate
    BY <1>26, <1>0 DEF CheckUpdate, End, memory, history
<1>27. ASSUME NEW a \in Agents, Connect(a)
      PROVE Changed'
    BY <1>27, <1>0 DEF Connect, Goto, history, Places
<1>28. ASSUME NEW a \in Agents, Remove(a)
      PROVE Changed'
    BY <1>28, <1>0 DEF Remove, Goto, history
<1>29. ASSUME NEW a \in Agents, Undetected(a)
      PROVE Changed'
    BY <1>29, <1>0 DEF Undetected, End, history
<1>30. CASE AdapterInstall
    BY <1>30, <1>0, AdapterLeads DEF AdapterInstall, Goto
<1>31. CASE PersistSelection
    BY <1>31, <1>0 DEF PersistSelection, Goto, End, history
<1>32. CASE UndoConnect
    BY <1>32, <1>0 DEF UndoConnect, End, history
<1>33. CASE ConnectDone
    BY <1>33, <1>0 DEF ConnectDone, Goto, End, history, Places
<1>34. CASE Unpersist
    BY <1>34, <1>0 DEF Unpersist, End, memory, history
<1>35. CASE UndoLink
    BY <1>35, <1>0, <1>a DEF UndoLink, Goto, memory, history
<1>36. CASE UndoRelease
    BY <1>36, <1>0 DEF UndoRelease, Goto, End, memory, history, Places
<1>37. CASE UndoDatabase
    BY <1>37, <1>0, <1>a DEF UndoDatabase, Goto, memory, history
<1>38. CASE UndoFiles
    BY <1>38, <1>0 DEF UndoFiles, Goto, End, memory, history, Places
<1>39. CASE BackLink
    BY <1>39, <1>0 DEF BackLink, Goto, memory, history, Places
<1>40. CASE BackFiles
    BY <1>40, <1>0 DEF BackFiles, Goto, memory, history
<1>41. CASE BackDatabase
    BY <1>41, <1>0 DEF BackDatabase, Goto, End, memory
<1>42. CASE BackRelease
    BY <1>42, <1>0 DEF BackRelease, End, memory, history
<1>43. CASE RollbackStops
    BY <1>43, <1>0 DEF RollbackStops, Lapse, Aborted, Goto, End, memory
<1>44. CASE ReleaseStays
    BY <1>44, <1>0 DEF ReleaseStays, Lapse, Goto, End, memory
<1>45. ASSUME NEW files \in SUBSET {"config", "profiles", "secrets", "local"},
             NEW old \in {inner.disk, outer.disk}, FilesStop(files, old)
      PROVE Changed'
    BY <1>45, <1>0 DEF FilesStop, Lapse, Aborted, Goto, End, memory
<1>46. CASE Unlink
    BY <1>46, <1>0 DEF Unlink, Goto, memory, history, Places
<1>47. ASSUME NEW v \in Versions, Sweep(v)
      PROVE Changed'
    BY <1>47, <1>0 DEF Sweep, Goto, memory, history
<1>48. CASE Finish
    BY <1>48, <1>0 DEF Finish, End, memory
<1>49. CASE Fail
    BY <1>49, <1>0, FailLeads DEF Fail, memory, End, Steps
<1>50. CASE Kill
    BY <1>50, <1>0 DEF Kill, machine, memory
<1>51. CASE Interrupt
    BY <1>51, <1>0 DEF Interrupt, End, memory, Steps
<1>52. CASE StartRuntime
    BY <1>52, <1>0 DEF StartRuntime, memory, history, Same, Cutover, Rewritten
<1>53. CASE StartRefused
    BY <1>53, <1>0 DEF StartRefused, memory, history, Same
<1>54. CASE RuntimeDies
    BY <1>54, <1>0 DEF RuntimeDies, memory, history, Same
<1>55. CASE Capture
    BY <1>55, <1>0 DEF Capture, memory, Same
<1>56. CASE \/ UNCHANGED vars
            \/ \E a \in Agents : Edit(a)
    BY <1>56, <1>0 DEF Edit, memory, machine, history, vars
<1> HIDE DEF Changed, Installing, Saving, CommittedSteps, WriteSteps, AdapterSteps,
             FirstSteps, ConnectSteps, UndoSteps, BackSteps
<1> QED
    BY <1>1, <1>2, <1>3, <1>4, <1>5, <1>6, <1>7, <1>8, <1>9, <1>10, <1>11, <1>12, <1>13,
       <1>14, <1>15, <1>16, <1>17, <1>18, <1>19, <1>20, <1>21, <1>22, <1>23, <1>24, <1>25,
       <1>26, <1>27, <1>28, <1>29, <1>30, <1>31, <1>32, <1>33, <1>34, <1>35, <1>36, <1>37,
       <1>38, <1>39, <1>40, <1>41, <1>42, <1>43, <1>44, <1>45, <1>46, <1>47, <1>48, <1>49,
       <1>50, <1>51, <1>52, <1>53, <1>54, <1>55, <1>56
    DEF Next, BeginStep, WriteStep, InstallSteps, AgentStep, RollbackStep, RemovalStep

\* The releases are those there were and, once committed, the new one.
LEMMA ReleasesStep ==
    ASSUME TypeOK, AskedFor, Places, Linked, Restorable, [Next]_vars
    PROVE  Releases'
<1>0. /\ Releases /\ GoingBack
      /\ pc \in {"prepare", "commit", "check", "undo_files"} => returned = IF pc = "check" THEN "yes" ELSE "no"
    BY DEF Restorable, GoingBack, BackSteps
<1>00. /\ pc \in {"prepare", "commit", "backup", "switch", "doctor"} \cup UndoSteps => Installing
       /\ pc \in {"connect", "adapter"} => op.kind \in {"install", "update", "repair", "connect"}
       /\ pc = "save" => Saving
    BY DEF Places
<1> USE DEF Releases, Kept, LinkLost, ReleaseKept, Installing, Saving,
            CommittedSteps, WriteSteps, AdapterSteps, FirstSteps, ConnectSteps,
            UndoSteps, BackSteps
<1>1. ASSUME NEW v \in Versions, RefuseUpdate(v)
      PROVE Releases'
    BY <1>1, <1>0, <1>00 DEF RefuseUpdate, machine, NoOp, Now
<1>2. ASSUME NEW v \in Versions, NEW code \in Versions, NEW skip \in {"yes", "no"},
              BeginUpdate(v, code, skip)
      PROVE Releases'
    BY <1>2, <1>0, <1>00 DEF BeginUpdate, Begin, NoOp, Now
<1>3. ASSUME NEW v \in Versions, NEW g \in Gens, NEW sel \in Choices, NEW skip \in {"yes", "no"},
              BeginInstall(v, g, sel, skip)
      PROVE Releases'
    BY <1>3, <1>0, <1>00 DEF BeginInstall, Begin, NoOp, Now
<1>4. ASSUME NEW g \in Gens, NEW sel \in Choices, BeginImport(g, sel)
      PROVE Releases'
    BY <1>4, <1>0, <1>00 DEF BeginImport, Begin, NoOp, Now
<1>5. ASSUME NEW g \in Gens, NEW sel \in Choices, NEW skip \in {"yes", "no"},
              BeginConfigure(g, sel, skip)
      PROVE Releases'
    BY <1>5, <1>0, <1>00 DEF BeginConfigure, Begin, NoOp, Now
<1>6. ASSUME NEW a \in Agents, BeginDisconnect(a)
      PROVE Releases'
    BY <1>6, <1>0, <1>00 DEF BeginDisconnect, Begin, NoOp, Now
<1>7. ASSUME NEW a \in Agents, NEW e \in {"enabled", "disabled"}, BeginConnect(a, e)
      PROVE Releases'
    BY <1>7, <1>0, <1>00 DEF BeginConnect, Begin, NoOp, Now
<1>8. ASSUME NEW a \in Agents, NEW e \in {"enabled", "disabled"}, SetEnabled(a, e)
      PROVE Releases'
    BY <1>8, <1>0, <1>00 DEF SetEnabled, NoOp, Now
<1>9. CASE BeginRepair
    BY <1>9, <1>0, <1>00 DEF BeginRepair, Begin, NoOp, Now
<1>10. ASSUME NEW purge \in SUBSET {"data", "config"}, BeginUninstall(purge)
      PROVE Releases'
    BY <1>10, <1>0, <1>00 DEF BeginUninstall, Begin, NoOp, Now
<1>11. CASE WriteSecrets
    BY <1>11, <1>0, <1>00, WriteLeads DEF WriteSecrets, memory, history, End
<1>12. CASE WriteConfig
    BY <1>12, <1>0, <1>00, WriteLeads DEF WriteConfig, memory, history, End
<1>13. CASE WriteProfiles
    BY <1>13, <1>0, <1>00, WriteLeads DEF WriteProfiles, memory, history, End
<1>14. CASE WriteLocal
    BY <1>14, <1>0, <1>00, WriteLeads DEF WriteLocal, memory, history, End
<1>15. CASE Migrate
    BY <1>15, <1>0, <1>00, WriteLeads DEF Migrate, memory, history, End
<1>16. CASE Materialize
    BY <1>16, <1>0, <1>00, WriteLeads DEF Materialize, memory, history, End
<1>17. CASE PersistProbe
    BY <1>17, <1>0, <1>00, WriteLeads DEF PersistProbe, memory, history, End
<1>18. CASE Stop
    BY <1>18, <1>0, <1>00 DEF Stop, Goto, memory, history
<1>19. CASE Save
    BY <1>19, <1>0, <1>00 DEF Save, Goto, history
<1>20. ASSUME NEW b \in Bundles, Prepare(b)
      PROVE Releases'
    BY <1>20, <1>0, <1>00 DEF Prepare, Goto, memory, history
<1>21. ASSUME NEW b \in Bundles, Commit(b)
      PROVE Releases'
    BY <1>21, <1>0, <1>00 DEF Commit, Goto, memory, history, Plus
<1>22. CASE Backup
    BY <1>22, <1>0, <1>00 DEF Backup, Goto, history
<1>23. CASE SwitchCurrent
    BY <1>23, <1>0, <1>00 DEF SwitchCurrent, Goto, history
<1>24. CASE InstallBinLink
    BY <1>24, <1>0, <1>00 DEF InstallBinLink, Goto, memory, history
<1>25. CASE PassDoctor
    BY <1>25, <1>0, <1>00 DEF PassDoctor, Goto, history
<1>26. CASE CheckUpdate
    BY <1>26, <1>0, <1>00 DEF CheckUpdate, End, memory, history
<1>27. ASSUME NEW a \in Agents, Connect(a)
      PROVE Releases'
    BY <1>27, <1>0, <1>00 DEF Connect, Goto, history
<1>28. ASSUME NEW a \in Agents, Remove(a)
      PROVE Releases'
    BY <1>28, <1>0, <1>00 DEF Remove, Goto, history
<1>29. ASSUME NEW a \in Agents, Undetected(a)
      PROVE Releases'
    BY <1>29, <1>0, <1>00 DEF Undetected, End, history
<1>30. CASE AdapterInstall
    BY <1>30, <1>0, <1>00, AdapterLeads DEF AdapterInstall, Goto
<1>31. CASE PersistSelection
    BY <1>31, <1>0, <1>00 DEF PersistSelection, Goto, End, history
<1>32. CASE UndoConnect
    BY <1>32, <1>0, <1>00 DEF UndoConnect, End, history
<1>33. CASE ConnectDone
    BY <1>33, <1>0, <1>00 DEF ConnectDone, Goto, End, history
<1>34. CASE Unpersist
    BY <1>34, <1>0, <1>00 DEF Unpersist, End, memory, history
<1>35. CASE UndoLink
    BY <1>35, <1>0, <1>00 DEF UndoLink, Goto, memory, history
<1>36. CASE UndoRelease
    BY <1>36, <1>0, <1>00 DEF UndoRelease, Goto, End, memory, history, Plus
<1>37. CASE UndoDatabase
    BY <1>37, <1>0, <1>00 DEF UndoDatabase, Goto, memory, history
<1>38. CASE UndoFiles
    BY <1>38, <1>0, <1>00 DEF UndoFiles, Goto, End, memory, history
<1>39. CASE BackLink
    BY <1>39, <1>0, <1>00 DEF BackLink, Goto, memory, history
<1>40. CASE BackFiles
    BY <1>40, <1>0, <1>00 DEF BackFiles, Goto, memory, history
<1>41. CASE BackDatabase
    BY <1>41, <1>0, <1>00 DEF BackDatabase, Goto, End, memory
<1>42. CASE BackRelease
    BY <1>42, <1>0, <1>00 DEF BackRelease, End, memory, history
<1>43. CASE RollbackStops
  <2>1. UNCHANGED <<op, before, releases, returned>> /\ lapsed' = lapsed \cup {pc}
    BY <1>43 DEF RollbackStops, Lapse, memory
  <2>2. \/ pc' = "idle"
        \/ pc' = "back_link" /\ op.kind = "update" /\ pc \in {"undo_link", "undo_db"}
    BY <1>43 DEF RollbackStops, Aborted, Goto, End
  <2>3. CASE pc' = "idle"
    BY <2>1, <2>3
  <2>4. CASE pc' = "back_link" /\ op.kind = "update" /\ pc \in {"undo_link", "undo_db"}
    <3>1. returned = "no"
      BY <1>0, <2>4 DEF GoingBack
    <3>2. CASE pc = "undo_link"
      BY <1>0, <2>1, <2>4, <3>1, <3>2
    <3>3. CASE pc = "undo_db"
      BY <1>0, <2>1, <2>4, <3>1, <3>3
    <3> QED
      BY <2>4, <3>2, <3>3
  <2> QED
    BY <2>2, <2>3, <2>4
<1>44. CASE ReleaseStays
    BY <1>44, <1>0, <1>00 DEF ReleaseStays, Lapse, Goto, End, memory
<1>45. ASSUME NEW files \in SUBSET {"config", "profiles", "secrets", "local"},
             NEW old \in {inner.disk, outer.disk}, FilesStop(files, old)
      PROVE Releases'
    BY <1>45, <1>0, <1>00 DEF FilesStop, Lapse, Aborted, Goto, End, memory
<1>46. CASE Unlink
    BY <1>46, <1>0, <1>00 DEF Unlink, Goto, memory, history
<1>47. ASSUME NEW v \in Versions, Sweep(v)
      PROVE Releases'
    BY <1>47, <1>0, <1>00 DEF Sweep, Goto, memory, history, Places
<1>48. CASE Finish
    BY <1>48, <1>0, <1>00 DEF Finish, End, memory
<1>49. CASE Fail
    BY <1>49, <1>0, <1>00, FailLeads DEF Fail, memory, End, Steps
<1>50. CASE Kill
    BY <1>50, <1>0, <1>00 DEF Kill, machine, memory
<1>51. CASE Interrupt
    BY <1>51, <1>0, <1>00 DEF Interrupt, End, memory, Steps
<1>52. CASE \/ StartRuntime \/ StartRefused \/ RuntimeDies \/ Capture \/ UNCHANGED vars
            \/ \E a \in Agents : Edit(a)
    BY <1>52, <1>0, <1>00 DEF StartRuntime, memory, history, StartRefused,
                              RuntimeDies, Capture, Edit, machine, vars
<1> HIDE DEF Releases, Kept, LinkLost, ReleaseKept, Installing, Saving, CommittedSteps,
             WriteSteps, AdapterSteps, FirstSteps, ConnectSteps, UndoSteps, BackSteps
<1> QED
    BY <1>1, <1>2, <1>3, <1>4, <1>5, <1>6, <1>7, <1>8, <1>9, <1>10, <1>11, <1>12, <1>13,
       <1>14, <1>15, <1>16, <1>17, <1>18, <1>19, <1>20, <1>21, <1>22, <1>23, <1>24, <1>25,
       <1>26, <1>27, <1>28, <1>29, <1>30, <1>31, <1>32, <1>33, <1>34, <1>35, <1>36, <1>37,
       <1>38, <1>39, <1>40, <1>41, <1>42, <1>43, <1>44, <1>45, <1>46, <1>47, <1>48, <1>49,
       <1>50, <1>51, <1>52
    DEF Next, BeginStep, WriteStep, InstallSteps, AgentStep, RollbackStep, RemovalStep

\* Both snapshots hold what was there when the operation began.
LEMMA RememberedStep ==
    ASSUME TypeOK, AskedFor, Places, Linked, Restorable, [Next]_vars
    PROVE  Remembered'
<1>0. Remembered /\ Changed
    BY DEF Restorable
<1> USE DEF Remembered, Same, Held, HeldInner, HeldOuter, Installing, Saving,
            CommittedSteps, WriteSteps, AdapterSteps, FirstSteps, ConnectSteps,
            UndoSteps, BackSteps
<1>1. ASSUME NEW v \in Versions, RefuseUpdate(v)
      PROVE Remembered'
    BY <1>1, <1>0 DEF RefuseUpdate, machine, Changed, NoOp, Now
<1>2. ASSUME NEW v \in Versions, NEW code \in Versions, NEW skip \in {"yes", "no"},
              BeginUpdate(v, code, skip)
      PROVE Remembered'
    BY <1>2, <1>0 DEF BeginUpdate, Begin, Changed, NoOp, Now
<1>3. ASSUME NEW v \in Versions, NEW g \in Gens, NEW sel \in Choices, NEW skip \in {"yes", "no"},
              BeginInstall(v, g, sel, skip)
      PROVE Remembered'
    BY <1>3, <1>0 DEF BeginInstall, Begin, Changed, NoOp, Now
<1>4. ASSUME NEW g \in Gens, NEW sel \in Choices, BeginImport(g, sel)
      PROVE Remembered'
    BY <1>4, <1>0 DEF BeginImport, Begin, Changed, NoOp, Now
<1>5. ASSUME NEW g \in Gens, NEW sel \in Choices, NEW skip \in {"yes", "no"},
              BeginConfigure(g, sel, skip)
      PROVE Remembered'
    BY <1>5, <1>0 DEF BeginConfigure, Begin, Changed, NoOp, Now
<1>6. ASSUME NEW a \in Agents, BeginDisconnect(a)
      PROVE Remembered'
    BY <1>6, <1>0 DEF BeginDisconnect, Begin, Changed, NoOp, Now
<1>7. ASSUME NEW a \in Agents, NEW e \in {"enabled", "disabled"}, BeginConnect(a, e)
      PROVE Remembered'
    BY <1>7, <1>0 DEF BeginConnect, Begin, Changed, NoOp, Now
<1>8. ASSUME NEW a \in Agents, NEW e \in {"enabled", "disabled"}, SetEnabled(a, e)
      PROVE Remembered'
    BY <1>8, <1>0 DEF SetEnabled, Changed, NoOp, Now
<1>9. CASE BeginRepair
    BY <1>9, <1>0 DEF BeginRepair, Begin, Changed, NoOp, Now
<1>10. ASSUME NEW purge \in SUBSET {"data", "config"}, BeginUninstall(purge)
      PROVE Remembered'
    BY <1>10, <1>0 DEF BeginUninstall, Begin, Changed, NoOp, Now
<1>11. CASE WriteSecrets
    BY <1>11, <1>0, WriteLeads DEF WriteSecrets, memory, history, Changed, End
<1>12. CASE WriteConfig
    BY <1>12, <1>0, WriteLeads DEF WriteConfig, memory, history, Changed, End
<1>13. CASE WriteProfiles
    BY <1>13, <1>0, WriteLeads DEF WriteProfiles, memory, history, Changed, End
<1>14. CASE WriteLocal
    BY <1>14, <1>0, WriteLeads DEF WriteLocal, memory, history, Changed, End
<1>15. CASE Migrate
    BY <1>15, <1>0, WriteLeads DEF Migrate, memory, history, Changed, End
<1>16. CASE Materialize
    BY <1>16, <1>0, WriteLeads DEF Materialize, memory, history, Changed, End
<1>17. CASE PersistProbe
    BY <1>17, <1>0, WriteLeads DEF PersistProbe, memory, history, Changed, End
<1>18. CASE Stop
    BY <1>18, <1>0 DEF Stop, Goto, memory, history, Changed
<1>19. CASE Save
  <2>1. /\ pc = "save" /\ Saving /\ pc' = IF op.kind = "update" THEN "prepare" ELSE "secrets"
        /\ UNCHANGED <<op, before, disk, db, current, inner, switched, place>>
    BY <1>19 DEF Save, Goto, Places, history
  <2>2. disk = before.disk /\ current = before.current /\ Same(db, before.db)
    BY <1>0, <2>1 DEF Changed
  <2>3. /\ outer'.disk = disk /\ outer'.current = current
        /\ place = "default" => outer'.db = db
    BY <1>19 DEF Save, Now, DefaultDatabase
  <2> QED
    BY <1>0, <2>1, <2>2, <2>3
<1>20. ASSUME NEW b \in Bundles, Prepare(b)
      PROVE Remembered'
    BY <1>20, <1>0 DEF Prepare, Goto, memory, history, Changed, Places
<1>21. ASSUME NEW b \in Bundles, Commit(b)
      PROVE Remembered'
    BY <1>21, <1>0 DEF Commit, Goto, memory, history, Changed, Places
<1>22. CASE Backup
  <2>1. /\ Installing /\ disk = before.disk /\ current = before.current /\ Same(db, before.db)
        /\ op.ver \in releases
    BY <1>22, <1>0 DEF Backup, Places, Changed, Restorable, Releases, Plus
  <2>2. Now # NoSnapshot
    BY <2>1 DEF Now, NoSnapshot
  <2>3. /\ inner' = Now /\ inner' # NoSnapshot /\ before' = before
        /\ inner'.disk = before.disk /\ inner'.current = before.current
        /\ Same(inner'.db, before.db)
    BY <1>22, <2>1, <2>2 DEF Backup, history, Now
  <2>4. /\ pc = "backup" /\ pc' = "secrets" /\ op' = op /\ switched' = switched /\ outer' = outer
        /\ place' = place
    BY <1>22 DEF Backup, Goto, history
  <2> QED
    BY <1>0, <2>1, <2>3, <2>4
<1>23. CASE SwitchCurrent
    BY <1>23, <1>0 DEF SwitchCurrent, Goto, history, Changed
<1>24. CASE InstallBinLink
    BY <1>24, <1>0 DEF InstallBinLink, Goto, memory, history, Changed
<1>25. CASE PassDoctor
    BY <1>25, <1>0 DEF PassDoctor, Goto, history, Changed
<1>26. CASE CheckUpdate
    BY <1>26, <1>0 DEF CheckUpdate, End, memory, history, Changed
<1>27. ASSUME NEW a \in Agents, Connect(a)
      PROVE Remembered'
    BY <1>27, <1>0 DEF Connect, Goto, history, Changed
<1>28. ASSUME NEW a \in Agents, Remove(a)
      PROVE Remembered'
    BY <1>28, <1>0 DEF Remove, Goto, history, Changed
<1>29. ASSUME NEW a \in Agents, Undetected(a)
      PROVE Remembered'
    BY <1>29, <1>0 DEF Undetected, End, history, Changed
<1>30. CASE AdapterInstall
    BY <1>30, <1>0, AdapterLeads DEF AdapterInstall, Goto, Changed
<1>31. CASE PersistSelection
    BY <1>31, <1>0 DEF PersistSelection, Goto, End, history, Changed
<1>32. CASE UndoConnect
    BY <1>32, <1>0 DEF UndoConnect, End, history, Changed
<1>33. CASE ConnectDone
    BY <1>33, <1>0 DEF ConnectDone, Goto, End, history, Changed
<1>34. CASE Unpersist
    BY <1>34, <1>0 DEF Unpersist, End, memory, history, Changed
<1>35. CASE UndoLink
    BY <1>35, <1>0 DEF UndoLink, Goto, memory, history, Changed
<1>36. CASE UndoRelease
    BY <1>36, <1>0 DEF UndoRelease, Goto, End, memory, history, Changed
<1>37. CASE UndoDatabase
    BY <1>37, <1>0 DEF UndoDatabase, Goto, memory, history, Changed
<1>38. CASE UndoFiles
    BY <1>38, <1>0 DEF UndoFiles, Goto, End, memory, history, Changed
<1>39. CASE BackLink
    BY <1>39, <1>0 DEF BackLink, Goto, memory, history, Changed
<1>40. CASE BackFiles
    BY <1>40, <1>0 DEF BackFiles, Goto, memory, history, Changed
<1>41. CASE BackDatabase
    BY <1>41, <1>0 DEF BackDatabase, Goto, End, memory, Changed
<1>42. CASE BackRelease
    BY <1>42, <1>0 DEF BackRelease, End, memory, history, Changed
<1>43. CASE RollbackStops
    BY <1>43, <1>0 DEF RollbackStops, Lapse, Aborted, Goto, End, memory, Changed
<1>44. CASE ReleaseStays
    BY <1>44, <1>0 DEF ReleaseStays, Lapse, Goto, End, memory, Changed
<1>45. ASSUME NEW files \in SUBSET {"config", "profiles", "secrets", "local"},
             NEW old \in {inner.disk, outer.disk}, FilesStop(files, old)
      PROVE Remembered'
    BY <1>45, <1>0 DEF FilesStop, Lapse, Aborted, Goto, End, memory, Changed
<1>46. CASE Unlink
    BY <1>46, <1>0 DEF Unlink, Goto, memory, history, Changed
<1>47. ASSUME NEW v \in Versions, Sweep(v)
      PROVE Remembered'
    BY <1>47, <1>0 DEF Sweep, Goto, memory, history, Changed
<1>48. CASE Finish
    BY <1>48, <1>0 DEF Finish, End, memory, Changed
<1>49. CASE Fail
    BY <1>49, <1>0, FailLeads DEF Fail, memory, Changed, End, Steps
<1>50. CASE Kill
    BY <1>50, <1>0 DEF Kill, machine, memory, Changed
<1>51. CASE Interrupt
    BY <1>51, <1>0 DEF Interrupt, End, memory, Changed, Steps
<1>52. CASE StartRuntime
    BY <1>52, <1>0 DEF StartRuntime, memory, history, Changed, Cutover, Rewritten
<1>53. CASE StartRefused
    BY <1>53, <1>0 DEF StartRefused, memory, history, Changed
<1>54. CASE RuntimeDies
    BY <1>54, <1>0 DEF RuntimeDies, memory, history, Changed
<1>55. CASE Capture
    BY <1>55, <1>0 DEF Capture, memory, Changed
<1>56. CASE \/ UNCHANGED vars
            \/ \E a \in Agents : Edit(a)
    BY <1>56, <1>0 DEF Edit, memory, machine, history, vars
<1> HIDE DEF Remembered, Same, Held, HeldInner, HeldOuter, Installing, Saving,
             CommittedSteps, WriteSteps, AdapterSteps, FirstSteps, ConnectSteps,
             UndoSteps, BackSteps
<1> QED
    BY <1>1, <1>2, <1>3, <1>4, <1>5, <1>6, <1>7, <1>8, <1>9, <1>10, <1>11, <1>12, <1>13,
       <1>14, <1>15, <1>16, <1>17, <1>18, <1>19, <1>20, <1>21, <1>22, <1>23, <1>24, <1>25,
       <1>26, <1>27, <1>28, <1>29, <1>30, <1>31, <1>32, <1>33, <1>34, <1>35, <1>36, <1>37,
       <1>38, <1>39, <1>40, <1>41, <1>42, <1>43, <1>44, <1>45, <1>46, <1>47, <1>48, <1>49,
       <1>50, <1>51, <1>52, <1>53, <1>54, <1>55, <1>56
    DEF Next, BeginStep, WriteStep, InstallSteps, AgentStep, RollbackStep, RemovalStep

\* update's and configure's handler puts link, files and database back in turn.
LEMMA GoingBackStep ==
    ASSUME TypeOK, AskedFor, Places, Linked, Restorable, [Next]_vars
    PROVE  GoingBack'
<1>0. GoingBack /\ Changed
    BY DEF Restorable
<1>a. pc \in {"back_files", "back_db", "back_link"} =>
        /\ outer.disk = before.disk /\ outer.current = before.current
        /\ place = "default" => Same(outer.db, before.db)
    BY DEF Restorable, Remembered, Places, Saving, HeldOuter, Held
<1>b. /\ Lapses /\ (pc = "undo_db" => current = before.current)
      /\ pc \in {"undo_link", "undo_db", "undo_files", "check"} => current \in {op.ver, before.current}
      /\ pc \in {"undo_link", "undo_db", "undo_files"} => returned = "no"
    BY DEF Restorable, Changed, GoingBack, Places, Installing, BackSteps
<1> USE DEF GoingBack, Same, LinkLost, Installing, Saving, CommittedSteps,
            WriteSteps, AdapterSteps, FirstSteps, ConnectSteps, UndoSteps, BackSteps
<1>1. ASSUME NEW v \in Versions, RefuseUpdate(v)
      PROVE GoingBack'
    BY <1>1, <1>0, <1>b DEF RefuseUpdate, machine, Changed, NoOp, Now
<1>2. ASSUME NEW v \in Versions, NEW code \in Versions, NEW skip \in {"yes", "no"},
              BeginUpdate(v, code, skip)
      PROVE GoingBack'
    BY <1>2, <1>0, <1>b DEF BeginUpdate, Begin, Changed, NoOp, Now
<1>3. ASSUME NEW v \in Versions, NEW g \in Gens, NEW sel \in Choices, NEW skip \in {"yes", "no"},
              BeginInstall(v, g, sel, skip)
      PROVE GoingBack'
    BY <1>3, <1>0, <1>b DEF BeginInstall, Begin, Changed, NoOp, Now
<1>4. ASSUME NEW g \in Gens, NEW sel \in Choices, BeginImport(g, sel)
      PROVE GoingBack'
    BY <1>4, <1>0, <1>b DEF BeginImport, Begin, Changed, NoOp, Now
<1>5. ASSUME NEW g \in Gens, NEW sel \in Choices, NEW skip \in {"yes", "no"},
              BeginConfigure(g, sel, skip)
      PROVE GoingBack'
    BY <1>5, <1>0, <1>b DEF BeginConfigure, Begin, Changed, NoOp, Now
<1>6. ASSUME NEW a \in Agents, BeginDisconnect(a)
      PROVE GoingBack'
    BY <1>6, <1>0, <1>b DEF BeginDisconnect, Begin, Changed, NoOp, Now
<1>7. ASSUME NEW a \in Agents, NEW e \in {"enabled", "disabled"}, BeginConnect(a, e)
      PROVE GoingBack'
    BY <1>7, <1>0, <1>b DEF BeginConnect, Begin, Changed, NoOp, Now
<1>8. ASSUME NEW a \in Agents, NEW e \in {"enabled", "disabled"}, SetEnabled(a, e)
      PROVE GoingBack'
    BY <1>8, <1>0, <1>b DEF SetEnabled, Changed, NoOp, Now
<1>9. CASE BeginRepair
    BY <1>9, <1>0, <1>b DEF BeginRepair, Begin, Changed, NoOp, Now
<1>10. ASSUME NEW purge \in SUBSET {"data", "config"}, BeginUninstall(purge)
      PROVE GoingBack'
    BY <1>10, <1>0, <1>b DEF BeginUninstall, Begin, Changed, NoOp, Now
<1>11. CASE WriteSecrets
    BY <1>11, <1>0, <1>b, WriteLeads DEF WriteSecrets, memory, history, Changed, End
<1>12. CASE WriteConfig
    BY <1>12, <1>0, <1>b, WriteLeads DEF WriteConfig, memory, history, Changed, End
<1>13. CASE WriteProfiles
    BY <1>13, <1>0, <1>b, WriteLeads DEF WriteProfiles, memory, history, Changed, End
<1>14. CASE WriteLocal
    BY <1>14, <1>0, <1>b, WriteLeads DEF WriteLocal, memory, history, Changed, End
<1>15. CASE Migrate
    BY <1>15, <1>0, <1>b, WriteLeads DEF Migrate, memory, history, Changed, End
<1>16. CASE Materialize
    BY <1>16, <1>0, <1>b, WriteLeads DEF Materialize, memory, history, Changed, End
<1>17. CASE PersistProbe
    BY <1>17, <1>0, <1>b, WriteLeads DEF PersistProbe, memory, history, Changed, End
<1>18. CASE Stop
    BY <1>18, <1>0, <1>b DEF Stop, Goto, memory, history, Changed
<1>19. CASE Save
    BY <1>19, <1>0, <1>b DEF Save, Goto, history, Changed
<1>20. ASSUME NEW b \in Bundles, Prepare(b)
      PROVE GoingBack'
    BY <1>20, <1>0, <1>b DEF Prepare, Goto, memory, history, Changed
<1>21. ASSUME NEW b \in Bundles, Commit(b)
      PROVE GoingBack'
    BY <1>21, <1>0, <1>b DEF Commit, Goto, memory, history, Changed
<1>22. CASE Backup
    BY <1>22, <1>0, <1>b DEF Backup, Goto, history, Changed
<1>23. CASE SwitchCurrent
    BY <1>23, <1>0, <1>b DEF SwitchCurrent, Goto, history, Changed
<1>24. CASE InstallBinLink
    BY <1>24, <1>0, <1>b DEF InstallBinLink, Goto, memory, history, Changed
<1>25. CASE PassDoctor
    BY <1>25, <1>0, <1>b DEF PassDoctor, Goto, history, Changed
<1>26. CASE CheckUpdate
    BY <1>26, <1>0, <1>b DEF CheckUpdate, End, memory, history, Changed
<1>27. ASSUME NEW a \in Agents, Connect(a)
      PROVE GoingBack'
    BY <1>27, <1>0, <1>b DEF Connect, Goto, history, Changed
<1>28. ASSUME NEW a \in Agents, Remove(a)
      PROVE GoingBack'
    BY <1>28, <1>0, <1>b DEF Remove, Goto, history, Changed
<1>29. ASSUME NEW a \in Agents, Undetected(a)
      PROVE GoingBack'
    BY <1>29, <1>0, <1>b DEF Undetected, End, history, Changed
<1>30. CASE AdapterInstall
    BY <1>30, <1>0, <1>b, AdapterLeads DEF AdapterInstall, Goto, Changed
<1>31. CASE PersistSelection
    BY <1>31, <1>0, <1>b DEF PersistSelection, Goto, End, history, Changed
<1>32. CASE UndoConnect
    BY <1>32, <1>0, <1>b DEF UndoConnect, End, history, Changed
<1>33. CASE ConnectDone
    BY <1>33, <1>0, <1>b DEF ConnectDone, Goto, End, history, Changed
<1>34. CASE Unpersist
    BY <1>34, <1>0, <1>b DEF Unpersist, End, memory, history, Changed
<1>35. CASE UndoLink
    BY <1>35, <1>0, <1>b DEF UndoLink, Goto, memory, history, Changed
<1>36. CASE UndoRelease
    BY <1>36, <1>0, <1>b DEF UndoRelease, Goto, End, memory, history, Changed
<1>37. CASE UndoDatabase
    BY <1>37, <1>0, <1>b DEF UndoDatabase, Goto, memory, history, Changed
<1>38. CASE UndoFiles
    BY <1>38, <1>0, <1>b DEF UndoFiles, Goto, End, memory, history, Changed
<1>39. CASE BackLink
    BY <1>39, <1>0, <1>b, <1>a DEF BackLink, Goto, memory, history, Changed
<1>40. CASE BackFiles
    BY <1>40, <1>0, <1>b, <1>a DEF BackFiles, Goto, memory, history, Changed
<1>41. CASE BackDatabase
    BY <1>41, <1>0, <1>b, <1>a DEF BackDatabase, Goto, End, memory, Changed
<1>42. CASE BackRelease
    BY <1>42, <1>0, <1>b DEF BackRelease, End, memory, history, Changed
<1>43. CASE RollbackStops
    BY <1>43, <1>0, <1>b DEF RollbackStops, Lapse, Aborted, Goto, End, memory, Changed
<1>44. CASE ReleaseStays
    BY <1>44, <1>0, <1>b DEF ReleaseStays, Lapse, Goto, End, memory, Changed
<1>45. ASSUME NEW files \in SUBSET {"config", "profiles", "secrets", "local"},
             NEW old \in {inner.disk, outer.disk}, FilesStop(files, old)
      PROVE GoingBack'
    BY <1>45, <1>0, <1>b DEF FilesStop, Lapse, Aborted, Goto, End, memory, Changed
<1>46. CASE Unlink
    BY <1>46, <1>0, <1>b DEF Unlink, Goto, memory, history, Changed
<1>47. ASSUME NEW v \in Versions, Sweep(v)
      PROVE GoingBack'
    BY <1>47, <1>0, <1>b DEF Sweep, Goto, memory, history, Changed
<1>48. CASE Finish
    BY <1>48, <1>0, <1>b DEF Finish, End, memory, Changed
<1>49. CASE Fail
    BY <1>49, <1>0, <1>b, FailLeads DEF Fail, memory, Changed, End, Steps
<1>50. CASE Kill
    BY <1>50, <1>0, <1>b DEF Kill, machine, memory, Changed
<1>51. CASE Interrupt
    BY <1>51, <1>0, <1>b DEF Interrupt, End, memory, Changed, Steps
<1>52. CASE StartRuntime
    BY <1>52, <1>0, <1>b DEF StartRuntime, memory, history, Changed, Cutover, Rewritten
<1>53. CASE StartRefused
    BY <1>53, <1>0, <1>b DEF StartRefused, memory, history, Changed
<1>54. CASE RuntimeDies
    BY <1>54, <1>0, <1>b DEF RuntimeDies, memory, history, Changed
<1>55. CASE Capture
    BY <1>55, <1>0, <1>b DEF Capture, memory, Changed
<1>56. CASE \/ UNCHANGED vars
            \/ \E a \in Agents : Edit(a)
    BY <1>56, <1>0, <1>b DEF Edit, memory, machine, history, vars
<1> HIDE DEF GoingBack, Same, LinkLost, Installing, Saving, CommittedSteps, WriteSteps,
             AdapterSteps, FirstSteps, ConnectSteps, UndoSteps, BackSteps
<1> QED
    BY <1>1, <1>2, <1>3, <1>4, <1>5, <1>6, <1>7, <1>8, <1>9, <1>10, <1>11, <1>12, <1>13,
       <1>14, <1>15, <1>16, <1>17, <1>18, <1>19, <1>20, <1>21, <1>22, <1>23, <1>24, <1>25,
       <1>26, <1>27, <1>28, <1>29, <1>30, <1>31, <1>32, <1>33, <1>34, <1>35, <1>36, <1>37,
       <1>38, <1>39, <1>40, <1>41, <1>42, <1>43, <1>44, <1>45, <1>46, <1>47, <1>48, <1>49,
       <1>50, <1>51, <1>52, <1>53, <1>54, <1>55, <1>56
    DEF Next, BeginStep, WriteStep, InstallSteps, AgentStep, RollbackStep, RemovalStep

\* The link never names a release that is not there.
LEMMA LinkedStep ==
    ASSUME TypeOK, AskedFor, Places, Linked, Restorable, [Next]_vars
    PROVE  Linked'
<1>0. Linked /\ None \notin Versions
    BY InstallerAssumption
<1>a. /\ pc \in {"commit", "switch", "undo_link", "undo_release"} => Installing
      /\ pc \in {"back_link", "back_release"} => op.kind = "update"
    BY DEF Places, UndoSteps
<1>b. /\ pc \in {"switch", "undo_link", "undo_release"} =>
            releases = Plus(before.releases, op.ver) /\ op.ver \notin before.releases
      /\ pc \in {"back_link", "back_release"} =>
            /\ before.releases \subseteq releases
            /\ returned = "yes" => releases = Plus(before.releases, op.ver) /\ op.ver \notin before.releases
    BY <1>a DEF TypeOK, Restorable, Releases, Kept, Plus, CommittedSteps, BackSteps
<1>c. /\ pc = "undo_link" => IF switched = "yes" THEN inner.current = before.current
                             ELSE current = before.current
      /\ pc = "undo_release" => current = before.current
      /\ pc = "back_link" => outer.current = before.current
      /\ pc = "back_release" =>
            /\ outer.current = before.current
            /\ before.current # None => current = before.current
    BY <1>a DEF Restorable, Changed, Remembered, GoingBack, HeldInner, HeldOuter,
                Held, UndoSteps, Saving
<1> USE DEF Linked, NoDanglingCurrent, Installing, Saving, CommittedSteps,
            WriteSteps, AdapterSteps, FirstSteps, ConnectSteps, UndoSteps, BackSteps
<1>1. ASSUME NEW v \in Versions, RefuseUpdate(v)
      PROVE Linked'
    BY <1>1, <1>0 DEF RefuseUpdate, machine, NoOp, Now
<1>2. ASSUME NEW v \in Versions, NEW code \in Versions, NEW skip \in {"yes", "no"},
              BeginUpdate(v, code, skip)
      PROVE Linked'
    BY <1>2, <1>0 DEF BeginUpdate, Begin, NoOp, Now
<1>3. ASSUME NEW v \in Versions, NEW g \in Gens, NEW sel \in Choices, NEW skip \in {"yes", "no"},
              BeginInstall(v, g, sel, skip)
      PROVE Linked'
    BY <1>3, <1>0 DEF BeginInstall, Begin, NoOp, Now
<1>4. ASSUME NEW g \in Gens, NEW sel \in Choices, BeginImport(g, sel)
      PROVE Linked'
    BY <1>4, <1>0 DEF BeginImport, Begin, NoOp, Now
<1>5. ASSUME NEW g \in Gens, NEW sel \in Choices, NEW skip \in {"yes", "no"},
              BeginConfigure(g, sel, skip)
      PROVE Linked'
    BY <1>5, <1>0 DEF BeginConfigure, Begin, NoOp, Now
<1>6. ASSUME NEW a \in Agents, BeginDisconnect(a)
      PROVE Linked'
    BY <1>6, <1>0 DEF BeginDisconnect, Begin, NoOp, Now
<1>7. ASSUME NEW a \in Agents, NEW e \in {"enabled", "disabled"}, BeginConnect(a, e)
      PROVE Linked'
    BY <1>7, <1>0 DEF BeginConnect, Begin, NoOp, Now
<1>8. ASSUME NEW a \in Agents, NEW e \in {"enabled", "disabled"}, SetEnabled(a, e)
      PROVE Linked'
    BY <1>8, <1>0 DEF SetEnabled, NoOp, Now
<1>9. CASE BeginRepair
    BY <1>9, <1>0 DEF BeginRepair, Begin, NoOp, Now
<1>10. ASSUME NEW purge \in SUBSET {"data", "config"}, BeginUninstall(purge)
      PROVE Linked'
    BY <1>10, <1>0 DEF BeginUninstall, Begin, NoOp, Now
<1>11. CASE WriteSecrets
    BY <1>11, <1>0, WriteLeads DEF WriteSecrets, memory, history, End
<1>12. CASE WriteConfig
    BY <1>12, <1>0, WriteLeads DEF WriteConfig, memory, history, End
<1>13. CASE WriteProfiles
    BY <1>13, <1>0, WriteLeads DEF WriteProfiles, memory, history, End
<1>14. CASE WriteLocal
    BY <1>14, <1>0, WriteLeads DEF WriteLocal, memory, history, End
<1>15. CASE Migrate
    BY <1>15, <1>0, WriteLeads DEF Migrate, memory, history, End
<1>16. CASE Materialize
    BY <1>16, <1>0, WriteLeads DEF Materialize, memory, history, End
<1>17. CASE PersistProbe
    BY <1>17, <1>0, WriteLeads DEF PersistProbe, memory, history, End
<1>18. CASE Stop
    BY <1>18, <1>0 DEF Stop, Goto, memory, history
<1>19. CASE Save
    BY <1>19, <1>0 DEF Save, Goto, history
<1>20. ASSUME NEW b \in Bundles, Prepare(b)
      PROVE Linked'
    BY <1>20, <1>0 DEF Prepare, Goto, memory, history
<1>21. ASSUME NEW b \in Bundles, Commit(b)
      PROVE Linked'
    BY <1>21, <1>0 DEF Commit, Goto, memory, history
<1>22. CASE Backup
    BY <1>22, <1>0 DEF Backup, Goto, history
<1>23. CASE SwitchCurrent
    BY <1>23, <1>0, <1>a, <1>b DEF SwitchCurrent, Goto, history, Plus
<1>24. CASE InstallBinLink
    BY <1>24, <1>0 DEF InstallBinLink, Goto, memory, history
<1>25. CASE PassDoctor
    BY <1>25, <1>0 DEF PassDoctor, Goto, history
<1>26. CASE CheckUpdate
    BY <1>26, <1>0 DEF CheckUpdate, End, memory, history
<1>27. ASSUME NEW a \in Agents, Connect(a)
      PROVE Linked'
    BY <1>27, <1>0 DEF Connect, Goto, history
<1>28. ASSUME NEW a \in Agents, Remove(a)
      PROVE Linked'
    BY <1>28, <1>0 DEF Remove, Goto, history
<1>29. ASSUME NEW a \in Agents, Undetected(a)
      PROVE Linked'
    BY <1>29, <1>0 DEF Undetected, End, history
<1>30. CASE AdapterInstall
    BY <1>30, <1>0, AdapterLeads DEF AdapterInstall, Goto
<1>31. CASE PersistSelection
    BY <1>31, <1>0 DEF PersistSelection, Goto, End, history
<1>32. CASE UndoConnect
    BY <1>32, <1>0 DEF UndoConnect, End, history
<1>33. CASE ConnectDone
    BY <1>33, <1>0 DEF ConnectDone, Goto, End, history
<1>34. CASE Unpersist
    BY <1>34, <1>0 DEF Unpersist, End, memory, history
<1>35. CASE UndoLink
    BY <1>35, <1>0, <1>b, <1>c DEF UndoLink, Goto, memory, history, Plus
<1>36. CASE UndoRelease
    BY <1>36, <1>0, <1>b, <1>c DEF UndoRelease, Goto, End, memory, history, Plus
<1>37. CASE UndoDatabase
    BY <1>37, <1>0 DEF UndoDatabase, Goto, memory, history
<1>38. CASE UndoFiles
    BY <1>38, <1>0 DEF UndoFiles, Goto, End, memory, history
<1>39. CASE BackLink
    BY <1>39, <1>0, <1>b, <1>c DEF BackLink, Goto, memory, history, Plus
<1>40. CASE BackFiles
    BY <1>40, <1>0 DEF BackFiles, Goto, memory, history
<1>41. CASE BackDatabase
    BY <1>41, <1>0 DEF BackDatabase, Goto, End, memory
<1>42. CASE BackRelease
    BY <1>42, <1>0, <1>b, <1>c DEF BackRelease, End, memory, history, Plus
<1>43. CASE RollbackStops
    BY <1>43, <1>0 DEF RollbackStops, Lapse, Aborted, Goto, End, memory
<1>44. CASE ReleaseStays
    BY <1>44, <1>0 DEF ReleaseStays, Lapse, Goto, End, memory
<1>45. ASSUME NEW files \in SUBSET {"config", "profiles", "secrets", "local"},
             NEW old \in {inner.disk, outer.disk}, FilesStop(files, old)
      PROVE Linked'
    BY <1>45, <1>0 DEF FilesStop, Lapse, Aborted, Goto, End, memory
<1>46. CASE Unlink
    BY <1>46, <1>0 DEF Unlink, Goto, memory, history
<1>47. ASSUME NEW v \in Versions, Sweep(v)
      PROVE Linked'
    BY <1>47, <1>0 DEF Sweep, Goto, memory, history
<1>48. CASE Finish
    BY <1>48, <1>0 DEF Finish, End, memory
<1>49. CASE Fail
    BY <1>49, <1>0, FailLeads DEF Fail, memory, End, Steps
<1>50. CASE Kill
    BY <1>50, <1>0 DEF Kill, machine, memory
<1>51. CASE Interrupt
    BY <1>51, <1>0 DEF Interrupt, End, memory, Steps
<1>52. CASE \/ StartRuntime \/ StartRefused \/ RuntimeDies \/ Capture \/ UNCHANGED vars
            \/ \E a \in Agents : Edit(a)
    BY <1>52, <1>0 DEF StartRuntime, memory, history, StartRefused, RuntimeDies,
                       Capture, Edit, machine, vars
<1> HIDE DEF Linked, NoDanglingCurrent, Installing, Saving, CommittedSteps, WriteSteps,
             AdapterSteps, FirstSteps, ConnectSteps, UndoSteps, BackSteps
<1> QED
    BY <1>1, <1>2, <1>3, <1>4, <1>5, <1>6, <1>7, <1>8, <1>9, <1>10, <1>11, <1>12, <1>13,
       <1>14, <1>15, <1>16, <1>17, <1>18, <1>19, <1>20, <1>21, <1>22, <1>23, <1>24, <1>25,
       <1>26, <1>27, <1>28, <1>29, <1>30, <1>31, <1>32, <1>33, <1>34, <1>35, <1>36, <1>37,
       <1>38, <1>39, <1>40, <1>41, <1>42, <1>43, <1>44, <1>45, <1>46, <1>47, <1>48, <1>49,
       <1>50, <1>51, <1>52
    DEF Next, BeginStep, WriteStep, InstallSteps, AgentStep, RollbackStep, RemovalStep

-----------------------------------------------------------------------------
(* What a failure restores                                                  *)

\* An operation that ends as failed has put everything back.
LEMMA FailureStep ==
    ASSUME TypeOK, AskedFor, Places, Linked, Restorable, [Next]_vars
    PROVE  FailureRestores'
<1>0. FailureRestores
    BY DEF Restorable
<1>a. UNCHANGED <<op, lapsed, place, returned>> =>
        (RolledBack' <=> RolledBack) /\ (DatabaseSaved' <=> DatabaseSaved)
    BY DEF RolledBack, DatabaseSaved
<1> USE DEF FailureRestores, Installing, Saving, CommittedSteps, WriteSteps,
            AdapterSteps, FirstSteps, ConnectSteps, UndoSteps, BackSteps
<1>1. ASSUME NEW v \in Versions, RefuseUpdate(v)
      PROVE FailureRestores'
    BY <1>1, <1>0, <1>a DEF RefuseUpdate, machine, NoOp, Now
<1>2. ASSUME NEW v \in Versions, NEW code \in Versions, NEW skip \in {"yes", "no"},
              BeginUpdate(v, code, skip)
      PROVE FailureRestores'
    BY <1>2, <1>0, <1>a DEF BeginUpdate, Begin, NoOp, Now
<1>3. ASSUME NEW v \in Versions, NEW g \in Gens, NEW sel \in Choices, NEW skip \in {"yes", "no"},
              BeginInstall(v, g, sel, skip)
      PROVE FailureRestores'
    BY <1>3, <1>0, <1>a DEF BeginInstall, Begin, NoOp, Now
<1>4. ASSUME NEW g \in Gens, NEW sel \in Choices, BeginImport(g, sel)
      PROVE FailureRestores'
    BY <1>4, <1>0, <1>a DEF BeginImport, Begin, NoOp, Now
<1>5. ASSUME NEW g \in Gens, NEW sel \in Choices, NEW skip \in {"yes", "no"},
              BeginConfigure(g, sel, skip)
      PROVE FailureRestores'
    BY <1>5, <1>0, <1>a DEF BeginConfigure, Begin, NoOp, Now
<1>6. ASSUME NEW a \in Agents, BeginDisconnect(a)
      PROVE FailureRestores'
    BY <1>6, <1>0, <1>a DEF BeginDisconnect, Begin, NoOp, Now
<1>7. ASSUME NEW a \in Agents, NEW e \in {"enabled", "disabled"}, BeginConnect(a, e)
      PROVE FailureRestores'
    BY <1>7, <1>0, <1>a DEF BeginConnect, Begin, NoOp, Now
<1>8. ASSUME NEW a \in Agents, NEW e \in {"enabled", "disabled"}, SetEnabled(a, e)
      PROVE FailureRestores'
    BY <1>8, <1>0, <1>a DEF SetEnabled, NoOp, Now
<1>9. CASE BeginRepair
    BY <1>9, <1>0, <1>a DEF BeginRepair, Begin, NoOp, Now
<1>10. ASSUME NEW purge \in SUBSET {"data", "config"}, BeginUninstall(purge)
      PROVE FailureRestores'
    BY <1>10, <1>0, <1>a DEF BeginUninstall, Begin, NoOp, Now
<1>11. CASE WriteSecrets
    BY <1>11, <1>0, <1>a, WriteLeads DEF WriteSecrets, memory, history, End
<1>12. CASE WriteConfig
    BY <1>12, <1>0, <1>a, WriteLeads DEF WriteConfig, memory, history, End
<1>13. CASE WriteProfiles
    BY <1>13, <1>0, <1>a, WriteLeads DEF WriteProfiles, memory, history, End
<1>14. CASE WriteLocal
    BY <1>14, <1>0, <1>a, WriteLeads DEF WriteLocal, memory, history, End
<1>15. CASE Migrate
    BY <1>15, <1>0, <1>a, WriteLeads DEF Migrate, memory, history, End
<1>16. CASE Materialize
    BY <1>16, <1>0, <1>a, WriteLeads DEF Materialize, memory, history, End
<1>17. CASE PersistProbe
    BY <1>17, <1>0, <1>a, WriteLeads DEF PersistProbe, memory, history, End
<1>18. CASE Stop
    BY <1>18, <1>0, <1>a DEF Stop, Goto, memory, history
<1>19. CASE Save
    BY <1>19, <1>0, <1>a DEF Save, Goto, history
<1>20. ASSUME NEW b \in Bundles, Prepare(b)
      PROVE FailureRestores'
    BY <1>20, <1>0, <1>a DEF Prepare, Goto, memory, history
<1>21. ASSUME NEW b \in Bundles, Commit(b)
      PROVE FailureRestores'
    BY <1>21, <1>0, <1>a DEF Commit, Goto, memory, history
<1>22. CASE Backup
    BY <1>22, <1>0, <1>a DEF Backup, Goto, history
<1>23. CASE SwitchCurrent
    BY <1>23, <1>0, <1>a DEF SwitchCurrent, Goto, history
<1>24. CASE InstallBinLink
    BY <1>24, <1>0, <1>a DEF InstallBinLink, Goto, memory, history
<1>25. CASE PassDoctor
    BY <1>25, <1>0, <1>a DEF PassDoctor, Goto, history
<1>26. CASE CheckUpdate
    BY <1>26, <1>0, <1>a DEF CheckUpdate, End, memory, history
<1>27. ASSUME NEW a \in Agents, Connect(a)
      PROVE FailureRestores'
    BY <1>27, <1>0, <1>a DEF Connect, Goto, history
<1>28. ASSUME NEW a \in Agents, Remove(a)
      PROVE FailureRestores'
    BY <1>28, <1>0, <1>a DEF Remove, Goto, history
<1>29. ASSUME NEW a \in Agents, Undetected(a)
      PROVE FailureRestores'
    BY <1>29, <1>0, <1>a DEF Undetected, End, history
<1>30. CASE AdapterInstall
    BY <1>30, <1>0, <1>a, AdapterLeads DEF AdapterInstall, Goto
<1>31. CASE PersistSelection
    BY <1>31, <1>0, <1>a DEF PersistSelection, Goto, End, history
<1>32. CASE UndoConnect
    BY <1>32, <1>0, <1>a DEF UndoConnect, End, history
<1>33. CASE ConnectDone
    BY <1>33, <1>0, <1>a DEF ConnectDone, Goto, End, history
<1>34. CASE Unpersist
    BY <1>34, <1>0, <1>a DEF Unpersist, End, memory, history
<1>35. CASE UndoLink
    BY <1>35, <1>0, <1>a DEF UndoLink, Goto, memory, history
<1>36. CASE UndoRelease
    BY <1>36, <1>0, <1>a DEF UndoRelease, Goto, End, memory, history
<1>37. CASE UndoDatabase
    BY <1>37, <1>0, <1>a DEF UndoDatabase, Goto, memory, history
<1>38. CASE UndoFiles
  <2>1. Installing /\ op' = op /\ before' = before /\ lapsed' = lapsed
    BY <1>38 DEF UndoFiles, Places, memory, history
  <2>2. /\ disk' = before.disk /\ current = before.current /\ Same(db, before.db) /\ Kept
    BY <1>38, <2>1 DEF UndoFiles, Restorable, Changed, Releases, Remembered,
                       HeldInner, Held
  <2>3. /\ before.releases \subseteq releases /\ releases \subseteq before.releases \cup {op.ver}
        /\ lapsed \cap ReleaseKept = {} => releases = before.releases
    BY <2>2 DEF Kept, Plus
  <2> QED
    BY <1>38, <2>1, <2>2, <2>3 DEF UndoFiles, Goto, End, Same, ReleaseKept
<1>39. CASE BackLink
    BY <1>39, <1>0, <1>a DEF BackLink, Goto, memory, history
<1>40. CASE BackFiles
    BY <1>40, <1>0, <1>a DEF BackFiles, Goto, memory, history
<1>41. CASE BackDatabase
  <2>1. Saving /\ op' = op /\ before' = before /\ place' = place
    BY <1>41 DEF BackDatabase, Places, memory
  <2>2. disk = before.disk /\ (place = "default" => Same(outer.db, before.db))
    BY <1>41, <2>1 DEF BackDatabase, Restorable, GoingBack, Remembered, HeldOuter
  <2>3. op.kind = "configure" => current = before.current /\ releases = before.releases
    BY <1>41 DEF BackDatabase, Restorable, Changed, Releases
  <2> QED
    BY <1>41, <2>1, <2>2, <2>3 DEF BackDatabase, Goto, End, Same, DatabaseSaved
<1>42. CASE BackRelease
  <2>1. /\ op.kind = "update" /\ op' = op /\ before' = before /\ UNCHANGED <<lapsed, place, returned>>
        /\ UNCHANGED <<disk, db, current>>
    BY <1>42 DEF BackRelease, Places, memory, history
  <2>2. /\ disk = before.disk /\ outer.current = before.current
        /\ before.current # None => current = before.current
    BY <1>42, <2>1 DEF BackRelease, Restorable, GoingBack, Remembered, HeldOuter, Held
  <2>3. DatabaseSaved => Same(db, before.db)
    BY <1>42, <2>1 DEF BackRelease, Restorable, GoingBack, DatabaseSaved, LinkLost
  <2>4. before.current # None => /\ before.releases \subseteq releases'
                                 /\ releases' \subseteq before.releases \cup {op.ver}
                                 /\ lapsed \cap ReleaseKept = {} => releases' = before.releases
    <3>1. /\ returned = "yes" => releases = Plus(before.releases, op.ver) /\ op.ver \notin before.releases
          /\ returned = "no" => Kept
          /\ returned \in {"yes", "no"}
          /\ before.current \in before.releases \cup {None}
      BY <1>42, <2>1 DEF BackRelease, Restorable, Releases, TypeOK, Linked
    <3>2. releases' = releases \ (IF returned = "yes" /\ outer.current \notin {None, op.ver}
                                  THEN {op.ver} ELSE {})
      BY <1>42 DEF BackRelease
    <3>3. CASE returned = "yes" /\ before.current # None
      <4>1. releases' = releases \ {op.ver}
        BY <2>2, <3>1, <3>2, <3>3
      <4> QED
        BY <3>1, <3>3, <4>1 DEF Plus
    <3>4. CASE returned = "no"
      <4>1. releases' = releases \ {}
        BY <3>2, <3>4
      <4> QED
        BY <3>1, <3>4, <4>1 DEF Kept, Plus
    <3> QED
      BY <3>1, <3>3, <3>4
  <2>5. DatabaseSaved' = DatabaseSaved
    BY <2>1 DEF DatabaseSaved
  <2> QED
    BY <2>1, <2>2, <2>3, <2>4, <2>5 DEF Same, ReleaseKept
<1>43. CASE RollbackStops
  <2>1. /\ op' = op /\ pc \in lapsed' /\ pc \in {"undo_link", "undo_db", "back_link", "back_db"}
        /\ pc' = "idle" => ~(op.kind = "update" /\ pc \in {"undo_link", "undo_db"})
    BY <1>43 DEF RollbackStops, Lapse, Aborted, Goto, memory
  <2>2. pc' = "idle" => ~RolledBack'
    BY <2>1 DEF RolledBack
  <2> QED
    BY <2>2
<1>44. CASE ReleaseStays
  <2>1. CASE pc = "undo_release"
    BY <1>44, <2>1 DEF ReleaseStays, Goto, End
  <2>2. CASE pc = "back_release"
    <3>1. /\ op.kind = "update" /\ op' = op /\ before' = before /\ returned = "yes"
          /\ UNCHANGED <<place, returned, disk, db, current, releases>> /\ "back_release" \in lapsed'
      BY <1>44, <2>2 DEF ReleaseStays, Lapse, Places, memory
    <3>2. /\ disk = before.disk /\ (before.current # None => current = before.current)
          /\ place = "default" => Same(db, before.db)
          /\ releases = Plus(before.releases, op.ver)
      BY <2>2, <3>1 DEF Restorable, GoingBack, Releases
    <3>3. DatabaseSaved' => place = "default"
      BY <3>1 DEF DatabaseSaved
    <3> QED
      BY <3>1, <3>2, <3>3 DEF Same, Plus
  <2> QED
    BY <1>44, <2>1, <2>2 DEF ReleaseStays
<1>45. ASSUME NEW files \in SUBSET {"config", "profiles", "secrets", "local"},
             NEW old \in {inner.disk, outer.disk}, FilesStop(files, old)
      PROVE FailureRestores'
  <2>1. /\ op' = op /\ pc \in lapsed' /\ pc \in {"undo_files", "back_files"}
        /\ pc' = "idle" => ~(op.kind = "update" /\ pc = "undo_files")
    BY <1>45 DEF FilesStop, Lapse, Aborted, Goto, memory
  <2>2. pc' = "idle" => ~RolledBack'
    BY <2>1 DEF RolledBack
  <2> QED
    BY <2>2
<1>46. CASE Unlink
    BY <1>46, <1>0, <1>a DEF Unlink, Goto, memory, history
<1>47. ASSUME NEW v \in Versions, Sweep(v)
      PROVE FailureRestores'
    BY <1>47, <1>0, <1>a DEF Sweep, Goto, memory, history
<1>48. CASE Finish
    BY <1>48, <1>0, <1>a DEF Finish, End, memory
<1>49. CASE Fail
  <2>1. CASE pc' = "idle" /\ op.kind \in {"install", "update", "configure"}
    <3>1. pc \in FirstSteps /\ op' = op /\ before' = before
      BY <1>49, <2>1, FailLeads DEF Fail, memory, End, Steps, Places
    <3>2. /\ disk = before.disk /\ current = before.current /\ releases = before.releases
          /\ Same(db, before.db)
      BY <2>1, <3>1 DEF Restorable, Changed, Releases
    <3> QED
      BY <1>49, <3>1, <3>2 DEF Fail, Same
  <2>2. CASE ~(pc' = "idle" /\ op.kind \in {"install", "update", "configure"})
    <3>1. op' = op
      BY <1>49 DEF Fail, memory
    <3> QED
      BY <2>2, <3>1
  <2> QED
    BY <2>1, <2>2
<1>50. CASE Kill
    BY <1>50, <1>0, <1>a DEF Kill, machine, memory
<1>51. CASE Interrupt
    BY <1>51, <1>0, <1>a DEF Interrupt, End, memory, Steps
<1>52. CASE StartRuntime
    BY <1>52, <1>0, <1>a DEF StartRuntime, memory, history, Cutover, Rewritten,
                             RolledBack, DatabaseSaved
<1>53. CASE StartRefused
    BY <1>53, <1>0, <1>a DEF StartRefused, memory, history, RolledBack, DatabaseSaved
<1>54. CASE RuntimeDies
    BY <1>54, <1>0, <1>a DEF RuntimeDies, memory, history, RolledBack, DatabaseSaved
<1>55. CASE Capture
    BY <1>55, <1>0, <1>a DEF Capture, memory, RolledBack, DatabaseSaved
<1>56. CASE \/ UNCHANGED vars
            \/ \E a \in Agents : Edit(a)
    BY <1>56, <1>0, <1>a DEF Edit, memory, machine, history, vars
<1> HIDE DEF FailureRestores, Installing, Saving, CommittedSteps, WriteSteps,
             AdapterSteps, FirstSteps, ConnectSteps, UndoSteps, BackSteps
<1> QED
    BY <1>1, <1>2, <1>3, <1>4, <1>5, <1>6, <1>7, <1>8, <1>9, <1>10, <1>11, <1>12, <1>13,
       <1>14, <1>15, <1>16, <1>17, <1>18, <1>19, <1>20, <1>21, <1>22, <1>23, <1>24, <1>25,
       <1>26, <1>27, <1>28, <1>29, <1>30, <1>31, <1>32, <1>33, <1>34, <1>35, <1>36, <1>37,
       <1>38, <1>39, <1>40, <1>41, <1>42, <1>43, <1>44, <1>45, <1>46, <1>47, <1>48, <1>49,
       <1>50, <1>51, <1>52, <1>53, <1>54, <1>55, <1>56
    DEF Next, BeginStep, WriteStep, InstallSteps, AgentStep, RollbackStep, RemovalStep

LEMMA RestorableStep ==
    ASSUME TypeOK, AskedFor, Places, Linked, Restorable, [Next]_vars
    PROVE  Restorable'
BY LapsesStep, ChangedStep, ReleasesStep, RememberedStep, GoingBackStep, FailureStep DEF
      Restorable

-----------------------------------------------------------------------------
(* The release in use                                                       *)

\* Files that are not the signed ones do not pass the doctor.
LEMMA SignedStep ==
    ASSUME TypeOK, AskedFor, Places, Restorable, Signed, [Next]_vars
    PROVE  Signed'
<1>0. Signed
    OBVIOUS
<1> USE DEF Signed, Installing, Saving, CommittedSteps, WriteSteps, AdapterSteps,
            FirstSteps, ConnectSteps, UndoSteps, BackSteps
<1>1. ASSUME NEW v \in Versions, RefuseUpdate(v)
      PROVE Signed'
    BY <1>1, <1>0 DEF RefuseUpdate, machine, NoOp, Now
<1>2. ASSUME NEW v \in Versions, NEW code \in Versions, NEW skip \in {"yes", "no"},
              BeginUpdate(v, code, skip)
      PROVE Signed'
    BY <1>2, <1>0 DEF BeginUpdate, Begin, NoOp, Now
<1>3. ASSUME NEW v \in Versions, NEW g \in Gens, NEW sel \in Choices, NEW skip \in {"yes", "no"},
              BeginInstall(v, g, sel, skip)
      PROVE Signed'
    BY <1>3, <1>0 DEF BeginInstall, Begin, NoOp, Now
<1>4. ASSUME NEW g \in Gens, NEW sel \in Choices, BeginImport(g, sel)
      PROVE Signed'
    BY <1>4, <1>0 DEF BeginImport, Begin, NoOp, Now
<1>5. ASSUME NEW g \in Gens, NEW sel \in Choices, NEW skip \in {"yes", "no"},
              BeginConfigure(g, sel, skip)
      PROVE Signed'
    BY <1>5, <1>0 DEF BeginConfigure, Begin, NoOp, Now
<1>6. ASSUME NEW a \in Agents, BeginDisconnect(a)
      PROVE Signed'
    BY <1>6, <1>0 DEF BeginDisconnect, Begin, NoOp, Now
<1>7. ASSUME NEW a \in Agents, NEW e \in {"enabled", "disabled"}, BeginConnect(a, e)
      PROVE Signed'
    BY <1>7, <1>0 DEF BeginConnect, Begin, NoOp, Now
<1>8. ASSUME NEW a \in Agents, NEW e \in {"enabled", "disabled"}, SetEnabled(a, e)
      PROVE Signed'
    BY <1>8, <1>0 DEF SetEnabled, NoOp, Now
<1>9. CASE BeginRepair
    BY <1>9, <1>0 DEF BeginRepair, Begin, NoOp, Now
<1>10. ASSUME NEW purge \in SUBSET {"data", "config"}, BeginUninstall(purge)
      PROVE Signed'
    BY <1>10, <1>0 DEF BeginUninstall, Begin, NoOp, Now
<1>11. CASE WriteSecrets
    BY <1>11, <1>0, WriteLeads DEF WriteSecrets, memory, history, End
<1>12. CASE WriteConfig
    BY <1>12, <1>0, WriteLeads DEF WriteConfig, memory, history, End
<1>13. CASE WriteProfiles
    BY <1>13, <1>0, WriteLeads DEF WriteProfiles, memory, history, End
<1>14. CASE WriteLocal
    BY <1>14, <1>0, WriteLeads DEF WriteLocal, memory, history, End
<1>15. CASE Migrate
    BY <1>15, <1>0, WriteLeads DEF Migrate, memory, history, End
<1>16. CASE Materialize
    BY <1>16, <1>0, WriteLeads DEF Materialize, memory, history, End
<1>17. CASE PersistProbe
    BY <1>17, <1>0, WriteLeads DEF PersistProbe, memory, history, End
<1>18. CASE Stop
    BY <1>18, <1>0 DEF Stop, Goto, memory, history
<1>19. CASE Save
    BY <1>19, <1>0 DEF Save, Goto, history
<1>20. ASSUME NEW b \in Bundles, Prepare(b)
      PROVE Signed'
    BY <1>20, <1>0 DEF Prepare, Goto, memory, history
<1>21. ASSUME NEW b \in Bundles, Commit(b)
      PROVE Signed'
    BY <1>21, <1>0 DEF Commit, Goto, memory, history, Places
<1>22. CASE Backup
    BY <1>22, <1>0 DEF Backup, Goto, history
<1>23. CASE SwitchCurrent
    BY <1>23, <1>0 DEF SwitchCurrent, Goto, history
<1>24. CASE InstallBinLink
    BY <1>24, <1>0 DEF InstallBinLink, Goto, memory, history
<1>25. CASE PassDoctor
  <2>1. Installing /\ current = op.ver /\ current \notin spoiled
    BY <1>25 DEF PassDoctor, Doctor, Places, Restorable, Changed
  <2>2. disturbed \cap {"killed", "rollback"} = {} => spoiled = {}
    BY <1>0, <2>1
  <2> QED
    BY <1>25, <2>2 DEF PassDoctor, Goto, history
<1>26. CASE CheckUpdate
    BY <1>26, <1>0 DEF CheckUpdate, End, memory, history
<1>27. ASSUME NEW a \in Agents, Connect(a)
      PROVE Signed'
    BY <1>27, <1>0 DEF Connect, Goto, history
<1>28. ASSUME NEW a \in Agents, Remove(a)
      PROVE Signed'
    BY <1>28, <1>0 DEF Remove, Goto, history
<1>29. ASSUME NEW a \in Agents, Undetected(a)
      PROVE Signed'
    BY <1>29, <1>0 DEF Undetected, End, history
<1>30. CASE AdapterInstall
    BY <1>30, <1>0, AdapterLeads DEF AdapterInstall, Goto
<1>31. CASE PersistSelection
    BY <1>31, <1>0 DEF PersistSelection, Goto, End, history
<1>32. CASE UndoConnect
    BY <1>32, <1>0 DEF UndoConnect, End, history
<1>33. CASE ConnectDone
    BY <1>33, <1>0 DEF ConnectDone, Goto, End, history
<1>34. CASE Unpersist
    BY <1>34, <1>0 DEF Unpersist, End, memory, history
<1>35. CASE UndoLink
    BY <1>35, <1>0 DEF UndoLink, Goto, memory, history
<1>36. CASE UndoRelease
    BY <1>36, <1>0 DEF UndoRelease, Goto, End, memory, history
<1>37. CASE UndoDatabase
    BY <1>37, <1>0 DEF UndoDatabase, Goto, memory, history
<1>38. CASE UndoFiles
    BY <1>38, <1>0 DEF UndoFiles, Goto, End, memory, history
<1>39. CASE BackLink
    BY <1>39, <1>0 DEF BackLink, Goto, memory, history
<1>40. CASE BackFiles
    BY <1>40, <1>0 DEF BackFiles, Goto, memory, history
<1>41. CASE BackDatabase
    BY <1>41, <1>0 DEF BackDatabase, Goto, End, memory
<1>42. CASE BackRelease
    BY <1>42, <1>0 DEF BackRelease, End, memory, history
<1>43. CASE RollbackStops
    BY <1>43, <1>0 DEF RollbackStops, Lapse, Aborted, Goto, End, memory
<1>44. CASE ReleaseStays
    BY <1>44, <1>0 DEF ReleaseStays, Lapse, Goto, End, memory
<1>45. ASSUME NEW files \in SUBSET {"config", "profiles", "secrets", "local"},
             NEW old \in {inner.disk, outer.disk}, FilesStop(files, old)
      PROVE Signed'
    BY <1>45, <1>0 DEF FilesStop, Lapse, Aborted, Goto, End, memory
<1>46. CASE Unlink
    BY <1>46, <1>0 DEF Unlink, Goto, memory, history
<1>47. ASSUME NEW v \in Versions, Sweep(v)
      PROVE Signed'
    BY <1>47, <1>0 DEF Sweep, Goto, memory, history
<1>48. CASE Finish
    BY <1>48, <1>0 DEF Finish, End, memory
<1>49. CASE Fail
    BY <1>49, <1>0, FailLeads DEF Fail, memory, End, Steps
<1>50. CASE Kill
    BY <1>50, <1>0 DEF Kill, machine, memory
<1>51. CASE Interrupt
    BY <1>51, <1>0 DEF Interrupt, End, memory, Steps
<1>52. CASE \/ StartRuntime \/ StartRefused \/ RuntimeDies \/ Capture \/ UNCHANGED vars
            \/ \E a \in Agents : Edit(a)
    BY <1>52, <1>0 DEF StartRuntime, memory, history, StartRefused, RuntimeDies,
                       Capture, Edit, machine, vars
<1> HIDE DEF Signed, Installing, Saving, CommittedSteps, WriteSteps, AdapterSteps,
             FirstSteps, ConnectSteps, UndoSteps, BackSteps
<1> QED
    BY <1>1, <1>2, <1>3, <1>4, <1>5, <1>6, <1>7, <1>8, <1>9, <1>10, <1>11, <1>12, <1>13,
       <1>14, <1>15, <1>16, <1>17, <1>18, <1>19, <1>20, <1>21, <1>22, <1>23, <1>24, <1>25,
       <1>26, <1>27, <1>28, <1>29, <1>30, <1>31, <1>32, <1>33, <1>34, <1>35, <1>36, <1>37,
       <1>38, <1>39, <1>40, <1>41, <1>42, <1>43, <1>44, <1>45, <1>46, <1>47, <1>48, <1>49,
       <1>50, <1>51, <1>52
    DEF Next, BeginStep, WriteStep, InstallSteps, AgentStep, RollbackStep, RemovalStep

\* Whatever the step, the barrier keeps the runtime from running in an update.
LEMMA BarredStep ==
    ASSUME TypeOK, AskedFor, Places, Barred, [Next]_vars
    PROVE  Barred'
<1>0. Barred /\ barrier \in {"up", "down"}
    BY DEF TypeOK
<1> USE DEF Barred, BarrierOnlyInUpdate
<1>1. ASSUME NEW v \in Versions, RefuseUpdate(v)
      PROVE Barred'
    BY <1>1, <1>0 DEF RefuseUpdate, machine, NoOp, Now
<1>2. ASSUME NEW v \in Versions, NEW code \in Versions, NEW skip \in {"yes", "no"},
              BeginUpdate(v, code, skip)
      PROVE Barred'
    BY <1>2, <1>0 DEF BeginUpdate, Begin, NoOp, Now
<1>3. ASSUME NEW v \in Versions, NEW g \in Gens, NEW sel \in Choices, NEW skip \in {"yes", "no"},
              BeginInstall(v, g, sel, skip)
      PROVE Barred'
    BY <1>3, <1>0 DEF BeginInstall, Begin, NoOp, Now
<1>4. ASSUME NEW g \in Gens, NEW sel \in Choices, BeginImport(g, sel)
      PROVE Barred'
    BY <1>4, <1>0 DEF BeginImport, Begin, NoOp, Now
<1>5. ASSUME NEW g \in Gens, NEW sel \in Choices, NEW skip \in {"yes", "no"},
              BeginConfigure(g, sel, skip)
      PROVE Barred'
    BY <1>5, <1>0 DEF BeginConfigure, Begin, NoOp, Now
<1>6. ASSUME NEW a \in Agents, BeginDisconnect(a)
      PROVE Barred'
    BY <1>6, <1>0 DEF BeginDisconnect, Begin, NoOp, Now
<1>7. ASSUME NEW a \in Agents, NEW e \in {"enabled", "disabled"}, BeginConnect(a, e)
      PROVE Barred'
    BY <1>7, <1>0 DEF BeginConnect, Begin, NoOp, Now
<1>8. ASSUME NEW a \in Agents, NEW e \in {"enabled", "disabled"}, SetEnabled(a, e)
      PROVE Barred'
    BY <1>8, <1>0 DEF SetEnabled, NoOp, Now
<1>9. CASE BeginRepair
    BY <1>9, <1>0 DEF BeginRepair, Begin, NoOp, Now
<1>10. ASSUME NEW purge \in SUBSET {"data", "config"}, BeginUninstall(purge)
      PROVE Barred'
    BY <1>10, <1>0 DEF BeginUninstall, Begin, NoOp, Now
<1>11. CASE WriteSecrets
    BY <1>11, <1>0, WriteLeads DEF WriteSecrets, memory, history, End
<1>12. CASE WriteConfig
    BY <1>12, <1>0, WriteLeads DEF WriteConfig, memory, history, End
<1>13. CASE WriteProfiles
    BY <1>13, <1>0, WriteLeads DEF WriteProfiles, memory, history, End
<1>14. CASE WriteLocal
    BY <1>14, <1>0, WriteLeads DEF WriteLocal, memory, history, End
<1>15. CASE Migrate
    BY <1>15, <1>0, WriteLeads DEF Migrate, memory, history, End
<1>16. CASE Materialize
    BY <1>16, <1>0, WriteLeads DEF Materialize, memory, history, End
<1>17. CASE PersistProbe
    BY <1>17, <1>0, WriteLeads DEF PersistProbe, memory, history, End
<1>18. CASE Stop
    BY <1>18, <1>0 DEF Stop, Goto, memory, history, Places
<1>19. CASE Save
    BY <1>19, <1>0 DEF Save, Goto, history, Places
<1>20. ASSUME NEW b \in Bundles, Prepare(b)
      PROVE Barred'
    BY <1>20, <1>0 DEF Prepare, Goto, memory, history
<1>21. ASSUME NEW b \in Bundles, Commit(b)
      PROVE Barred'
    BY <1>21, <1>0 DEF Commit, Goto, memory, history
<1>22. CASE Backup
    BY <1>22, <1>0 DEF Backup, Goto, history
<1>23. CASE SwitchCurrent
    BY <1>23, <1>0 DEF SwitchCurrent, Goto, history
<1>24. CASE InstallBinLink
    BY <1>24, <1>0 DEF InstallBinLink, Goto, memory, history
<1>25. CASE PassDoctor
    BY <1>25, <1>0 DEF PassDoctor, Goto, history
<1>26. CASE CheckUpdate
    BY <1>26, <1>0 DEF CheckUpdate, End, memory, history
<1>27. ASSUME NEW a \in Agents, Connect(a)
      PROVE Barred'
    BY <1>27, <1>0 DEF Connect, Goto, history
<1>28. ASSUME NEW a \in Agents, Remove(a)
      PROVE Barred'
    BY <1>28, <1>0 DEF Remove, Goto, history
<1>29. ASSUME NEW a \in Agents, Undetected(a)
      PROVE Barred'
    BY <1>29, <1>0 DEF Undetected, End, history
<1>30. CASE AdapterInstall
    BY <1>30, <1>0, AdapterLeads DEF AdapterInstall, Goto
<1>31. CASE PersistSelection
    BY <1>31, <1>0 DEF PersistSelection, Goto, End, history
<1>32. CASE UndoConnect
    BY <1>32, <1>0 DEF UndoConnect, End, history
<1>33. CASE ConnectDone
    BY <1>33, <1>0 DEF ConnectDone, Goto, End, history, Places
<1>34. CASE Unpersist
    BY <1>34, <1>0 DEF Unpersist, End, memory, history
<1>35. CASE UndoLink
    BY <1>35, <1>0 DEF UndoLink, Goto, memory, history
<1>36. CASE UndoRelease
    BY <1>36, <1>0 DEF UndoRelease, Goto, End, memory, history
<1>37. CASE UndoDatabase
    BY <1>37, <1>0 DEF UndoDatabase, Goto, memory, history
<1>38. CASE UndoFiles
    BY <1>38, <1>0 DEF UndoFiles, Goto, End, memory, history
<1>39. CASE BackLink
    BY <1>39, <1>0 DEF BackLink, Goto, memory, history
<1>40. CASE BackFiles
    BY <1>40, <1>0 DEF BackFiles, Goto, memory, history
<1>41. CASE BackDatabase
    BY <1>41, <1>0 DEF BackDatabase, Goto, End, memory
<1>42. CASE BackRelease
    BY <1>42, <1>0 DEF BackRelease, End, memory, history
<1>43. CASE RollbackStops
    BY <1>43, <1>0 DEF RollbackStops, Lapse, Aborted, Goto, End, memory
<1>44. CASE ReleaseStays
    BY <1>44, <1>0 DEF ReleaseStays, Lapse, Goto, End, memory
<1>45. ASSUME NEW files \in SUBSET {"config", "profiles", "secrets", "local"},
             NEW old \in {inner.disk, outer.disk}, FilesStop(files, old)
      PROVE Barred'
    BY <1>45, <1>0 DEF FilesStop, Lapse, Aborted, Goto, End, memory
<1>46. CASE Unlink
    BY <1>46, <1>0 DEF Unlink, Goto, memory, history
<1>47. ASSUME NEW v \in Versions, Sweep(v)
      PROVE Barred'
    BY <1>47, <1>0 DEF Sweep, Goto, memory, history
<1>48. CASE Finish
    BY <1>48, <1>0 DEF Finish, End, memory
<1>49. CASE Fail
  <2>1. pc \in Steps /\ op' = op /\ runtime' = runtime /\ disturbed' = disturbed
    BY <1>49 DEF Fail, memory
  <2>2. \/ /\ pc' # "idle" /\ barrier' = barrier
           /\ op.kind = "update" /\ pc' # "stop" => pc # "stop"
        \/ /\ pc' = "idle" /\ barrier' = IF op.kind = "update" THEN "down" ELSE barrier
    BY <1>49, FailLeads DEF End, CommittedSteps, WriteSteps, AdapterSteps
  <2>3. pc # "idle"
    BY <2>1 DEF Steps, CommittedSteps, WriteSteps, AdapterSteps
  <2> QED
    BY <1>0, <2>1, <2>2, <2>3
<1>50. CASE Kill
    BY <1>50, <1>0 DEF Kill, machine, memory
<1>51. CASE Interrupt
  <2>1. disturbed \subseteq disturbed' /\ op' = op /\ runtime' = runtime
    BY <1>51 DEF Interrupt, memory
  <2>2. \/ /\ pc' = "undo_link" /\ pc \in CommittedSteps /\ barrier' = barrier
        \/ pc' = "idle" /\ barrier' = IF op.kind = "update" THEN "down" ELSE barrier
    BY <1>51 DEF Interrupt, End
  <2> QED
    BY <1>0, <2>1, <2>2 DEF CommittedSteps, WriteSteps
<1>52. CASE StartRuntime
    BY <1>52, <1>0 DEF StartRuntime, memory, history, Starting
<1>53. CASE RuntimeDies
    BY <1>53, <1>0 DEF RuntimeDies, memory, history
<1>54. CASE \/ StartRefused \/ Capture \/ UNCHANGED vars
            \/ \E a \in Agents : Edit(a)
    BY <1>54, <1>0 DEF StartRefused, memory, history, Capture, Edit, machine, vars
<1> HIDE DEF Barred, BarrierOnlyInUpdate
<1> QED
    BY <1>1, <1>2, <1>3, <1>4, <1>5, <1>6, <1>7, <1>8, <1>9, <1>10, <1>11, <1>12, <1>13,
       <1>14, <1>15, <1>16, <1>17, <1>18, <1>19, <1>20, <1>21, <1>22, <1>23, <1>24, <1>25,
       <1>26, <1>27, <1>28, <1>29, <1>30, <1>31, <1>32, <1>33, <1>34, <1>35, <1>36, <1>37,
       <1>38, <1>39, <1>40, <1>41, <1>42, <1>43, <1>44, <1>45, <1>46, <1>47, <1>48, <1>49,
       <1>50, <1>51, <1>52, <1>53, <1>54
    DEF Next, BeginStep, WriteStep, InstallSteps, AgentStep, RollbackStep, RemovalStep

-----------------------------------------------------------------------------
(* What an installation or update has written                               *)

\* Each file and each row is of the configuration asked for once it was written.
LEMMA WrittenStep ==
    ASSUME TypeOK, AskedFor, Places, Restorable, Barred, WrittenSoFar, [Next]_vars
    PROVE  WrittenSoFar'
<1>0. WrittenSoFar
    OBVIOUS
<1>a. disk \in Disks /\ db \in Databases
    BY DEF TypeOK
<1> USE DEF WrittenSoFar, WrittenSteps, Installing, Saving, CommittedSteps,
            WriteSteps, AdapterSteps, FirstSteps, ConnectSteps, UndoSteps, BackSteps
<1>1. ASSUME NEW v \in Versions, RefuseUpdate(v)
      PROVE WrittenSoFar'
    BY <1>1, <1>0 DEF RefuseUpdate, machine, NoOp, Now
<1>2. ASSUME NEW v \in Versions, NEW code \in Versions, NEW skip \in {"yes", "no"},
              BeginUpdate(v, code, skip)
      PROVE WrittenSoFar'
    BY <1>2, <1>0 DEF BeginUpdate, Begin, NoOp, Now
<1>3. ASSUME NEW v \in Versions, NEW g \in Gens, NEW sel \in Choices, NEW skip \in {"yes", "no"},
              BeginInstall(v, g, sel, skip)
      PROVE WrittenSoFar'
    BY <1>3, <1>0 DEF BeginInstall, Begin, NoOp, Now
<1>4. ASSUME NEW g \in Gens, NEW sel \in Choices, BeginImport(g, sel)
      PROVE WrittenSoFar'
    BY <1>4, <1>0 DEF BeginImport, Begin, NoOp, Now
<1>5. ASSUME NEW g \in Gens, NEW sel \in Choices, NEW skip \in {"yes", "no"},
              BeginConfigure(g, sel, skip)
      PROVE WrittenSoFar'
    BY <1>5, <1>0 DEF BeginConfigure, Begin, NoOp, Now
<1>6. ASSUME NEW a \in Agents, BeginDisconnect(a)
      PROVE WrittenSoFar'
    BY <1>6, <1>0 DEF BeginDisconnect, Begin, NoOp, Now
<1>7. ASSUME NEW a \in Agents, NEW e \in {"enabled", "disabled"}, BeginConnect(a, e)
      PROVE WrittenSoFar'
    BY <1>7, <1>0 DEF BeginConnect, Begin, NoOp, Now
<1>8. ASSUME NEW a \in Agents, NEW e \in {"enabled", "disabled"}, SetEnabled(a, e)
      PROVE WrittenSoFar'
    BY <1>8, <1>0 DEF SetEnabled, NoOp, Now
<1>9. CASE BeginRepair
    BY <1>9, <1>0 DEF BeginRepair, Begin, NoOp, Now
<1>10. ASSUME NEW purge \in SUBSET {"data", "config"}, BeginUninstall(purge)
      PROVE WrittenSoFar'
    BY <1>10, <1>0 DEF BeginUninstall, Begin, NoOp, Now
<1>11. CASE WriteSecrets
    BY <1>11, <1>0, <1>a, WriteLeads DEF WriteSecrets, memory, history, End, Disks
<1>12. CASE WriteConfig
    BY <1>12, <1>0, <1>a, WriteLeads DEF WriteConfig, memory, history, End, Disks
<1>13. CASE WriteProfiles
    BY <1>13, <1>0, <1>a, WriteLeads DEF WriteProfiles, memory, history, End, Disks
<1>14. CASE WriteLocal
    BY <1>14, <1>0, <1>a, WriteLeads DEF WriteLocal, memory, history, End, Disks,
                                         Places, LocalOf
<1>15. CASE Migrate
    BY <1>15, <1>0, <1>a, WriteLeads DEF Migrate, memory, history, End, Databases
<1>16. CASE Materialize
    BY <1>16, <1>0, <1>a, WriteLeads DEF Materialize, memory, history, End,
                                         Databases, Asked, ProfileOf
<1>17. CASE PersistProbe
    BY <1>17, <1>0, <1>a, WriteLeads DEF PersistProbe, memory, history, End,
                                         Databases, Asked, ProfileOf
<1>18. CASE Stop
    BY <1>18, <1>0 DEF Stop, Goto, memory, history
<1>19. CASE Save
    BY <1>19, <1>0 DEF Save, Goto, history
<1>20. ASSUME NEW b \in Bundles, Prepare(b)
      PROVE WrittenSoFar'
    BY <1>20, <1>0 DEF Prepare, Goto, memory, history
<1>21. ASSUME NEW b \in Bundles, Commit(b)
      PROVE WrittenSoFar'
    BY <1>21, <1>0 DEF Commit, Goto, memory, history
<1>22. CASE Backup
    BY <1>22, <1>0 DEF Backup, Goto, history
<1>23. CASE SwitchCurrent
    BY <1>23, <1>0 DEF SwitchCurrent, Goto, history, Places
<1>24. CASE InstallBinLink
    BY <1>24, <1>0 DEF InstallBinLink, Goto, memory, history, Places
<1>25. CASE PassDoctor
    BY <1>25, <1>0 DEF PassDoctor, Goto, history
<1>26. CASE CheckUpdate
    BY <1>26, <1>0 DEF CheckUpdate, End, memory, history
<1>27. ASSUME NEW a \in Agents, Connect(a)
      PROVE WrittenSoFar'
    BY <1>27, <1>0 DEF Connect, Goto, history
<1>28. ASSUME NEW a \in Agents, Remove(a)
      PROVE WrittenSoFar'
    BY <1>28, <1>0 DEF Remove, Goto, history
<1>29. ASSUME NEW a \in Agents, Undetected(a)
      PROVE WrittenSoFar'
    BY <1>29, <1>0 DEF Undetected, End, history
<1>30. CASE AdapterInstall
    BY <1>30, <1>0, AdapterLeads DEF AdapterInstall, Goto
<1>31. CASE PersistSelection
    BY <1>31, <1>0, <1>a DEF PersistSelection, Goto, End, history, Disks
<1>32. CASE UndoConnect
    BY <1>32, <1>0 DEF UndoConnect, End, history
<1>33. CASE ConnectDone
    BY <1>33, <1>0 DEF ConnectDone, Goto, End, history, Places
<1>34. CASE Unpersist
    BY <1>34, <1>0, <1>a DEF Unpersist, End, memory, history, Disks, Places
<1>35. CASE UndoLink
    BY <1>35, <1>0 DEF UndoLink, Goto, memory, history
<1>36. CASE UndoRelease
    BY <1>36, <1>0 DEF UndoRelease, Goto, End, memory, history
<1>37. CASE UndoDatabase
    BY <1>37, <1>0 DEF UndoDatabase, Goto, memory, history
<1>38. CASE UndoFiles
    BY <1>38, <1>0 DEF UndoFiles, Goto, End, memory, history
<1>39. CASE BackLink
    BY <1>39, <1>0 DEF BackLink, Goto, memory, history
<1>40. CASE BackFiles
    BY <1>40, <1>0 DEF BackFiles, Goto, memory, history
<1>41. CASE BackDatabase
    BY <1>41, <1>0 DEF BackDatabase, Goto, End, memory
<1>42. CASE BackRelease
    BY <1>42, <1>0 DEF BackRelease, End, memory, history
<1>43. CASE RollbackStops
    BY <1>43, <1>0 DEF RollbackStops, Lapse, Aborted, Goto, End, memory
<1>44. CASE ReleaseStays
    BY <1>44, <1>0 DEF ReleaseStays, Lapse, Goto, End, memory
<1>45. ASSUME NEW files \in SUBSET {"config", "profiles", "secrets", "local"},
             NEW old \in {inner.disk, outer.disk}, FilesStop(files, old)
      PROVE WrittenSoFar'
    BY <1>45, <1>0 DEF FilesStop, Lapse, Aborted, Goto, End, memory
<1>46. CASE Unlink
    BY <1>46, <1>0 DEF Unlink, Goto, memory, history
<1>47. ASSUME NEW v \in Versions, Sweep(v)
      PROVE WrittenSoFar'
    BY <1>47, <1>0 DEF Sweep, Goto, memory, history
<1>48. CASE Finish
    BY <1>48, <1>0 DEF Finish, End, memory
<1>49. CASE Fail
    BY <1>49, <1>0, FailLeads DEF Fail, memory, End, Steps
<1>50. CASE Kill
    BY <1>50, <1>0 DEF Kill, machine, memory
<1>51. CASE Interrupt
    BY <1>51, <1>0 DEF Interrupt, End, memory, Steps
<1>52. CASE StartRuntime
    BY <1>52, <1>0, <1>a DEF StartRuntime, memory, history, Cutover, Rewritten,
                             Databases
<1>53. CASE StartRefused
    BY <1>53, <1>0, <1>a DEF StartRefused, memory, history, Databases
<1>54. CASE RuntimeDies
    BY <1>54, <1>0, <1>a DEF RuntimeDies, memory, history, Databases
<1>55. CASE Capture
    BY <1>55, <1>0, <1>a DEF Capture, memory, Databases
<1>56. CASE \/ UNCHANGED vars
            \/ \E a \in Agents : Edit(a)
    BY <1>56, <1>0 DEF Edit, memory, machine, history, vars
<1> HIDE DEF WrittenSoFar, WrittenSteps, Installing, Saving, CommittedSteps, WriteSteps,
             AdapterSteps, FirstSteps, ConnectSteps, UndoSteps, BackSteps
<1> QED
    BY <1>1, <1>2, <1>3, <1>4, <1>5, <1>6, <1>7, <1>8, <1>9, <1>10, <1>11, <1>12, <1>13,
       <1>14, <1>15, <1>16, <1>17, <1>18, <1>19, <1>20, <1>21, <1>22, <1>23, <1>24, <1>25,
       <1>26, <1>27, <1>28, <1>29, <1>30, <1>31, <1>32, <1>33, <1>34, <1>35, <1>36, <1>37,
       <1>38, <1>39, <1>40, <1>41, <1>42, <1>43, <1>44, <1>45, <1>46, <1>47, <1>48, <1>49,
       <1>50, <1>51, <1>52, <1>53, <1>54, <1>55, <1>56
    DEF Next, BeginStep, WriteStep, InstallSteps, AgentStep, RollbackStep, RemovalStep

\* What an update has made ready stays so until the next operation.
LEMMA UpdatedStep ==
    ASSUME TypeOK, AskedFor, Places, Restorable, Barred, WrittenSoFar, Updated, [Next]_vars
    PROVE  Updated'
<1>0. Updated
    OBVIOUS
<1>a. disk \in Disks /\ db \in Databases
    BY DEF TypeOK
<1> USE DEF Updated
<1>1. ASSUME NEW v \in Versions, RefuseUpdate(v)
      PROVE Updated'
    BY <1>1, <1>0 DEF RefuseUpdate, machine, NoOp, Now
<1>2. ASSUME NEW v \in Versions, NEW code \in Versions, NEW skip \in {"yes", "no"},
              BeginUpdate(v, code, skip)
      PROVE Updated'
    BY <1>2, <1>0 DEF BeginUpdate, Begin, NoOp, Now
<1>3. ASSUME NEW v \in Versions, NEW g \in Gens, NEW sel \in Choices, NEW skip \in {"yes", "no"},
              BeginInstall(v, g, sel, skip)
      PROVE Updated'
    BY <1>3, <1>0 DEF BeginInstall, Begin, NoOp, Now
<1>4. ASSUME NEW g \in Gens, NEW sel \in Choices, BeginImport(g, sel)
      PROVE Updated'
    BY <1>4, <1>0 DEF BeginImport, Begin, NoOp, Now
<1>5. ASSUME NEW g \in Gens, NEW sel \in Choices, NEW skip \in {"yes", "no"},
              BeginConfigure(g, sel, skip)
      PROVE Updated'
    BY <1>5, <1>0 DEF BeginConfigure, Begin, NoOp, Now
<1>6. ASSUME NEW a \in Agents, BeginDisconnect(a)
      PROVE Updated'
    BY <1>6, <1>0 DEF BeginDisconnect, Begin, NoOp, Now
<1>7. ASSUME NEW a \in Agents, NEW e \in {"enabled", "disabled"}, BeginConnect(a, e)
      PROVE Updated'
    BY <1>7, <1>0 DEF BeginConnect, Begin, NoOp, Now
<1>8. ASSUME NEW a \in Agents, NEW e \in {"enabled", "disabled"}, SetEnabled(a, e)
      PROVE Updated'
    BY <1>8, <1>0 DEF SetEnabled, NoOp, Now
<1>9. CASE BeginRepair
    BY <1>9, <1>0 DEF BeginRepair, Begin, NoOp, Now
<1>10. ASSUME NEW purge \in SUBSET {"data", "config"}, BeginUninstall(purge)
      PROVE Updated'
    BY <1>10, <1>0 DEF BeginUninstall, Begin, NoOp, Now
<1>11. CASE WriteSecrets
    BY <1>11, <1>0, WriteLeads DEF WriteSecrets, memory, history, End
<1>12. CASE WriteConfig
    BY <1>12, <1>0, WriteLeads DEF WriteConfig, memory, history, End
<1>13. CASE WriteProfiles
    BY <1>13, <1>0, WriteLeads DEF WriteProfiles, memory, history, End, Installing
<1>14. CASE WriteLocal
    BY <1>14, <1>0, WriteLeads DEF WriteLocal, memory, history, End
<1>15. CASE Migrate
    BY <1>15, <1>0, WriteLeads DEF Migrate, memory, history, End
<1>16. CASE Materialize
    BY <1>16, <1>0, WriteLeads DEF Materialize, memory, history, End, Places
<1>17. CASE PersistProbe
    BY <1>17, <1>0, WriteLeads DEF PersistProbe, memory, history, End, Places
<1>18. CASE Stop
    BY <1>18, <1>0 DEF Stop, Goto, memory, history
<1>19. CASE Save
    BY <1>19, <1>0 DEF Save, Goto, history
<1>20. ASSUME NEW b \in Bundles, Prepare(b)
      PROVE Updated'
    BY <1>20, <1>0 DEF Prepare, Goto, memory, history
<1>21. ASSUME NEW b \in Bundles, Commit(b)
      PROVE Updated'
    BY <1>21, <1>0 DEF Commit, Goto, memory, history
<1>22. CASE Backup
    BY <1>22, <1>0 DEF Backup, Goto, history
<1>23. CASE SwitchCurrent
    BY <1>23, <1>0 DEF SwitchCurrent, Goto, history
<1>24. CASE InstallBinLink
    BY <1>24, <1>0 DEF InstallBinLink, Goto, memory, history
<1>25. CASE PassDoctor
    BY <1>25, <1>0 DEF PassDoctor, Goto, history
<1>26. CASE CheckUpdate
  <2>1. op.kind = "update" /\ current = op.ver
    BY <1>26 DEF CheckUpdate, Places, Restorable, Changed, Installing
  <2>2. /\ disk.config.gen = op.gen /\ disk.profiles = op.gen
        /\ disk.local = LocalOf(op.gen, op.ver) /\ db.profile = ProfileOf(op.gen, op.code)
        /\ op.skip = "no" => db.probed = ProfileOf(op.gen, op.code)
    BY <1>26, <2>1 DEF CheckUpdate, WrittenSoFar, WrittenSteps, Installing
  <2>3. op.skip \in {"yes", "no"} /\ (op.skip = "yes" => db.probed = db.profile)
    BY <1>26 DEF CheckUpdate, Ready, TypeOK, Requests
  <2>4. UpToDate(disk, db.profile, db.probed, current)
    BY <2>1, <2>2, <2>3 DEF UpToDate, LocalOf, ProfileOf
  <2> QED
    BY <1>26, <2>4 DEF CheckUpdate, End, memory
<1>27. ASSUME NEW a \in Agents, Connect(a)
      PROVE Updated'
    BY <1>27, <1>0 DEF Connect, Goto, history
<1>28. ASSUME NEW a \in Agents, Remove(a)
      PROVE Updated'
    BY <1>28, <1>0 DEF Remove, Goto, history
<1>29. ASSUME NEW a \in Agents, Undetected(a)
      PROVE Updated'
    BY <1>29, <1>0 DEF Undetected, End, history
<1>30. CASE AdapterInstall
    BY <1>30, <1>0, AdapterLeads DEF AdapterInstall, Goto
<1>31. CASE PersistSelection
    BY <1>31, <1>0 DEF PersistSelection, Goto, End, history
<1>32. CASE UndoConnect
    BY <1>32, <1>0 DEF UndoConnect, End, history
<1>33. CASE ConnectDone
    BY <1>33, <1>0 DEF ConnectDone, Goto, End, history
<1>34. CASE Unpersist
    BY <1>34, <1>0 DEF Unpersist, End, memory, history, Places
<1>35. CASE UndoLink
    BY <1>35, <1>0 DEF UndoLink, Goto, memory, history
<1>36. CASE UndoRelease
    BY <1>36, <1>0 DEF UndoRelease, Goto, End, memory, history
<1>37. CASE UndoDatabase
    BY <1>37, <1>0 DEF UndoDatabase, Goto, memory, history
<1>38. CASE UndoFiles
    BY <1>38, <1>0 DEF UndoFiles, Goto, End, memory, history
<1>39. CASE BackLink
    BY <1>39, <1>0 DEF BackLink, Goto, memory, history
<1>40. CASE BackFiles
    BY <1>40, <1>0 DEF BackFiles, Goto, memory, history
<1>41. CASE BackDatabase
    BY <1>41, <1>0 DEF BackDatabase, Goto, End, memory
<1>42. CASE BackRelease
    BY <1>42, <1>0 DEF BackRelease, End, memory, history
<1>43. CASE RollbackStops
    BY <1>43, <1>0 DEF RollbackStops, Lapse, Aborted, Goto, End, memory
<1>44. CASE ReleaseStays
    BY <1>44, <1>0 DEF ReleaseStays, Lapse, Goto, End, memory
<1>45. ASSUME NEW files \in SUBSET {"config", "profiles", "secrets", "local"},
             NEW old \in {inner.disk, outer.disk}, FilesStop(files, old)
      PROVE Updated'
    BY <1>45, <1>0 DEF FilesStop, Lapse, Aborted, Goto, End, memory
<1>46. CASE Unlink
    BY <1>46, <1>0 DEF Unlink, Goto, memory, history
<1>47. ASSUME NEW v \in Versions, Sweep(v)
      PROVE Updated'
    BY <1>47, <1>0 DEF Sweep, Goto, memory, history
<1>48. CASE Finish
    BY <1>48, <1>0 DEF Finish, End, memory, Places
<1>49. CASE Fail
    BY <1>49, <1>0, FailLeads DEF Fail, memory, End, Steps
<1>50. CASE Kill
    BY <1>50, <1>0 DEF Kill, machine, memory
<1>51. CASE Interrupt
    BY <1>51, <1>0 DEF Interrupt, End, memory, Steps
<1>52. CASE StartRuntime
    BY <1>52, <1>0, <1>a DEF StartRuntime, memory, history, Cutover, Rewritten,
                             Databases
<1>53. CASE StartRefused
    BY <1>53, <1>0, <1>a DEF StartRefused, memory, history, Databases
<1>54. CASE RuntimeDies
    BY <1>54, <1>0, <1>a DEF RuntimeDies, memory, history, Databases
<1>55. CASE Capture
    BY <1>55, <1>0, <1>a DEF Capture, memory, Databases
<1>56. CASE \/ UNCHANGED vars
            \/ \E a \in Agents : Edit(a)
    BY <1>56, <1>0 DEF Edit, memory, machine, history, vars
<1> HIDE DEF Updated
<1> QED
    BY <1>1, <1>2, <1>3, <1>4, <1>5, <1>6, <1>7, <1>8, <1>9, <1>10, <1>11, <1>12, <1>13,
       <1>14, <1>15, <1>16, <1>17, <1>18, <1>19, <1>20, <1>21, <1>22, <1>23, <1>24, <1>25,
       <1>26, <1>27, <1>28, <1>29, <1>30, <1>31, <1>32, <1>33, <1>34, <1>35, <1>36, <1>37,
       <1>38, <1>39, <1>40, <1>41, <1>42, <1>43, <1>44, <1>45, <1>46, <1>47, <1>48, <1>49,
       <1>50, <1>51, <1>52, <1>53, <1>54, <1>55, <1>56
    DEF Next, BeginStep, WriteStep, InstallSteps, AgentStep, RollbackStep, RemovalStep

-----------------------------------------------------------------------------
(* The schema that the release in use knows                                 *)

\* The release in use knows the schema, at the steps of each operation.
LEMMA SchemaKeptStep ==
    ASSUME TypeOK, AskedFor, Places, Linked, Restorable, Barred, WrittenSoFar, SchemaInv, [Next]_vars
    PROVE  (disturbed = {} => SchemaKept)'
<1>0. disturbed = {} => SchemaKept /\ SchemaSaved
    BY DEF SchemaInv
<1>a. /\ Schema \in [Versions -> Nat] /\ None \notin Versions /\ 0 \notin Gens
      /\ db \in Databases /\ outer.db \in Databases /\ db.schema \in Nat /\ outer.db.schema \in Nat
      /\ disk \in Disks /\ current \in Versions \cup {None} /\ releases \subseteq Versions
    BY InstallerAssumption DEF TypeOK, Snapshots, Databases
<1> USE DEF SchemaKept, Fit, Installing, Saving, CommittedSteps, WriteSteps,
            AdapterSteps, FirstSteps, ConnectSteps, UndoSteps, BackSteps
<1>1. ASSUME NEW v \in Versions, RefuseUpdate(v)
      PROVE (disturbed = {} => SchemaKept)'
    BY <1>1, <1>0, <1>a DEF RefuseUpdate, machine, NoOp, Now, Installed
<1>2. ASSUME NEW v \in Versions, NEW code \in Versions, NEW skip \in {"yes", "no"},
              BeginUpdate(v, code, skip)
      PROVE (disturbed = {} => SchemaKept)'
    BY <1>2, <1>0, <1>a DEF BeginUpdate, Begin, NoOp, Now, Installed
<1>3. ASSUME NEW v \in Versions, NEW g \in Gens, NEW sel \in Choices, NEW skip \in {"yes", "no"},
              BeginInstall(v, g, sel, skip)
      PROVE (disturbed = {} => SchemaKept)'
    BY <1>3, <1>0, <1>a DEF BeginInstall, Begin, NoOp, Now, Installed
<1>4. ASSUME NEW g \in Gens, NEW sel \in Choices, BeginImport(g, sel)
      PROVE (disturbed = {} => SchemaKept)'
    BY <1>4, <1>0, <1>a DEF BeginImport, Begin, NoOp, Now, Installed
<1>5. ASSUME NEW g \in Gens, NEW sel \in Choices, NEW skip \in {"yes", "no"},
              BeginConfigure(g, sel, skip)
      PROVE (disturbed = {} => SchemaKept)'
    BY <1>5, <1>0, <1>a DEF BeginConfigure, Begin, NoOp, Now, Installed
<1>6. ASSUME NEW a \in Agents, BeginDisconnect(a)
      PROVE (disturbed = {} => SchemaKept)'
    BY <1>6, <1>0, <1>a DEF BeginDisconnect, Begin, NoOp, Now, Installed
<1>7. ASSUME NEW a \in Agents, NEW e \in {"enabled", "disabled"}, BeginConnect(a, e)
      PROVE (disturbed = {} => SchemaKept)'
    BY <1>7, <1>0, <1>a DEF BeginConnect, Begin, NoOp, Now, Installed
<1>8. ASSUME NEW a \in Agents, NEW e \in {"enabled", "disabled"}, SetEnabled(a, e)
      PROVE (disturbed = {} => SchemaKept)'
  <2>1. disk'.config.gen = disk.config.gen /\ op'.kind = "enable" /\ pc' = "idle" /\ outcome' = "ok"
    BY <1>8, <1>a DEF SetEnabled, Disks, NoOp
  <2>2. pc = "idle" /\ db' = db /\ current' = current /\ disturbed' = disturbed
    BY <1>8 DEF SetEnabled
  <2> QED
    BY <1>0, <2>1, <2>2
<1>9. CASE BeginRepair
    BY <1>9, <1>0, <1>a DEF BeginRepair, Begin, NoOp, Now, Installed
<1>10. ASSUME NEW purge \in SUBSET {"data", "config"}, BeginUninstall(purge)
      PROVE (disturbed = {} => SchemaKept)'
    BY <1>10, <1>0, <1>a DEF BeginUninstall, Begin, NoOp, Now, Installed
<1>11. CASE WriteSecrets
    BY <1>11, <1>0, <1>a, WriteLeads DEF WriteSecrets, memory, history, End, Disks
<1>12. CASE WriteConfig
    BY <1>12, <1>0, <1>a, WriteLeads DEF WriteConfig, memory, history, End, Places,
                                         AskedFor, Disks
<1>13. CASE WriteProfiles
    BY <1>13, <1>0, <1>a, WriteLeads DEF WriteProfiles, memory, history, End, Disks
<1>14. CASE WriteLocal
    BY <1>14, <1>0, <1>a, WriteLeads DEF WriteLocal, memory, history, End, Disks
<1>15. CASE Migrate
    BY <1>15, <1>0, <1>a, WriteLeads DEF Migrate, memory, history, End, Databases,
                                         Places, AskedFor, Restorable, Changed
<1>16. CASE Materialize
    BY <1>16, <1>0, <1>a, WriteLeads DEF Materialize, memory, history, End,
                                         Databases, Places
<1>17. CASE PersistProbe
    BY <1>17, <1>0, <1>a, WriteLeads DEF PersistProbe, memory, history, End,
                                         Databases, Places
<1>18. CASE Stop
    BY <1>18, <1>0 DEF Stop, Goto, memory, history
<1>19. CASE Save
    BY <1>19, <1>0 DEF Save, Goto, history
<1>20. ASSUME NEW b \in Bundles, Prepare(b)
      PROVE (disturbed = {} => SchemaKept)'
    BY <1>20, <1>0 DEF Prepare, Goto, memory, history
<1>21. ASSUME NEW b \in Bundles, Commit(b)
      PROVE (disturbed = {} => SchemaKept)'
    BY <1>21, <1>0 DEF Commit, Goto, memory, history
<1>22. CASE Backup
    BY <1>22, <1>0 DEF Backup, Goto, history
<1>23. CASE SwitchCurrent
  <2>1. /\ Installing /\ pc = "switch" /\ pc' = "binlink" /\ current' = op.ver /\ op' = op
        /\ disturbed' = disturbed /\ UNCHANGED <<db, disk, before, outcome>>
    BY <1>23 DEF SwitchCurrent, Places, Goto, history
  <2>2. op.kind = "install" => op.code = op.ver
    BY <2>1 DEF AskedFor
  <2>3. op.ver \in Versions /\ op.code \in Versions
    BY <2>1 DEF AskedFor
  <2>4. Schema[op.ver] \in Nat /\ Schema[op.code] \in Nat
    BY <1>a, <2>3
  <2> QED
    BY <1>0, <1>a, <2>1, <2>2, <2>4
<1>24. CASE InstallBinLink
    BY <1>24, <1>0 DEF InstallBinLink, Goto, memory, history, Places
<1>25. CASE PassDoctor
    BY <1>25, <1>0 DEF PassDoctor, Goto, history
<1>26. CASE CheckUpdate
    BY <1>26, <1>0, <1>a DEF CheckUpdate, End, memory, history, Places, Restorable,
                             Changed
<1>27. ASSUME NEW a \in Agents, Connect(a)
      PROVE (disturbed = {} => SchemaKept)'
    BY <1>27, <1>0 DEF Connect, Goto, history
<1>28. ASSUME NEW a \in Agents, Remove(a)
      PROVE (disturbed = {} => SchemaKept)'
    BY <1>28, <1>0 DEF Remove, Goto, history
<1>29. ASSUME NEW a \in Agents, Undetected(a)
      PROVE (disturbed = {} => SchemaKept)'
    BY <1>29, <1>0 DEF Undetected, End, history
<1>30. CASE AdapterInstall
    BY <1>30, <1>0, AdapterLeads DEF AdapterInstall, Goto
<1>31. CASE PersistSelection
    BY <1>31, <1>0, <1>a DEF PersistSelection, Goto, End, history, Disks
<1>32. CASE UndoConnect
    BY <1>32, <1>0 DEF UndoConnect, End, history
<1>33. CASE ConnectDone
    BY <1>33, <1>0, <1>a DEF ConnectDone, Goto, End, history, Places, AskedFor,
                             WrittenSoFar, WrittenSteps, Restorable, Changed
<1>34. CASE Unpersist
    BY <1>34, <1>0, <1>a DEF Unpersist, End, memory, history, Disks, Places
<1>35. CASE UndoLink
    BY <1>35, <1>0, <1>a DEF UndoLink, Goto, memory, history, Places, Restorable,
                             Remembered, HeldInner, Held
<1>36. CASE UndoRelease
    BY <1>36, <1>0 DEF UndoRelease, Goto, End, memory, history, Restorable, Changed,
                       Places
<1>37. CASE UndoDatabase
    BY <1>37, <1>0 DEF UndoDatabase, Goto, memory, history, Places
<1>38. CASE UndoFiles
    BY <1>38, <1>0 DEF UndoFiles, Goto, End, memory, history, Places, Restorable,
                       Changed, Remembered, HeldInner, Held
<1>39. CASE BackLink
    BY <1>39, <1>0 DEF BackLink, Goto, memory, history, Places
<1>40. CASE BackFiles
    BY <1>40, <1>0 DEF BackFiles, Goto, memory, history, Places, Restorable,
                       Remembered, HeldOuter, Held
<1>41. CASE BackDatabase
    BY <1>41, <1>0 DEF BackDatabase, Goto, End, memory, Places, Restorable, Changed,
                       Remembered, GoingBack, HeldOuter, Held, SchemaSaved
<1>42. CASE BackRelease
  <2>1. /\ op.kind = "update" /\ pc = "back_release" /\ pc' = "idle" /\ op' = op /\ outcome' = "failed"
        /\ disturbed' = disturbed /\ UNCHANGED <<db, disk, before, current>>
    BY <1>42 DEF BackRelease, Places, End, memory, history
  <2>2. /\ current \in {op.ver, before.current}
        /\ disturbed = {} /\ returned = "no" => current = before.current
        /\ before.current # None => current = before.current
        /\ returned \in {"yes", "no"}
    BY <2>1 DEF Restorable, GoingBack, Lapses, TypeOK
  <2>3. op.ver \in Versions /\ op.code \in Versions
    BY <2>1 DEF AskedFor
  <2>4. Schema[op.ver] \in Nat /\ Schema[op.code] \in Nat
    BY <1>a, <2>3
  <2>5. disturbed = {} =>   /\ returned = "no" => Fit(db, before.current)
                            /\ returned = "yes" => Fit(outer.db, before.current) /\ db.schema = outer.db.schema
                            /\ returned = "yes" => outer.db.schema <= Schema[op.code]
                            /\ Schema[op.code] <= Schema[op.ver] /\ disk.config.gen # 0
    BY <1>0, <2>1 DEF SchemaSaved
  <2>6. disturbed = {} => Fit(db, current)
    BY <1>a, <2>2, <2>4, <2>5
  <2> QED
    BY <1>0, <2>1, <2>5, <2>6
<1>43. CASE RollbackStops
    BY <1>43, <1>0 DEF RollbackStops, Lapse, Aborted, Goto, End, memory
<1>44. CASE ReleaseStays
    BY <1>44, <1>0 DEF ReleaseStays, Lapse, Goto, End, memory
<1>45. ASSUME NEW files \in SUBSET {"config", "profiles", "secrets", "local"},
             NEW old \in {inner.disk, outer.disk}, FilesStop(files, old)
      PROVE (disturbed = {} => SchemaKept)'
    BY <1>45, <1>0 DEF FilesStop, Lapse, Aborted, Goto, End, memory
<1>46. CASE Unlink
    BY <1>46, <1>0 DEF Unlink, Goto, memory, history
<1>47. ASSUME NEW v \in Versions, Sweep(v)
      PROVE (disturbed = {} => SchemaKept)'
    BY <1>47, <1>0 DEF Sweep, Goto, memory, history
<1>48. CASE Finish
    BY <1>48, <1>0, <1>a DEF Finish, End, memory, Linked, Places
<1>49. CASE Fail
  <2>1. /\ pc \in Steps /\ op' = op /\ disturbed' = disturbed
        /\ UNCHANGED <<db, disk, before, current>>
    BY <1>49 DEF Fail, memory
  <2>2. pc # "idle" /\ pc' \notin {"materialize", "probe", "switch", "binlink", "doctor", "check"}
    BY <1>49, <2>1, FailLeads DEF End, Steps
  <2>3. CASE pc' # "idle"
    <3>1. outcome' = outcome
      BY <1>49, <2>3, FailLeads DEF End
    <3>2. pc' \in ConnectSteps => pc \in {"adapter", "persist"}
      BY <1>49, <2>3, FailLeads DEF End
    <3> QED
      BY <1>0, <2>1, <2>2, <2>3, <3>1, <3>2
  <2>4. CASE pc' = "idle"
    <3>1. outcome' = "failed" /\ (Installing => pc \in FirstSteps)
      BY <1>49, <2>1, <2>4, FailLeads DEF End, Steps, Places
    <3>2. Installing => current = before.current /\ (op.kind = "update" => Fit(db, before.current) \/ disturbed # {})
      BY <1>0, <3>1 DEF Restorable, Changed, SchemaSaved, OldSteps
    <3> QED
      BY <1>0, <2>1, <2>2, <2>4, <3>1, <3>2
  <2> QED
    BY <2>3, <2>4
<1>50. CASE Kill
    BY <1>50, <1>0 DEF Kill, machine, memory
<1>51. CASE Interrupt
    BY <1>51, <1>0 DEF Interrupt, End, memory, Steps
<1>52. CASE StartRuntime
    BY <1>52, <1>0, <1>a DEF StartRuntime, memory, history, Starting, Databases,
                             Cutover, Rewritten, Barred, Restorable, Changed, Places
<1>53. CASE StartRefused
    BY <1>53, <1>0, <1>a DEF StartRefused, memory, history, Starting, Databases,
                             Barred, Restorable, Changed, Places
<1>54. CASE RuntimeDies
    BY <1>54, <1>0, <1>a DEF RuntimeDies, memory, history, Databases
<1>55. CASE Capture
    BY <1>55, <1>0, <1>a DEF Capture, memory, Databases
<1>56. CASE \/ UNCHANGED vars
            \/ \E a \in Agents : Edit(a)
    BY <1>56, <1>0 DEF Edit, memory, machine, history, vars
<1> HIDE DEF SchemaKept, Fit, Installing, Saving, CommittedSteps, WriteSteps,
             AdapterSteps, FirstSteps, ConnectSteps, UndoSteps, BackSteps
<1> QED
    BY <1>1, <1>2, <1>3, <1>4, <1>5, <1>6, <1>7, <1>8, <1>9, <1>10, <1>11, <1>12, <1>13,
       <1>14, <1>15, <1>16, <1>17, <1>18, <1>19, <1>20, <1>21, <1>22, <1>23, <1>24, <1>25,
       <1>26, <1>27, <1>28, <1>29, <1>30, <1>31, <1>32, <1>33, <1>34, <1>35, <1>36, <1>37,
       <1>38, <1>39, <1>40, <1>41, <1>42, <1>43, <1>44, <1>45, <1>46, <1>47, <1>48, <1>49,
       <1>50, <1>51, <1>52, <1>53, <1>54, <1>55, <1>56
    DEF Next, BeginStep, WriteStep, InstallSteps, AgentStep, RollbackStep, RemovalStep

\* What the snapshot of an update puts back fits the release it puts back.
LEMMA SchemaSavedStep ==
    ASSUME TypeOK, AskedFor, Places, Linked, Restorable, Barred, WrittenSoFar, SchemaInv, [Next]_vars
    PROVE  (disturbed = {} => SchemaSaved)'
<1>0. disturbed = {} => SchemaKept /\ SchemaSaved
    BY DEF SchemaInv
<1>a. /\ Schema \in [Versions -> Nat] /\ None \notin Versions /\ 0 \notin Gens
      /\ db \in Databases /\ outer.db \in Databases /\ db.schema \in Nat /\ outer.db.schema \in Nat
      /\ disk \in Disks /\ current \in Versions \cup {None} /\ releases \subseteq Versions
    BY InstallerAssumption DEF TypeOK, Snapshots, Databases
<1> USE DEF SchemaSaved, Fit, OldSteps, NewSteps, Installing, Saving,
            CommittedSteps, WriteSteps, AdapterSteps, FirstSteps, ConnectSteps,
            UndoSteps, BackSteps
<1>1. ASSUME NEW v \in Versions, RefuseUpdate(v)
      PROVE (disturbed = {} => SchemaSaved)'
    BY <1>1, <1>0, <1>a DEF RefuseUpdate, machine, NoOp, Now, Installed, SchemaKept
<1>2. ASSUME NEW v \in Versions, NEW code \in Versions, NEW skip \in {"yes", "no"},
              BeginUpdate(v, code, skip)
      PROVE (disturbed = {} => SchemaSaved)'
    BY <1>2, <1>0, <1>a DEF BeginUpdate, Begin, NoOp, Now, Installed, SchemaKept
<1>3. ASSUME NEW v \in Versions, NEW g \in Gens, NEW sel \in Choices, NEW skip \in {"yes", "no"},
              BeginInstall(v, g, sel, skip)
      PROVE (disturbed = {} => SchemaSaved)'
    BY <1>3, <1>0, <1>a DEF BeginInstall, Begin, NoOp, Now, Installed, SchemaKept
<1>4. ASSUME NEW g \in Gens, NEW sel \in Choices, BeginImport(g, sel)
      PROVE (disturbed = {} => SchemaSaved)'
    BY <1>4, <1>0, <1>a DEF BeginImport, Begin, NoOp, Now, Installed, SchemaKept
<1>5. ASSUME NEW g \in Gens, NEW sel \in Choices, NEW skip \in {"yes", "no"},
              BeginConfigure(g, sel, skip)
      PROVE (disturbed = {} => SchemaSaved)'
    BY <1>5, <1>0, <1>a DEF BeginConfigure, Begin, NoOp, Now, Installed, SchemaKept
<1>6. ASSUME NEW a \in Agents, BeginDisconnect(a)
      PROVE (disturbed = {} => SchemaSaved)'
    BY <1>6, <1>0, <1>a DEF BeginDisconnect, Begin, NoOp, Now, Installed, SchemaKept
<1>7. ASSUME NEW a \in Agents, NEW e \in {"enabled", "disabled"}, BeginConnect(a, e)
      PROVE (disturbed = {} => SchemaSaved)'
    BY <1>7, <1>0, <1>a DEF BeginConnect, Begin, NoOp, Now, Installed, SchemaKept
<1>8. ASSUME NEW a \in Agents, NEW e \in {"enabled", "disabled"}, SetEnabled(a, e)
      PROVE (disturbed = {} => SchemaSaved)'
    BY <1>8, <1>0, <1>a DEF SetEnabled, NoOp, Now, Installed, SchemaKept
<1>9. CASE BeginRepair
    BY <1>9, <1>0, <1>a DEF BeginRepair, Begin, NoOp, Now, Installed, SchemaKept
<1>10. ASSUME NEW purge \in SUBSET {"data", "config"}, BeginUninstall(purge)
      PROVE (disturbed = {} => SchemaSaved)'
    BY <1>10, <1>0, <1>a DEF BeginUninstall, Begin, NoOp, Now, Installed, SchemaKept
<1>11. CASE WriteSecrets
    BY <1>11, <1>0, WriteLeads DEF WriteSecrets, memory, history, End
<1>12. CASE WriteConfig
    BY <1>12, <1>0, WriteLeads DEF WriteConfig, memory, history, End
<1>13. CASE WriteProfiles
    BY <1>13, <1>0, WriteLeads DEF WriteProfiles, memory, history, End
<1>14. CASE WriteLocal
    BY <1>14, <1>0, WriteLeads DEF WriteLocal, memory, history, End
<1>15. CASE Migrate
    BY <1>15, <1>0, <1>a, WriteLeads DEF Migrate, memory, history, End, Databases,
                                         Places, AskedFor, Migratable
<1>16. CASE Materialize
    BY <1>16, <1>0, <1>a, WriteLeads DEF Materialize, memory, history, End,
                                         Databases, Places
<1>17. CASE PersistProbe
    BY <1>17, <1>0, <1>a, WriteLeads DEF PersistProbe, memory, history, End,
                                         Databases, Places
<1>18. CASE Stop
    BY <1>18, <1>0 DEF Stop, Goto, memory, history, Places
<1>19. CASE Save
  <2>1. /\ pc = "save" /\ Saving /\ pc' = IF op.kind = "update" THEN "prepare" ELSE "secrets"
        /\ UNCHANGED <<op, db, before, inner, returned, disturbed>>
    BY <1>19 DEF Save, Goto, Places, history
  <2>2. outer'.db.schema = IF place = "default" THEN db.schema ELSE 0
    BY <1>19 DEF Save, Now, DefaultDatabase, NoDatabase
  <2>3. current = before.current
    BY <2>1 DEF Restorable, Changed
  <2>4. disturbed = {} => Fit(db, before.current)
    BY <1>0, <2>1, <2>3 DEF SchemaKept
  <2>5. before.current # None => Schema[before.current] \in Nat
    BY <1>a, <2>3
  <2>6. disturbed = {} => Fit(outer'.db, before.current) /\ outer'.db.schema <= db.schema
    BY <1>a, <2>2, <2>4, <2>5
  <2> QED
    BY <1>0, <2>1, <2>4, <2>6
<1>20. ASSUME NEW b \in Bundles, Prepare(b)
      PROVE (disturbed = {} => SchemaSaved)'
    BY <1>20, <1>0 DEF Prepare, Goto, memory, history
<1>21. ASSUME NEW b \in Bundles, Commit(b)
      PROVE (disturbed = {} => SchemaSaved)'
    BY <1>21, <1>0 DEF Commit, Goto, memory, history
<1>22. CASE Backup
    BY <1>22, <1>0 DEF Backup, Goto, history, Now
<1>23. CASE SwitchCurrent
    BY <1>23, <1>0 DEF SwitchCurrent, Goto, history
<1>24. CASE InstallBinLink
    BY <1>24, <1>0 DEF InstallBinLink, Goto, memory, history
<1>25. CASE PassDoctor
    BY <1>25, <1>0 DEF PassDoctor, Goto, history
<1>26. CASE CheckUpdate
    BY <1>26, <1>0 DEF CheckUpdate, End, memory, history
<1>27. ASSUME NEW a \in Agents, Connect(a)
      PROVE (disturbed = {} => SchemaSaved)'
    BY <1>27, <1>0 DEF Connect, Goto, history
<1>28. ASSUME NEW a \in Agents, Remove(a)
      PROVE (disturbed = {} => SchemaSaved)'
    BY <1>28, <1>0 DEF Remove, Goto, history
<1>29. ASSUME NEW a \in Agents, Undetected(a)
      PROVE (disturbed = {} => SchemaSaved)'
    BY <1>29, <1>0 DEF Undetected, End, history
<1>30. CASE AdapterInstall
    BY <1>30, <1>0, AdapterLeads DEF AdapterInstall, Goto
<1>31. CASE PersistSelection
    BY <1>31, <1>0 DEF PersistSelection, Goto, End, history
<1>32. CASE UndoConnect
    BY <1>32, <1>0 DEF UndoConnect, End, history
<1>33. CASE ConnectDone
    BY <1>33, <1>0 DEF ConnectDone, Goto, End, history
<1>34. CASE Unpersist
    BY <1>34, <1>0 DEF Unpersist, End, memory, history
<1>35. CASE UndoLink
    BY <1>35, <1>0 DEF UndoLink, Goto, memory, history
<1>36. CASE UndoRelease
    BY <1>36, <1>0 DEF UndoRelease, Goto, End, memory, history
<1>37. CASE UndoDatabase
    BY <1>37, <1>0 DEF UndoDatabase, Goto, memory, history
<1>38. CASE UndoFiles
    BY <1>38, <1>0 DEF UndoFiles, Goto, End, memory, history, Places, Restorable,
                       GoingBack
<1>39. CASE BackLink
    BY <1>39, <1>0 DEF BackLink, Goto, memory, history
<1>40. CASE BackFiles
    BY <1>40, <1>0 DEF BackFiles, Goto, memory, history
<1>41. CASE BackDatabase
  <2>1. /\ pc = "back_db" /\ Saving /\ pc' = IF op.kind = "update" THEN "back_release" ELSE "idle"
        /\ UNCHANGED <<op, outer, before, inner, returned>>
    BY <1>41 DEF BackDatabase, Goto, End, Places, memory
  <2>2. /\ db' = IF place = "default" THEN outer.db ELSE db
        /\ disturbed' = {} => disturbed = {} /\ (place = "default" \/ returned = "no")
    <3>1. place \in {"default", "named"} /\ returned \in {"yes", "no"}
      BY DEF TypeOK
    <3> QED
      BY <1>41, <3>1 DEF BackDatabase
  <2> QED
    BY <1>0, <2>1, <2>2
<1>42. CASE BackRelease
    BY <1>42, <1>0 DEF BackRelease, End, memory, history
<1>43. CASE RollbackStops
    BY <1>43, <1>0 DEF RollbackStops, Lapse, Aborted, Goto, End, memory
<1>44. CASE ReleaseStays
    BY <1>44, <1>0 DEF ReleaseStays, Lapse, Goto, End, memory
<1>45. ASSUME NEW files \in SUBSET {"config", "profiles", "secrets", "local"},
             NEW old \in {inner.disk, outer.disk}, FilesStop(files, old)
      PROVE (disturbed = {} => SchemaSaved)'
    BY <1>45, <1>0 DEF FilesStop, Lapse, Aborted, Goto, End, memory
<1>46. CASE Unlink
    BY <1>46, <1>0 DEF Unlink, Goto, memory, history
<1>47. ASSUME NEW v \in Versions, Sweep(v)
      PROVE (disturbed = {} => SchemaSaved)'
    BY <1>47, <1>0 DEF Sweep, Goto, memory, history
<1>48. CASE Finish
    BY <1>48, <1>0 DEF Finish, End, memory
<1>49. CASE Fail
  <2>1. UNCHANGED <<op, db, outer, before, inner, returned, disturbed>>
    BY <1>49 DEF Fail, memory
  <2>2. CASE op.kind = "update" /\ pc \in {"prepare", "commit", "check"} /\ pc' = "back_link"
    <3>1. returned = IF pc = "check" THEN "yes" ELSE "no"
      BY <2>2 DEF Restorable, GoingBack
    <3> QED
      BY <1>0, <2>1, <2>2, <3>1
  <2>3. CASE Installing /\ pc \in CommittedSteps /\ pc' = "undo_link"
    <3>1. inner = NoSnapshot <=> pc = "backup"
      BY <2>3 DEF Restorable, Remembered
    <3> QED
      BY <1>0, <2>1, <2>3, <3>1
  <2>4. CASE \/ op.kind = "configure" /\ pc \in WriteSteps /\ pc' = "back_files"
             \/ pc \in AdapterSteps /\ pc' = "disconnect"
             \/ pc' = "idle"
    BY <1>0, <2>1, <2>4
  <2> QED
    BY <1>49, <2>2, <2>3, <2>4, FailLeads DEF End
<1>50. CASE Kill
    BY <1>50, <1>0 DEF Kill, machine, memory
<1>51. CASE Interrupt
    BY <1>51, <1>0 DEF Interrupt, End, memory, Steps
<1>52. CASE StartRuntime
    BY <1>52, <1>0, <1>a DEF StartRuntime, memory, history, Starting, Databases,
                             Cutover, Rewritten, Barred, Places
<1>53. CASE StartRefused
    BY <1>53, <1>0, <1>a DEF StartRefused, memory, history, Starting, Databases,
                             Barred, Places
<1>54. CASE RuntimeDies
    BY <1>54, <1>0, <1>a DEF RuntimeDies, memory, history, Databases
<1>55. CASE Capture
    BY <1>55, <1>0, <1>a DEF Capture, memory, Databases
<1>56. CASE \/ UNCHANGED vars
            \/ \E a \in Agents : Edit(a)
    BY <1>56, <1>0 DEF Edit, memory, machine, history, vars
<1> HIDE DEF SchemaSaved, Fit, OldSteps, NewSteps, Installing, Saving, CommittedSteps,
             WriteSteps, AdapterSteps, FirstSteps, ConnectSteps, UndoSteps, BackSteps
<1> QED
    BY <1>1, <1>2, <1>3, <1>4, <1>5, <1>6, <1>7, <1>8, <1>9, <1>10, <1>11, <1>12, <1>13,
       <1>14, <1>15, <1>16, <1>17, <1>18, <1>19, <1>20, <1>21, <1>22, <1>23, <1>24, <1>25,
       <1>26, <1>27, <1>28, <1>29, <1>30, <1>31, <1>32, <1>33, <1>34, <1>35, <1>36, <1>37,
       <1>38, <1>39, <1>40, <1>41, <1>42, <1>43, <1>44, <1>45, <1>46, <1>47, <1>48, <1>49,
       <1>50, <1>51, <1>52, <1>53, <1>54, <1>55, <1>56
    DEF Next, BeginStep, WriteStep, InstallSteps, AgentStep, RollbackStep, RemovalStep

LEMMA SchemaStep ==
    ASSUME TypeOK, AskedFor, Places, Linked, Restorable, Barred, WrittenSoFar, SchemaInv, [Next]_vars
    PROVE  SchemaInv'
BY SchemaKeptStep, SchemaSavedStep DEF SchemaInv

-----------------------------------------------------------------------------
(* The cutover of the payloads                                              *)

\* A migration forward keeps a database as it is marked.
LEMMA MarkedGrows ==
    ASSUME NEW d \in Databases, NEW e \in Databases, Marked(d), d.schema <= e.schema,
           e.marker = d.marker, e.legacy \subseteq d.legacy
    PROVE  Marked(e)
<1> SUFFICES ASSUME e.marker = "yes"
             PROVE  e.legacy = {} /\ \E v \in Reformed : Schema[v] <= e.schema
    BY DEF Marked
<1>1. PICK v \in Reformed : d.legacy = {} /\ Schema[v] <= d.schema
    BY DEF Marked
<1>2. Schema[v] \in Nat /\ d.schema \in Nat /\ e.schema \in Nat
    BY <1>1, InstallerAssumption DEF Databases
<1> QED
    BY <1>1, <1>2

\* A release that writes the former contract does not know the schema of a
\* database with the marker.
LEMMA MarkedNeedsReformed ==
    ASSUME NEW d \in Databases, Marked(d), NEW v \in Versions, v \notin Reformed,
           d.schema <= Schema[v]
    PROVE  d.marker = "no"
<1> SUFFICES ASSUME d.marker = "yes"
             PROVE  FALSE
    BY DEF Databases
<1>1. PICK r \in Reformed : Schema[r] <= d.schema
    BY DEF Marked
<1>2. Schema[v] < Schema[r]
    BY <1>1, InstallerAssumption
<1>3. Schema[v] \in Nat /\ Schema[r] \in Nat /\ d.schema \in Nat
    BY <1>1, InstallerAssumption DEF Databases
<1> QED
    BY <1>1, <1>2, <1>3

\* The marker stays true over migrations, rollbacks and starts of any release.
LEMMA CutStep ==
    ASSUME TypeOK, AskedFor, Places, Restorable, Cut, [Next]_vars
    PROVE  Cut'
<1>0. /\ Cut /\ db \in Databases /\ NoDatabase \in Databases
      /\ NoSnapshot.db = NoDatabase /\ NoDatabase.marker = "no" /\ Now.db = db
      /\ pc \in {"stop", "save", "backup"} => inner = NoSnapshot
      /\ \A d \in {db, inner.db, outer.db} : d.marker \in {"yes", "no"}
      /\ [Now EXCEPT !.db = DefaultDatabase].db \in {db, NoDatabase}
    BY Constants DEF DefaultDatabase, TypeOK, Snapshots, Databases, NoSnapshot,
                     NoDatabase, Now, Restorable, Remembered, FirstSteps
<1>a. (db \in Databases)'
    BY DbStep
<1> USE DEF Cut
<1>1. ASSUME NEW v \in Versions, RefuseUpdate(v)
      PROVE Cut'
    BY <1>1, <1>0 DEF RefuseUpdate, machine, NoOp, Marked, Later
<1>2. ASSUME NEW v \in Versions, NEW code \in Versions, NEW skip \in {"yes", "no"},
              BeginUpdate(v, code, skip)
      PROVE Cut'
    BY <1>2, <1>0 DEF BeginUpdate, Begin, NoOp, Marked, Later
<1>3. ASSUME NEW v \in Versions, NEW g \in Gens, NEW sel \in Choices, NEW skip \in {"yes", "no"},
              BeginInstall(v, g, sel, skip)
      PROVE Cut'
    BY <1>3, <1>0 DEF BeginInstall, Begin, NoOp, Marked, Later
<1>4. ASSUME NEW g \in Gens, NEW sel \in Choices, BeginImport(g, sel)
      PROVE Cut'
    BY <1>4, <1>0 DEF BeginImport, Begin, NoOp, Marked, Later
<1>5. ASSUME NEW g \in Gens, NEW sel \in Choices, NEW skip \in {"yes", "no"},
              BeginConfigure(g, sel, skip)
      PROVE Cut'
    BY <1>5, <1>0 DEF BeginConfigure, Begin, NoOp, Marked, Later
<1>6. ASSUME NEW a \in Agents, BeginDisconnect(a)
      PROVE Cut'
    BY <1>6, <1>0 DEF BeginDisconnect, Begin, NoOp, Marked, Later
<1>7. ASSUME NEW a \in Agents, NEW e \in {"enabled", "disabled"}, BeginConnect(a, e)
      PROVE Cut'
    BY <1>7, <1>0 DEF BeginConnect, Begin, NoOp, Marked, Later
<1>8. ASSUME NEW a \in Agents, NEW e \in {"enabled", "disabled"}, SetEnabled(a, e)
      PROVE Cut'
    BY <1>8, <1>0 DEF SetEnabled, NoOp, Marked, Later
<1>9. CASE BeginRepair
    BY <1>9, <1>0 DEF BeginRepair, Begin, NoOp, Marked, Later
<1>10. ASSUME NEW purge \in SUBSET {"data", "config"}, BeginUninstall(purge)
      PROVE Cut'
    BY <1>10, <1>0 DEF BeginUninstall, Begin, NoOp, Marked, Later
<1>11. CASE WriteSecrets
    BY <1>11, <1>0, WriteLeads DEF WriteSecrets, memory, history, End
<1>12. CASE WriteConfig
    BY <1>12, <1>0, WriteLeads DEF WriteConfig, memory, history, End
<1>13. CASE WriteProfiles
    BY <1>13, <1>0, WriteLeads DEF WriteProfiles, memory, history, End
<1>14. CASE WriteLocal
    BY <1>14, <1>0, WriteLeads DEF WriteLocal, memory, history, End
<1>15. CASE Migrate
  <2>1. /\ db.schema <= Schema[op.code] /\ pc' # "back_release" /\ pc = "migrate"
        /\ UNCHANGED <<inner, outer, runtime>>
    BY <1>15, WriteLeads DEF Migrate, Migratable, memory, End
  <2>2. db'.schema = Schema[op.code] /\ db'.marker = db.marker /\ db'.legacy = db.legacy
    BY <1>15, <1>0 DEF Migrate, Databases
  <2>3. Marked(db')
    BY <1>0, <1>a, <2>1, <2>2, MarkedGrows
  <2> QED
    BY <1>0, <2>1, <2>2, <2>3 DEF Later
<1>16. CASE Materialize
    BY <1>16, <1>0, WriteLeads DEF Materialize, memory, history, End, Databases,
                                   Marked, Later
<1>17. CASE PersistProbe
    BY <1>17, <1>0, WriteLeads DEF PersistProbe, memory, history, End, Databases,
                                   Marked, Later
<1>18. CASE Stop
    BY <1>18, <1>0 DEF Stop, Goto, memory, history
<1>19. CASE Save
    BY <1>19, <1>0 DEF Save, Goto, history, Later, Marked
<1>20. ASSUME NEW b \in Bundles, Prepare(b)
      PROVE Cut'
    BY <1>20, <1>0 DEF Prepare, Goto, memory, history
<1>21. ASSUME NEW b \in Bundles, Commit(b)
      PROVE Cut'
    BY <1>21, <1>0 DEF Commit, Goto, memory, history
<1>22. CASE Backup
    BY <1>22, <1>0 DEF Backup, Goto, history, Later
<1>23. CASE SwitchCurrent
    BY <1>23, <1>0 DEF SwitchCurrent, Goto, history
<1>24. CASE InstallBinLink
    BY <1>24, <1>0 DEF InstallBinLink, Goto, memory, history
<1>25. CASE PassDoctor
    BY <1>25, <1>0 DEF PassDoctor, Goto, history
<1>26. CASE CheckUpdate
    BY <1>26, <1>0 DEF CheckUpdate, End, memory, history
<1>27. ASSUME NEW a \in Agents, Connect(a)
      PROVE Cut'
    BY <1>27, <1>0 DEF Connect, Goto, history
<1>28. ASSUME NEW a \in Agents, Remove(a)
      PROVE Cut'
    BY <1>28, <1>0 DEF Remove, Goto, history
<1>29. ASSUME NEW a \in Agents, Undetected(a)
      PROVE Cut'
    BY <1>29, <1>0 DEF Undetected, End, history
<1>30. CASE AdapterInstall
    BY <1>30, <1>0, AdapterLeads DEF AdapterInstall, Goto
<1>31. CASE PersistSelection
    BY <1>31, <1>0 DEF PersistSelection, Goto, End, history
<1>32. CASE UndoConnect
    BY <1>32, <1>0 DEF UndoConnect, End, history
<1>33. CASE ConnectDone
    BY <1>33, <1>0 DEF ConnectDone, Goto, End, history
<1>34. CASE Unpersist
    BY <1>34, <1>0 DEF Unpersist, End, memory, history
<1>35. CASE UndoLink
    BY <1>35, <1>0 DEF UndoLink, Goto, memory, history
<1>36. CASE UndoRelease
    BY <1>36, <1>0 DEF UndoRelease, Goto, End, memory, history
<1>37. CASE UndoDatabase
    BY <1>37, <1>0 DEF UndoDatabase, Goto, memory, history, Later
<1>38. CASE UndoFiles
    BY <1>38, <1>0 DEF UndoFiles, Goto, End, memory, history
<1>39. CASE BackLink
    BY <1>39, <1>0 DEF BackLink, Goto, memory, history
<1>40. CASE BackFiles
    BY <1>40, <1>0 DEF BackFiles, Goto, memory, history
<1>41. CASE BackDatabase
    BY <1>41, <1>0 DEF BackDatabase, Goto, End, memory, Later
<1>42. CASE BackRelease
    BY <1>42, <1>0 DEF BackRelease, End, memory, history
<1>43. CASE RollbackStops
    BY <1>43, <1>0 DEF RollbackStops, Lapse, Aborted, Goto, End, memory
<1>44. CASE ReleaseStays
    BY <1>44, <1>0 DEF ReleaseStays, Lapse, Goto, End, memory
<1>45. ASSUME NEW files \in SUBSET {"config", "profiles", "secrets", "local"},
             NEW old \in {inner.disk, outer.disk}, FilesStop(files, old)
      PROVE Cut'
    BY <1>45, <1>0 DEF FilesStop, Lapse, Aborted, Goto, End, memory
<1>46. CASE Unlink
    BY <1>46, <1>0 DEF Unlink, Goto, memory, history
<1>47. ASSUME NEW v \in Versions, Sweep(v)
      PROVE Cut'
    BY <1>47, <1>0 DEF Sweep, Goto, memory, history
<1>48. CASE Finish
    BY <1>48, <1>0 DEF Finish, End, memory, Marked, Later
<1>49. CASE Fail
    BY <1>49, <1>0, FailLeads DEF Fail, memory, End, Steps, CommittedSteps,
                                  WriteSteps, AdapterSteps
<1>50. CASE Kill
    BY <1>50, <1>0 DEF Kill, machine, memory
<1>51. CASE Interrupt
    BY <1>51, <1>0 DEF Interrupt, End, memory, Steps, CommittedSteps, WriteSteps,
                       AdapterSteps
<1>52. CASE StartRuntime
  <2>1. /\ current \in Versions /\ runtime' = current /\ db.schema <= Schema[current]
        /\ UNCHANGED <<pc, inner, outer>>
    BY <1>52 DEF StartRuntime, Starting, TypeOK, memory
  <2>2. db'.schema = Schema[current]
    BY <1>52, <1>0 DEF StartRuntime, Databases, Cutover, Rewritten
  <2>3. CASE CutoverDue
    <3>1. db'.marker = "yes" /\ db'.legacy = {} /\ current \in Reformed
      BY <1>52, <1>0, <2>3 DEF StartRuntime, CutoverDue, Cutover, Rewritten, Databases
    <3>2. Marked(db')
      BY <1>0, <2>2, <3>1, InstallerAssumption DEF Marked
    <3> QED
      BY <1>0, <2>1, <3>1, <3>2 DEF Later
  <2>4. CASE ~CutoverDue
    <3>1. db'.marker = db.marker /\ db'.legacy = db.legacy
      BY <1>52, <1>0, <2>4 DEF StartRuntime, Databases
    <3>2. Marked(db')
      BY <1>0, <1>a, <2>1, <2>2, <3>1, MarkedGrows
    <3>3. current \notin Reformed => db.marker = "no"
      BY <1>0, <2>1, MarkedNeedsReformed
    <3> QED
      BY <1>0, <2>1, <3>1, <3>2, <3>3 DEF Later
  <2> QED
    BY <2>3, <2>4
<1>53. CASE StartRefused
  <2>1. /\ current \in Versions /\ db.schema <= Schema[current]
        /\ UNCHANGED <<pc, inner, outer, runtime>>
    BY <1>53 DEF StartRefused, Starting, TypeOK, memory
  <2>2. db'.schema = Schema[current] /\ db'.marker = db.marker /\ db'.legacy = db.legacy
    BY <1>53, <1>0 DEF StartRefused, Databases
  <2>3. Marked(db')
    BY <1>0, <1>a, <2>1, <2>2, MarkedGrows
  <2> QED
    BY <1>0, <2>1, <2>2, <2>3 DEF Later
<1>54. CASE RuntimeDies
    BY <1>54, <1>0 DEF RuntimeDies, memory, history, Databases, Marked, Later
<1>55. CASE Capture
    BY <1>55, <1>0 DEF Capture, memory, Databases, Marked, Later
<1>56. CASE \/ UNCHANGED vars
            \/ \E a \in Agents : Edit(a)
    BY <1>56, <1>0 DEF Edit, memory, machine, history, vars
<1> HIDE DEF Cut
<1> QED
    BY <1>1, <1>2, <1>3, <1>4, <1>5, <1>6, <1>7, <1>8, <1>9, <1>10, <1>11, <1>12, <1>13,
       <1>14, <1>15, <1>16, <1>17, <1>18, <1>19, <1>20, <1>21, <1>22, <1>23, <1>24, <1>25,
       <1>26, <1>27, <1>28, <1>29, <1>30, <1>31, <1>32, <1>33, <1>34, <1>35, <1>36, <1>37,
       <1>38, <1>39, <1>40, <1>41, <1>42, <1>43, <1>44, <1>45, <1>46, <1>47, <1>48, <1>49,
       <1>50, <1>51, <1>52, <1>53, <1>54, <1>55, <1>56
    DEF Next, BeginStep, WriteStep, InstallSteps, AgentStep, RollbackStep, RemovalStep

-----------------------------------------------------------------------------
(* The rounds that an update keeps                                          *)

\* The snapshots of an update have every round, since nothing captures meanwhile.
LEMMA RoundsStep ==
    ASSUME TypeOK, AskedFor, Places, Restorable, Barred, RoundsKept, [Next]_vars
    PROVE  RoundsKept'
<1>0. /\ RoundsKept /\ db \in Databases /\ Now.db = db
      /\ place = "default" => [Now EXCEPT !.db = DefaultDatabase].db = db
      /\ pc \in {"stop", "save", "backup"} => inner = NoSnapshot
      /\ pc \notin {"idle", "stop"} /\ op.kind = "update" => runtime = None
    BY DEF TypeOK, Now, DefaultDatabase, Restorable, Remembered, FirstSteps, Barred
<1> USE DEF RoundsKept
<1>1. ASSUME NEW v \in Versions, RefuseUpdate(v)
      PROVE RoundsKept'
    BY <1>1, <1>0 DEF RefuseUpdate, machine, NoOp
<1>2. ASSUME NEW v \in Versions, NEW code \in Versions, NEW skip \in {"yes", "no"},
              BeginUpdate(v, code, skip)
      PROVE RoundsKept'
    BY <1>2, <1>0 DEF BeginUpdate, Begin, NoOp
<1>3. ASSUME NEW v \in Versions, NEW g \in Gens, NEW sel \in Choices, NEW skip \in {"yes", "no"},
              BeginInstall(v, g, sel, skip)
      PROVE RoundsKept'
    BY <1>3, <1>0 DEF BeginInstall, Begin, NoOp
<1>4. ASSUME NEW g \in Gens, NEW sel \in Choices, BeginImport(g, sel)
      PROVE RoundsKept'
    BY <1>4, <1>0 DEF BeginImport, Begin, NoOp
<1>5. ASSUME NEW g \in Gens, NEW sel \in Choices, NEW skip \in {"yes", "no"},
              BeginConfigure(g, sel, skip)
      PROVE RoundsKept'
    BY <1>5, <1>0 DEF BeginConfigure, Begin, NoOp
<1>6. ASSUME NEW a \in Agents, BeginDisconnect(a)
      PROVE RoundsKept'
    BY <1>6, <1>0 DEF BeginDisconnect, Begin, NoOp
<1>7. ASSUME NEW a \in Agents, NEW e \in {"enabled", "disabled"}, BeginConnect(a, e)
      PROVE RoundsKept'
    BY <1>7, <1>0 DEF BeginConnect, Begin, NoOp
<1>8. ASSUME NEW a \in Agents, NEW e \in {"enabled", "disabled"}, SetEnabled(a, e)
      PROVE RoundsKept'
    BY <1>8, <1>0 DEF SetEnabled, NoOp
<1>9. CASE BeginRepair
    BY <1>9, <1>0 DEF BeginRepair, Begin, NoOp
<1>10. ASSUME NEW purge \in SUBSET {"data", "config"}, BeginUninstall(purge)
      PROVE RoundsKept'
    BY <1>10, <1>0 DEF BeginUninstall, Begin, NoOp
<1>11. CASE WriteSecrets
    BY <1>11, <1>0, WriteLeads DEF WriteSecrets, memory, history, End
<1>12. CASE WriteConfig
    BY <1>12, <1>0, WriteLeads DEF WriteConfig, memory, history, End
<1>13. CASE WriteProfiles
    BY <1>13, <1>0, WriteLeads DEF WriteProfiles, memory, history, End
<1>14. CASE WriteLocal
    BY <1>14, <1>0, WriteLeads DEF WriteLocal, memory, history, End
<1>15. CASE Migrate
    BY <1>15, <1>0, WriteLeads DEF Migrate, memory, history, End, Databases
<1>16. CASE Materialize
    BY <1>16, <1>0, WriteLeads DEF Materialize, memory, history, End, Databases
<1>17. CASE PersistProbe
    BY <1>17, <1>0, WriteLeads DEF PersistProbe, memory, history, End, Databases
<1>18. CASE Stop
    BY <1>18, <1>0 DEF Stop, Goto, memory, history
<1>19. CASE Save
    BY <1>19, <1>0 DEF Save, Goto, history
<1>20. ASSUME NEW b \in Bundles, Prepare(b)
      PROVE RoundsKept'
    BY <1>20, <1>0 DEF Prepare, Goto, memory, history
<1>21. ASSUME NEW b \in Bundles, Commit(b)
      PROVE RoundsKept'
    BY <1>21, <1>0 DEF Commit, Goto, memory, history
<1>22. CASE Backup
    BY <1>22, <1>0 DEF Backup, Goto, history
<1>23. CASE SwitchCurrent
    BY <1>23, <1>0 DEF SwitchCurrent, Goto, history
<1>24. CASE InstallBinLink
    BY <1>24, <1>0 DEF InstallBinLink, Goto, memory, history
<1>25. CASE PassDoctor
    BY <1>25, <1>0 DEF PassDoctor, Goto, history
<1>26. CASE CheckUpdate
    BY <1>26, <1>0 DEF CheckUpdate, End, memory, history
<1>27. ASSUME NEW a \in Agents, Connect(a)
      PROVE RoundsKept'
    BY <1>27, <1>0 DEF Connect, Goto, history
<1>28. ASSUME NEW a \in Agents, Remove(a)
      PROVE RoundsKept'
    BY <1>28, <1>0 DEF Remove, Goto, history
<1>29. ASSUME NEW a \in Agents, Undetected(a)
      PROVE RoundsKept'
    BY <1>29, <1>0 DEF Undetected, End, history
<1>30. CASE AdapterInstall
    BY <1>30, <1>0, AdapterLeads DEF AdapterInstall, Goto
<1>31. CASE PersistSelection
    BY <1>31, <1>0 DEF PersistSelection, Goto, End, history
<1>32. CASE UndoConnect
    BY <1>32, <1>0 DEF UndoConnect, End, history
<1>33. CASE ConnectDone
    BY <1>33, <1>0 DEF ConnectDone, Goto, End, history
<1>34. CASE Unpersist
    BY <1>34, <1>0 DEF Unpersist, End, memory, history
<1>35. CASE UndoLink
    BY <1>35, <1>0 DEF UndoLink, Goto, memory, history
<1>36. CASE UndoRelease
    BY <1>36, <1>0 DEF UndoRelease, Goto, End, memory, history
<1>37. CASE UndoDatabase
    BY <1>37, <1>0 DEF UndoDatabase, Goto, memory, history
<1>38. CASE UndoFiles
    BY <1>38, <1>0 DEF UndoFiles, Goto, End, memory, history
<1>39. CASE BackLink
    BY <1>39, <1>0 DEF BackLink, Goto, memory, history
<1>40. CASE BackFiles
    BY <1>40, <1>0 DEF BackFiles, Goto, memory, history
<1>41. CASE BackDatabase
    BY <1>41, <1>0 DEF BackDatabase, Goto, End, memory
<1>42. CASE BackRelease
    BY <1>42, <1>0 DEF BackRelease, End, memory, history
<1>43. CASE RollbackStops
    BY <1>43, <1>0 DEF RollbackStops, Lapse, Aborted, Goto, End, memory
<1>44. CASE ReleaseStays
    BY <1>44, <1>0 DEF ReleaseStays, Lapse, Goto, End, memory
<1>45. ASSUME NEW files \in SUBSET {"config", "profiles", "secrets", "local"},
             NEW old \in {inner.disk, outer.disk}, FilesStop(files, old)
      PROVE RoundsKept'
    BY <1>45, <1>0 DEF FilesStop, Lapse, Aborted, Goto, End, memory
<1>46. CASE Unlink
    BY <1>46, <1>0 DEF Unlink, Goto, memory, history
<1>47. ASSUME NEW v \in Versions, Sweep(v)
      PROVE RoundsKept'
    BY <1>47, <1>0 DEF Sweep, Goto, memory, history
<1>48. CASE Finish
    BY <1>48, <1>0 DEF Finish, End, memory
<1>49. CASE Fail
    BY <1>49, <1>0, FailLeads DEF Fail, memory, End, Steps, CommittedSteps,
                                  WriteSteps, AdapterSteps
<1>50. CASE Kill
    BY <1>50, <1>0 DEF Kill, machine, memory
<1>51. CASE Interrupt
    BY <1>51, <1>0 DEF Interrupt, End, memory, Steps, CommittedSteps, WriteSteps,
                       AdapterSteps
<1>52. CASE StartRuntime
    BY <1>52, <1>0 DEF StartRuntime, memory, history, Databases, Cutover, Rewritten
<1>53. CASE StartRefused
    BY <1>53, <1>0 DEF StartRefused, memory, history, Databases
<1>54. CASE RuntimeDies
    BY <1>54, <1>0 DEF RuntimeDies, memory, history, Databases
<1>55. CASE Capture
    BY <1>55, <1>0 DEF Capture, memory, Databases
<1>56. CASE \/ UNCHANGED vars
            \/ \E a \in Agents : Edit(a)
    BY <1>56, <1>0 DEF Edit, memory, machine, history, vars
<1> HIDE DEF RoundsKept
<1> QED
    BY <1>1, <1>2, <1>3, <1>4, <1>5, <1>6, <1>7, <1>8, <1>9, <1>10, <1>11, <1>12, <1>13,
       <1>14, <1>15, <1>16, <1>17, <1>18, <1>19, <1>20, <1>21, <1>22, <1>23, <1>24, <1>25,
       <1>26, <1>27, <1>28, <1>29, <1>30, <1>31, <1>32, <1>33, <1>34, <1>35, <1>36, <1>37,
       <1>38, <1>39, <1>40, <1>41, <1>42, <1>43, <1>44, <1>45, <1>46, <1>47, <1>48, <1>49,
       <1>50, <1>51, <1>52, <1>53, <1>54, <1>55, <1>56
    DEF Next, BeginStep, WriteStep, InstallSteps, AgentStep, RollbackStep, RemovalStep

\* No step of an update takes a round away.
LEMMA RoundsGrow ==
    ASSUME TypeOK, Places, Restorable, Barred, RoundsKept, [Next]_vars
    PROVE  op.kind = "update" /\ pc # "idle" => db.rounds \subseteq db'.rounds
<1>0. /\ RoundsKept /\ db \in Databases /\ Now.db = db
      /\ place = "default" => [Now EXCEPT !.db = DefaultDatabase].db = db
      /\ pc \in {"stop", "save", "backup"} => inner = NoSnapshot
      /\ pc \notin {"idle", "stop"} /\ op.kind = "update" => runtime = None
    BY DEF TypeOK, Now, DefaultDatabase, Restorable, Remembered, FirstSteps, Barred
<1>1. CASE BeginStep
    BY <1>1, <1>0, BeginLeads
<1>2. CASE Migrate
    BY <1>2, <1>0, WriteLeads DEF Migrate, memory, history, End, Databases
<1>3. CASE Materialize
    BY <1>3, <1>0, WriteLeads DEF Materialize, memory, history, End, Databases
<1>4. CASE PersistProbe
    BY <1>4, <1>0, WriteLeads DEF PersistProbe, memory, history, End, Databases
<1>5. CASE WriteSecrets \/ WriteConfig \/ WriteProfiles \/ WriteLocal
    BY <1>5, <1>0 DEF WriteSecrets, memory, history, WriteConfig, WriteProfiles,
                      WriteLocal
<1>6. CASE InstallSteps
    BY <1>6, <1>0 DEF InstallSteps, Stop, Goto, memory, history, Save, Prepare,
                      Commit, Backup, SwitchCurrent, InstallBinLink, PassDoctor,
                      CheckUpdate, End
<1>7. CASE AgentStep
    BY <1>7, <1>0 DEF AgentStep, Connect, Goto, history, Remove, Undetected, End,
                      AdapterInstall, PersistSelection, UndoConnect, ConnectDone,
                      Unpersist, memory
<1>8. CASE UndoDatabase
    BY <1>8, <1>0 DEF UndoDatabase, Goto, memory, history, RoundsKept
<1>9. CASE BackDatabase
    BY <1>9, <1>0 DEF BackDatabase, Goto, End, memory, RoundsKept
<1>10. CASE \/ UndoLink \/ UndoRelease \/ UndoFiles \/ BackLink \/ BackFiles \/ BackRelease
            \/ RollbackStops \/ ReleaseStays
            \/ \E files \in SUBSET {"config", "profiles", "secrets", "local"}, old \in {inner.disk, outer.disk} :
                FilesStop(files, old)
    BY <1>10, <1>0 DEF UndoLink, Goto, memory, history, UndoRelease, End, UndoFiles,
                       BackLink, BackFiles, BackRelease, RollbackStops, Lapse,
                       Aborted, ReleaseStays, FilesStop
<1>11. CASE Finish
    BY <1>11, <1>0 DEF Finish, End, memory, Places
<1>12. CASE \/ Unlink
            \/ \E v \in Versions : Sweep(v)
    BY <1>12, <1>0 DEF Unlink, Goto, memory, history, Sweep
<1>13. CASE StartRuntime
    BY <1>13, <1>0 DEF StartRuntime, memory, history, Databases, Cutover, Rewritten
<1>14. CASE StartRefused
    BY <1>14, <1>0 DEF StartRefused, memory, history, Databases
<1>15. CASE RuntimeDies
    BY <1>15, <1>0 DEF RuntimeDies, memory, history, Databases
<1>16. CASE Capture
    BY <1>16, <1>0 DEF Capture, memory, Databases
<1>17. CASE \/ Fail \/ Kill \/ Interrupt \/ UNCHANGED vars
            \/ \E a \in Agents : Edit(a)
    BY <1>17, <1>0 DEF Fail, memory, Kill, machine, Interrupt, End, Edit, history, vars
<1> QED
    BY <1>1, <1>2, <1>3, <1>4, <1>5, <1>6, <1>7, <1>8, <1>9, <1>10, <1>11, <1>12, <1>13,
       <1>14, <1>15, <1>16, <1>17
    DEF Next, BeginStep, WriteStep, InstallSteps, AgentStep, RollbackStep, RemovalStep

-----------------------------------------------------------------------------
(* The user's file                                                          *)

\* Once its part is taken away, an agent has the file that was to be restored.
LEMMA RestoredOnce ==
    ASSUME NEW now \in Agent, now.kind # "hooks"
    PROVE  LET then == Uninstalled(now.kind, now) IN
           then.file = RestoredFile(now) /\ then.record = NoRecord /\ RestoredFile(then) = then.file
<1> DEFINE then == Uninstalled(now.kind, now)
<1>1. CASE now.kind = "plugin"
  <2>1. then = [now EXCEPT !.file = RestoredFile(now), !.settings = "none", !.record = NoRecord]
    BY <1>1 DEF Uninstalled
  <2>2. then.file = RestoredFile(now) /\ then.record = NoRecord
    BY <2>1 DEF Agent
  <2> QED
    BY <2>2 DEF RestoredFile
<1>2. CASE now.kind = "hermes" /\ now.record = NoRecord
  <2>1. then = now
    BY <1>2 DEF Uninstalled
  <2> QED
    BY <1>2, <2>1 DEF RestoredFile
<1>3. CASE now.kind = "hermes" /\ now.record # NoRecord
  <2>1. then = [now EXCEPT !.file = RestoredFile(now), !.settings = now.record.settings,
                           !.record = NoRecord]
    BY <1>3 DEF Uninstalled
  <2>2. then.file = RestoredFile(now) /\ then.record = NoRecord
    BY <2>1 DEF Agent
  <2> QED
    BY <2>2 DEF RestoredFile
<1> QED
    BY <1>1, <1>2, <1>3 DEF Agent, Kinds

\* The order of an adapter's writes, seen from its step.
LEMMA DoingAt ==
    ASSUME Kind(op.agent) # "hooks", Kind(op.agent) \in Kinds, step \in 1..4
    PROVE  /\ Kind(op.agent) = "plugin" =>
                Doing = CASE step = 1 -> "settings" [] step = 2 -> "payload"
                          [] step = 3 -> "record" [] step = 4 -> "verify"
           /\ Kind(op.agent) = "hermes" =>
                Doing = CASE step = 1 -> "payload" [] step = 2 -> "settings"
                          [] step = 3 -> "record" [] step = 4 -> "verify"
BY DEF Doing, InstallOrder, Kinds

\* One write of an adapter, of the agent it is about.
LEMMA OwnFileAdapted ==
    ASSUME TypeOK, AskedFor, NEW a \in Agents, Kind(a) # "hooks", OwnFile(a), AdapterInstall,
           op.agent = a
    PROVE  OwnFile(a)'
<1>0. /\ agent \in [Agents -> Agent] /\ agent[a] \in Agent /\ Kind(a) \in Kinds /\ step \in 1..4
      /\ replaced \in [Agents -> {"user", "own", "lost"}] /\ pc = "adapter" /\ current \in Versions
      /\ None \notin Versions /\ "absent" \notin Versions
    BY InstallerAssumption DEF AdapterInstall, TypeOK, PayloadThere, Kind, Agent
<1>1. /\ agent'[a] = InstallStep(Kind(a), Doing, seen, agent[a], current, op.enabled)
      /\ mine' = mine /\ current' = current /\ seen' = seen /\ op' = op
      /\ replaced'[a] = IF Doing = "payload" /\ agent[a].file \in Versions THEN "own" ELSE replaced[a]
      /\ Doing # "verify" => step' = step + 1 /\ pc' = "adapter"
      /\ Doing = "verify" => pc' \in {"persist", "connect"}
    BY <1>0 DEF AdapterInstall, Adapted, Goto
<1>2. Kind(a)' = Kind(a)
    BY AdapterLeads DEF Kind
<1>3. Kind(a) = "plugin" \/ Kind(a) = "hermes"
    BY <1>0 DEF Kinds
<1>4. CASE Doing = "settings"
  <2>1. agent'[a].file = agent[a].file /\ agent'[a].record = agent[a].record
    BY <1>0, <1>1, <1>4 DEF InstallStep, Agent
  <2>2. \/ Kind(a) = "plugin" /\ step = 1 /\ step' = 2 /\ pc' = "adapter"
        \/ Kind(a) = "hermes" /\ step = 2 /\ step' = 3 /\ pc' = "adapter"
    BY <1>0, <1>1, <1>3, <1>4, DoingAt
  <2>3. replaced'[a] = replaced[a] /\ RestoredFile(agent[a])' = RestoredFile(agent[a])
    BY <1>1, <1>4, <2>1 DEF RestoredFile
  <2>4. Unrecorded(a)' = Unrecorded(a) /\ (Unrecorded(a) <=> Kind(a) = "hermes")
    BY <1>0, <1>1, <1>2, <2>2 DEF Unrecorded
  <2> QED
    BY <1>0, <1>1, <2>1, <2>2, <2>3, <2>4 DEF OwnFile, Came
<1>5. CASE Doing = "payload"
  <2>1. agent'[a].file = current /\ agent'[a].record = agent[a].record
    BY <1>0, <1>1, <1>3, <1>5 DEF InstallStep, Agent
  <2>2. \/ Kind(a) = "plugin" /\ step = 2 /\ step' = 3 /\ pc' = "adapter"
        \/ Kind(a) = "hermes" /\ step = 1 /\ step' = 2 /\ pc' = "adapter"
    BY <1>0, <1>1, <1>3, <1>5, DoingAt
  <2>3. ~Unrecorded(a) /\ Unrecorded(a)'
    BY <1>0, <1>1, <1>2, <2>2 DEF Unrecorded
  <2>4. agent[a].file \in Versions \/ replaced'[a] = replaced[a]
    BY <1>1, <1>5
  <2>5. agent[a].record # NoRecord => agent[a].record.after \in Versions
    BY <1>0 DEF Agent, Records
  <2>6. /\ replaced'[a] = "user" => agent[a].file = mine[a]
        /\ replaced'[a] = "own" => agent[a].file \in Versions
    <3>1. CASE agent[a].file \in Versions
      BY <1>1, <1>5, <3>1
    <3>2. CASE agent[a].file \notin Versions
      <4>1. RestoredFile(agent[a]) = agent[a].file
        BY <2>5, <3>2 DEF OwnFile, RestoredFile
      <4> QED
        BY <2>3, <2>4, <3>2, <4>1 DEF OwnFile, Came
    <3> QED
      BY <3>1, <3>2
  <2>7. seen.file = agent[a].file
    BY <1>0, <2>2, <2>3 DEF OwnFile
  <2> QED
    BY <1>0, <1>1, <2>1, <2>2, <2>3, <2>6, <2>7 DEF OwnFile, Came, None
<1>6. CASE Doing = "record"
  <2>1. agent'[a].file = agent[a].file /\ agent'[a].record = Recorded(seen, current)
    BY <1>0, <1>1, <1>3, <1>6 DEF InstallStep, Agent
  <2>2. step = 3 /\ step' = 4 /\ pc' = "adapter"
    BY <1>0, <1>1, <1>3, <1>6, DoingAt
  <2>3. Unrecorded(a) /\ ~Unrecorded(a)'
    BY <1>0, <1>1, <1>2, <1>3, <2>2 DEF Unrecorded
  <2>4. replaced'[a] = replaced[a] /\ agent[a].file = current
    BY <1>1, <1>6, <2>3 DEF OwnFile
  <2>5. /\ Recorded(seen, current) # NoRecord /\ Recorded(seen, current).after = current
        /\ Recorded(seen, current).before = seen.file
    BY <1>0 DEF Recorded, NoRecord
  <2>6. RestoredFile(agent[a])' = seen.file
    BY <2>1, <2>4, <2>5 DEF RestoredFile
  <2>7. Came(a, seen.file)
    BY <2>3 DEF OwnFile
  <2> QED
    BY <1>0, <1>1, <2>1, <2>2, <2>3, <2>4, <2>6, <2>7 DEF OwnFile, Came, None
<1>7. CASE Doing = "verify"
  <2>1. agent'[a].file = agent[a].file /\ agent'[a].record = agent[a].record
    BY <1>0, <1>1, <1>7 DEF InstallStep, Agent
  <2>2. step = 4 /\ pc' \in {"persist", "connect"}
    BY <1>0, <1>1, <1>3, <1>7, DoingAt
  <2>3. replaced'[a] = replaced[a] /\ RestoredFile(agent[a])' = RestoredFile(agent[a])
    BY <1>1, <1>7, <2>1 DEF RestoredFile
  <2>4. ~Unrecorded(a) /\ ~Unrecorded(a)'
    BY <2>2 DEF Unrecorded
  <2> QED
    BY <1>1, <2>1, <2>2, <2>3, <2>4 DEF OwnFile, Came
<1>8. Doing \in {"settings", "payload", "record", "verify"}
    BY <1>0, <1>3, DoingAt
<1> QED
    BY <1>4, <1>5, <1>6, <1>7, <1>8

\* An agent stays what it is.
LEMMA KindStep ==
    ASSUME TypeOK, AskedFor, [Next]_vars
    PROVE  \A c \in Agents : Kind(c)' = Kind(c)
<1>0. agent \in [Agents -> Agent] /\ \A a \in Agents : agent[a] \in Agent /\ agent[a].kind \in Kinds
    BY DEF TypeOK, Agent
<1> USE DEF Kind
<1>1. ASSUME NEW v \in Versions, RefuseUpdate(v)
      PROVE \A c \in Agents : Kind(c)' = Kind(c)
    BY <1>1, <1>0 DEF RefuseUpdate, machine
<1>2. ASSUME NEW v \in Versions, NEW code \in Versions, NEW skip \in {"yes", "no"},
              BeginUpdate(v, code, skip)
      PROVE \A c \in Agents : Kind(c)' = Kind(c)
    BY <1>2, <1>0 DEF BeginUpdate, Begin
<1>3. ASSUME NEW v \in Versions, NEW g \in Gens, NEW sel \in Choices, NEW skip \in {"yes", "no"},
              BeginInstall(v, g, sel, skip)
      PROVE \A c \in Agents : Kind(c)' = Kind(c)
    BY <1>3, <1>0 DEF BeginInstall, Begin
<1>4. ASSUME NEW g \in Gens, NEW sel \in Choices, BeginImport(g, sel)
      PROVE \A c \in Agents : Kind(c)' = Kind(c)
    BY <1>4, <1>0 DEF BeginImport, Begin
<1>5. ASSUME NEW g \in Gens, NEW sel \in Choices, NEW skip \in {"yes", "no"},
              BeginConfigure(g, sel, skip)
      PROVE \A c \in Agents : Kind(c)' = Kind(c)
    BY <1>5, <1>0 DEF BeginConfigure, Begin
<1>6. ASSUME NEW a \in Agents, BeginDisconnect(a)
      PROVE \A c \in Agents : Kind(c)' = Kind(c)
    BY <1>6, <1>0 DEF BeginDisconnect, Begin
<1>7. ASSUME NEW a \in Agents, NEW e \in {"enabled", "disabled"}, BeginConnect(a, e)
      PROVE \A c \in Agents : Kind(c)' = Kind(c)
    BY <1>7, <1>0 DEF BeginConnect, Begin
<1>8. ASSUME NEW a \in Agents, NEW e \in {"enabled", "disabled"}, SetEnabled(a, e)
      PROVE \A c \in Agents : Kind(c)' = Kind(c)
  <2>1. [agent[a] EXCEPT !.settings = e].kind = agent[a].kind
    BY <1>0 DEF Agent
  <2> QED
    BY <1>8, <1>0, <2>1 DEF SetEnabled
<1>9. CASE BeginRepair
    BY <1>9, <1>0 DEF BeginRepair, Begin
<1>10. ASSUME NEW purge \in SUBSET {"data", "config"}, BeginUninstall(purge)
      PROVE \A c \in Agents : Kind(c)' = Kind(c)
    BY <1>10, <1>0 DEF BeginUninstall, Begin
<1>11. CASE WriteStep
    BY <1>11, <1>0 DEF WriteStep, WriteSecrets, memory, history, WriteConfig,
                       WriteProfiles, WriteLocal, Migrate, Materialize, PersistProbe
<1>12. CASE InstallSteps
    BY <1>12, <1>0 DEF InstallSteps, Stop, Goto, memory, history, Save, Prepare,
                       Commit, Backup, SwitchCurrent, InstallBinLink, PassDoctor,
                       CheckUpdate, End
<1>13. ASSUME NEW a \in Agents, Remove(a)
      PROVE \A c \in Agents : Kind(c)' = Kind(c)
  <2>1. Uninstalled(agent[a].kind, agent[a]).kind = agent[a].kind
    BY <1>0, UninstalledTypes
  <2> QED
    BY <1>13, <1>0, <2>1 DEF Remove
<1>14. CASE AdapterInstall
    BY <1>14, <1>0, AdapterLeads DEF AdapterInstall, Goto
<1>15. CASE UndoConnect
  <2>1. op.agent \in Agents
    BY <1>15 DEF UndoConnect, AskedFor
  <2>2. Uninstalled(agent[op.agent].kind, agent[op.agent]).kind = agent[op.agent].kind
    BY <1>0, <2>1, UninstalledTypes
  <2> QED
    BY <1>15, <1>0, <2>1, <2>2 DEF UndoConnect
<1>16. CASE \/ PersistSelection \/ ConnectDone \/ Unpersist
            \/ \E a \in Agents : Connect(a)
            \/ \E a \in Agents : Undetected(a)
    BY <1>16, <1>0 DEF Connect, Goto, history, Undetected, End, PersistSelection,
                       ConnectDone, Unpersist, memory
<1>17. CASE RollbackStep
    BY <1>17, <1>0 DEF RollbackStep, UndoLink, Goto, memory, history, UndoRelease,
                       End, UndoDatabase, UndoFiles, BackLink, BackFiles,
                       BackDatabase, BackRelease, RollbackStops, Lapse, Aborted,
                       ReleaseStays, FilesStop
<1>18. CASE Finish
  <2>1. \A a \in Agents : [agent[a] EXCEPT !.settings = None, !.record = NoRecord].kind = agent[a].kind
    BY <1>0 DEF Agent
  <2> QED
    BY <1>18, <1>0, <2>1 DEF Finish
<1>19. CASE \/ Unlink
            \/ \E v \in Versions : Sweep(v)
    BY <1>19, <1>0 DEF Unlink, Goto, memory, history, Sweep
<1>20. ASSUME NEW a \in Agents, Edit(a)
      PROVE \A c \in Agents : Kind(c)' = Kind(c)
  <2>1. [agent[a] EXCEPT !.file = "edited"].kind = agent[a].kind
    BY <1>0 DEF Agent
  <2> QED
    BY <1>20, <1>0, <2>1 DEF Edit
<1>21. CASE \/ Fail \/ Kill \/ Interrupt \/ StartRuntime \/ StartRefused \/ RuntimeDies
            \/ Capture \/ UNCHANGED vars
    BY <1>21, <1>0 DEF Fail, memory, Kill, machine, Interrupt, End, StartRuntime,
                       history, StartRefused, RuntimeDies, Capture, vars
<1> HIDE DEF Kind
<1> QED
    BY <1>1, <1>2, <1>3, <1>4, <1>5, <1>6, <1>7, <1>8, <1>9, <1>10, <1>11, <1>12, <1>13,
       <1>14, <1>15, <1>16, <1>17, <1>18, <1>19, <1>20, <1>21
    DEF Next, BeginStep, WriteStep, InstallSteps, AgentStep, RollbackStep, RemovalStep

\* What is kept of the user's file of one agent.
LEMMA OwnFileStep ==
    ASSUME TypeOK, AskedFor, Places, NEW c \in Agents, Kind(c) # "hooks", OwnFile(c), [Next]_vars
    PROVE  OwnFile(c)'
<1>0. /\ OwnFile(c) /\ agent \in [Agents -> Agent] /\ agent[c] \in Agent /\ Kind(c) \in Kinds
      /\ replaced \in [Agents -> {"user", "own", "lost"}] /\ mine \in [Agents -> {"none", "user", "edited"}]
      /\ "edited" \notin Versions /\ Kind(c)' = Kind(c)
    BY InstallerAssumption, KindStep DEF TypeOK, Kind, Agent
<1>a. ASSUME agent'[c].file = agent[c].file, agent'[c].record = agent[c].record,
             mine'[c] = mine[c], replaced'[c] = replaced[c],
             ~Unrecorded(c), pc' \notin {"adapter", "unpersist"}
      PROVE  OwnFile(c)'
  <2>1. ~Unrecorded(c)'
    BY <1>a DEF Unrecorded
  <2>2. RestoredFile(agent[c])' = RestoredFile(agent[c])
    BY <1>a DEF RestoredFile
  <2> QED
    BY <1>0, <1>a, <2>1, <2>2 DEF OwnFile, Came
<1>b. ASSUME agent' = agent, mine' = mine, replaced' = Lost, pc' \notin {"adapter", "unpersist"}
      PROVE  OwnFile(c)'
  <2>1. CASE Unrecorded(c)
    <3>1. replaced'[c] = "lost" /\ ~Unrecorded(c)'
      BY <1>b, <2>1 DEF Unrecorded, Lost
    <3> QED
      BY <1>0, <1>b, <3>1 DEF OwnFile, Came
  <2>2. CASE ~Unrecorded(c)
    <3>1. replaced'[c] = replaced[c]
      BY <1>b, <2>2 DEF Lost
    <3> QED
      BY <1>a, <1>b, <2>2, <3>1
  <2> QED
    BY <2>1, <2>2
<1>c. pc # "adapter" => ~Unrecorded(c)
    BY DEF Unrecorded
<1>d. ASSUME UNCHANGED <<agent, pc, op, seen, step, mine, replaced, current, outcome>>
      PROVE  OwnFile(c)'
    BY <1>0, <1>d DEF OwnFile, Came, Unrecorded, RestoredFile, Kind
<1>1. ASSUME NEW v \in Versions, RefuseUpdate(v)
      PROVE OwnFile(c)'
    BY <1>1, <1>a, <1>c, <1>d DEF RefuseUpdate, machine
<1>2. ASSUME NEW v \in Versions, NEW code \in Versions, NEW skip \in {"yes", "no"},
              BeginUpdate(v, code, skip)
      PROVE OwnFile(c)'
    BY <1>2, <1>a, <1>c, <1>d DEF BeginUpdate, Begin
<1>3. ASSUME NEW v \in Versions, NEW g \in Gens, NEW sel \in Choices, NEW skip \in {"yes", "no"},
              BeginInstall(v, g, sel, skip)
      PROVE OwnFile(c)'
    BY <1>3, <1>a, <1>c, <1>d DEF BeginInstall, Begin
<1>4. ASSUME NEW g \in Gens, NEW sel \in Choices, BeginImport(g, sel)
      PROVE OwnFile(c)'
    BY <1>4, <1>a, <1>c, <1>d DEF BeginImport, Begin
<1>5. ASSUME NEW g \in Gens, NEW sel \in Choices, NEW skip \in {"yes", "no"},
              BeginConfigure(g, sel, skip)
      PROVE OwnFile(c)'
    BY <1>5, <1>a, <1>c, <1>d DEF BeginConfigure, Begin
<1>6. ASSUME NEW a \in Agents, BeginDisconnect(a)
      PROVE OwnFile(c)'
    BY <1>6, <1>a, <1>c, <1>d DEF BeginDisconnect, Begin
<1>7. ASSUME NEW a \in Agents, NEW e \in {"enabled", "disabled"}, BeginConnect(a, e)
      PROVE OwnFile(c)'
    BY <1>7, <1>a, <1>c, <1>d DEF BeginConnect, Begin
<1>8. ASSUME NEW a \in Agents, NEW e \in {"enabled", "disabled"}, SetEnabled(a, e)
      PROVE OwnFile(c)'
  <2>1. agent'[c].file = agent[c].file /\ agent'[c].record = agent[c].record
    <3>1. CASE a = c
      <4>1. agent'[c] = [agent[c] EXCEPT !.settings = e]
        BY <1>8, <1>0, <3>1 DEF SetEnabled
      <4> QED
        BY <1>0, <4>1 DEF Agent
    <3>2. CASE a # c
      BY <1>8, <1>0, <3>2 DEF SetEnabled
    <3> QED
      BY <3>1, <3>2
  <2> QED
    BY <1>8, <1>a, <1>c, <2>1 DEF SetEnabled
<1>9. CASE BeginRepair
    BY <1>9, <1>a, <1>c, <1>d DEF BeginRepair, Begin
<1>10. ASSUME NEW purge \in SUBSET {"data", "config"}, BeginUninstall(purge)
      PROVE OwnFile(c)'
    BY <1>10, <1>a, <1>c, <1>d DEF BeginUninstall, Begin
<1>11. CASE WriteSecrets
    BY <1>11, <1>a, <1>c, <1>d, WriteLeads DEF WriteSecrets, memory, history, End
<1>12. CASE WriteConfig
    BY <1>12, <1>a, <1>c, <1>d, WriteLeads DEF WriteConfig, memory, history, End
<1>13. CASE WriteProfiles
    BY <1>13, <1>a, <1>c, <1>d, WriteLeads DEF WriteProfiles, memory, history, End
<1>14. CASE WriteLocal
    BY <1>14, <1>a, <1>c, <1>d, WriteLeads DEF WriteLocal, memory, history, End
<1>15. CASE Migrate
    BY <1>15, <1>a, <1>c, <1>d, WriteLeads DEF Migrate, memory, history, End
<1>16. CASE Materialize
    BY <1>16, <1>a, <1>c, <1>d, WriteLeads DEF Materialize, memory, history, End
<1>17. CASE PersistProbe
    BY <1>17, <1>a, <1>c, <1>d, WriteLeads DEF PersistProbe, memory, history, End
<1>18. CASE Stop
    BY <1>18, <1>a, <1>c, <1>d DEF Stop, Goto, memory, history
<1>19. CASE Save
    BY <1>19, <1>a, <1>c, <1>d DEF Save, Goto, history
<1>20. ASSUME NEW b \in Bundles, Prepare(b)
      PROVE OwnFile(c)'
    BY <1>20, <1>a, <1>c, <1>d DEF Prepare, Goto, memory, history
<1>21. ASSUME NEW b \in Bundles, Commit(b)
      PROVE OwnFile(c)'
    BY <1>21, <1>a, <1>c, <1>d DEF Commit, Goto, memory, history
<1>22. CASE Backup
    BY <1>22, <1>a, <1>c, <1>d DEF Backup, Goto, history
<1>23. CASE SwitchCurrent
    BY <1>23, <1>a, <1>c, <1>d DEF SwitchCurrent, Goto, history
<1>24. CASE InstallBinLink
    BY <1>24, <1>a, <1>c, <1>d DEF InstallBinLink, Goto, memory, history
<1>25. CASE PassDoctor
    BY <1>25, <1>a, <1>c, <1>d DEF PassDoctor, Goto, history
<1>26. CASE CheckUpdate
    BY <1>26, <1>a, <1>c, <1>d DEF CheckUpdate, End, memory, history
<1>27. ASSUME NEW a \in Agents, Connect(a)
      PROVE OwnFile(c)'
  <2>1. /\ agent' = agent /\ mine' = mine /\ replaced' = replaced /\ pc = "connect" /\ pc' = "adapter"
        /\ seen' = agent[a] /\ step' = 1 /\ op'.agent = a
    BY <1>27 DEF Connect, Goto, history, TypeOK, Requests
  <2>2. ~Unrecorded(c) /\ ~Unrecorded(c)'
    BY <2>1 DEF Unrecorded
  <2> QED
    BY <1>0, <2>1, <2>2 DEF OwnFile, Came, RestoredFile
<1>28. ASSUME NEW a \in Agents, Remove(a)
      PROVE OwnFile(c)'
  <2>1. CASE c = a
    <3>1. agent'[c] = Uninstalled(agent[c].kind, agent[c]) /\ mine' = mine /\ replaced' = replaced
      BY <1>28, <1>0, <2>1 DEF Remove, Kind, history
    <3>2. agent'[c].file = RestoredFile(agent[c]) /\ agent'[c].record = NoRecord
          /\ RestoredFile(agent[c])' = agent'[c].file
      BY <1>0, <3>1, RestoredOnce DEF Kind
    <3>3. ~Unrecorded(c) /\ ~Unrecorded(c)' /\ pc' # "adapter"
      BY <1>28 DEF Remove, Unrecorded, Goto, End
    <3> QED
      BY <1>0, <3>1, <3>2, <3>3 DEF OwnFile, Came
  <2>2. CASE c # a
    <3>1. agent'[c] = agent[c] /\ mine' = mine /\ replaced' = replaced
      BY <1>28, <1>0, <2>2 DEF Remove, history
    <3>2. ~Unrecorded(c) /\ ~Unrecorded(c)'
      BY <1>28 DEF Remove, Unrecorded, Goto, End
    <3>3. pc' # "adapter" /\ (pc' = "unpersist" => op.agent # c) /\ op' = op
      BY <1>28, <2>2 DEF Remove, Goto, End, AskedFor, memory
    <3> QED
      BY <1>0, <3>1, <3>2, <3>3 DEF OwnFile, Came, RestoredFile
  <2> QED
    BY <2>1, <2>2
<1>29. ASSUME NEW a \in Agents, Undetected(a)
      PROVE OwnFile(c)'
  <2>1. /\ agent' = agent /\ mine' = mine /\ replaced' = replaced /\ pc # "adapter" /\ pc' # "adapter"
        /\ pc' = "unpersist" => outcome' = "partial"
    BY <1>29 DEF Undetected, End, history
  <2>2. ~Unrecorded(c) /\ ~Unrecorded(c)'
    BY <2>1 DEF Unrecorded
  <2> QED
    BY <1>0, <2>1, <2>2 DEF OwnFile, Came, RestoredFile
<1>30. CASE AdapterInstall
  <2>1. CASE op.agent = c
    BY <1>30, <2>1, OwnFileAdapted
  <2>2. CASE op.agent # c
    <3>1. agent'[c] = agent[c] /\ mine' = mine /\ replaced'[c] = replaced[c] /\ op' = op
      BY <1>30, <1>0, <2>2 DEF AdapterInstall
    <3>2. ~Unrecorded(c) /\ ~Unrecorded(c)' /\ pc' # "unpersist"
      BY <1>30, <2>2, <3>1, AdapterLeads DEF Unrecorded
    <3> QED
      BY <1>0, <2>2, <3>1, <3>2 DEF OwnFile, Came, RestoredFile
  <2> QED
    BY <2>1, <2>2
<1>31. CASE PersistSelection
    BY <1>31, <1>a, <1>c, <1>d DEF PersistSelection, Goto, End, history
<1>32. CASE UndoConnect
  <2>1. CASE c = op.agent
    <3>1. agent'[c] = Uninstalled(agent[c].kind, agent[c]) /\ mine' = mine /\ replaced' = replaced
      BY <1>32, <1>0, <2>1 DEF UndoConnect, Kind, history
    <3>2. agent'[c].file = RestoredFile(agent[c]) /\ agent'[c].record = NoRecord
          /\ RestoredFile(agent[c])' = agent'[c].file
      BY <1>0, <3>1, RestoredOnce DEF Kind
    <3>3. ~Unrecorded(c) /\ ~Unrecorded(c)' /\ pc' # "adapter"
      BY <1>32 DEF UndoConnect, Unrecorded, Goto, End
    <3> QED
      BY <1>0, <3>1, <3>2, <3>3 DEF OwnFile, Came
  <2>2. CASE c # op.agent
    <3>1. agent'[c] = agent[c] /\ mine' = mine /\ replaced' = replaced
      BY <1>32, <1>0, <2>2 DEF UndoConnect, history
    <3>2. ~Unrecorded(c) /\ ~Unrecorded(c)'
      BY <1>32 DEF UndoConnect, Unrecorded, Goto, End
    <3>3. pc' # "adapter" /\ (pc' = "unpersist" => op.agent # c) /\ op' = op
      BY <1>32, <2>2 DEF UndoConnect, Goto, End, AskedFor, memory
    <3> QED
      BY <1>0, <3>1, <3>2, <3>3 DEF OwnFile, Came, RestoredFile
  <2> QED
    BY <2>1, <2>2
<1>33. CASE ConnectDone
    BY <1>33, <1>a, <1>c, <1>d DEF ConnectDone, Goto, End, history
<1>34. CASE Unpersist
    BY <1>34, <1>a, <1>c, <1>d DEF Unpersist, End, memory, history
<1>35. CASE UndoLink
    BY <1>35, <1>a, <1>c, <1>d DEF UndoLink, Goto, memory, history
<1>36. CASE UndoRelease
    BY <1>36, <1>a, <1>c, <1>d DEF UndoRelease, Goto, End, memory, history
<1>37. CASE UndoDatabase
    BY <1>37, <1>a, <1>c, <1>d DEF UndoDatabase, Goto, memory, history
<1>38. CASE UndoFiles
    BY <1>38, <1>a, <1>c, <1>d DEF UndoFiles, Goto, End, memory, history
<1>39. CASE BackLink
    BY <1>39, <1>a, <1>c, <1>d DEF BackLink, Goto, memory, history
<1>40. CASE BackFiles
    BY <1>40, <1>a, <1>c, <1>d DEF BackFiles, Goto, memory, history
<1>41. CASE BackDatabase
    BY <1>41, <1>a, <1>c, <1>d DEF BackDatabase, Goto, End, memory
<1>42. CASE BackRelease
    BY <1>42, <1>a, <1>c, <1>d DEF BackRelease, End, memory, history
<1>43. CASE RollbackStops
    BY <1>43, <1>a, <1>c, <1>d DEF RollbackStops, Lapse, Aborted, Goto, End, memory
<1>44. CASE ReleaseStays
    BY <1>44, <1>a, <1>c, <1>d DEF ReleaseStays, Lapse, Goto, End, memory
<1>45. ASSUME NEW files \in SUBSET {"config", "profiles", "secrets", "local"},
             NEW old \in {inner.disk, outer.disk}, FilesStop(files, old)
      PROVE OwnFile(c)'
    BY <1>45, <1>a, <1>c, <1>d DEF FilesStop, Lapse, Aborted, Goto, End, memory
<1>46. CASE Unlink
    BY <1>46, <1>a, <1>c, <1>d DEF Unlink, Goto, memory, history
<1>47. ASSUME NEW v \in Versions, Sweep(v)
      PROVE OwnFile(c)'
    BY <1>47, <1>a, <1>c, <1>d DEF Sweep, Goto, memory, history
<1>48. CASE Finish
  <2>1. pc = "sweep" /\ pc' = "idle" /\ mine' = mine
    BY <1>48 DEF Finish, End
  <2>2. CASE agent'[c] = agent[c] /\ replaced'[c] = replaced[c]
    BY <1>a, <1>c, <2>1, <2>2
  <2>3. CASE ~(agent'[c] = agent[c] /\ replaced'[c] = replaced[c])
    <3>1. "data" \in op.purge
      BY <1>48, <2>3 DEF Finish
    <3>2. Kind(c) = "plugin"
      BY <1>48, <1>0, <2>3, <3>1 DEF Finish, Kinds
    <3>3. agent'[c] = [agent[c] EXCEPT !.settings = None, !.record = NoRecord]
      BY <1>48, <3>1, <3>2 DEF Finish
    <3>4. replaced'[c] = IF agent[c].record # NoRecord THEN "lost" ELSE replaced[c]
      BY <1>48, <3>1, <3>2 DEF Finish
    <3>5. agent'[c].file = agent[c].file /\ agent'[c].record = NoRecord
      BY <1>0, <3>3 DEF Agent
    <3>6. CASE agent[c].record = NoRecord
      BY <1>a, <1>c, <2>1, <3>4, <3>5, <3>6
    <3>7. CASE agent[c].record # NoRecord
      <4>1. replaced'[c] = "lost" /\ ~Unrecorded(c)'
        BY <2>1, <3>4, <3>7 DEF Unrecorded
      <4> QED
        BY <2>1, <3>5, <4>1 DEF OwnFile, Came
    <3> QED
      BY <3>6, <3>7
  <2> QED
    BY <2>2, <2>3
<1>49. CASE Fail
  <2>1. agent' = agent /\ mine' = mine /\ pc' \notin {"adapter", "unpersist"}
    BY <1>49, FailLeads DEF Fail, End
  <2>2. replaced' = Lost
    BY <1>49 DEF Fail
  <2> QED
    BY <1>b, <2>1, <2>2
<1>50. CASE Kill
  <2>1. agent' = agent /\ mine' = mine /\ pc' \notin {"adapter", "unpersist"}
    BY <1>50 DEF Kill, machine
  <2>2. replaced' = Lost
    BY <1>50 DEF Kill
  <2> QED
    BY <1>b, <2>1, <2>2
<1>51. CASE Interrupt
  <2>1. agent' = agent /\ mine' = mine /\ pc' \notin {"adapter", "unpersist"}
    BY <1>51 DEF Interrupt, End
  <2>2. replaced' = Lost
    BY <1>51 DEF Interrupt
  <2> QED
    BY <1>b, <2>1, <2>2
<1>52. ASSUME NEW a \in Agents, Edit(a)
      PROVE OwnFile(c)'
  <2>1. CASE a = c
    <3>1. /\ agent'[c] = [agent[c] EXCEPT !.file = "edited"] /\ mine'[c] = "edited"
          /\ replaced'[c] = "user" /\ pc = "idle" /\ pc' = "idle"
      BY <1>52, <1>0, <2>1 DEF Edit
    <3>2. agent'[c].file = "edited" /\ agent'[c].record = agent[c].record
      BY <1>0, <3>1 DEF Agent
    <3>3. agent[c].record # NoRecord => agent[c].record.after \in Versions
      BY <1>0 DEF Agent, Records
    <3>4. RestoredFile(agent[c])' = "edited"
      BY <1>0, <3>2, <3>3 DEF RestoredFile
    <3>5. ~Unrecorded(c)'
      BY <3>1 DEF Unrecorded
    <3> QED
      BY <3>1, <3>2, <3>4, <3>5 DEF OwnFile, Came
  <2>2. CASE a # c
    BY <1>52, <1>0, <1>a, <1>c, <2>2 DEF Edit
  <2> QED
    BY <2>1, <2>2
<1>53. CASE StartRuntime \/ StartRefused \/ RuntimeDies \/ Capture \/ UNCHANGED vars
    BY <1>53, <1>a, <1>c, <1>d DEF StartRuntime, memory, history, StartRefused,
                                   RuntimeDies, Capture, machine, vars
<1> QED
    BY <1>1, <1>2, <1>3, <1>4, <1>5, <1>6, <1>7, <1>8, <1>9, <1>10, <1>11, <1>12, <1>13,
       <1>14, <1>15, <1>16, <1>17, <1>18, <1>19, <1>20, <1>21, <1>22, <1>23, <1>24, <1>25,
       <1>26, <1>27, <1>28, <1>29, <1>30, <1>31, <1>32, <1>33, <1>34, <1>35, <1>36, <1>37,
       <1>38, <1>39, <1>40, <1>41, <1>42, <1>43, <1>44, <1>45, <1>46, <1>47, <1>48, <1>49,
       <1>50, <1>51, <1>52, <1>53
    DEF Next, BeginStep, WriteStep, InstallSteps, AgentStep, RollbackStep, RemovalStep

\* The file is back when disconnect ends, and stays until the next operation.
LEMMA ComesBackStep ==
    ASSUME TypeOK, AskedFor, Places, UserFiles, [Next]_vars
    PROVE  UserFileComesBack'
<1>0. /\ UserFileComesBack /\ agent \in [Agents -> Agent] /\ replaced \in [Agents -> {"user", "own", "lost"}]
      /\ mine \in [Agents -> {"none", "user", "edited"}]
      /\ \A a \in Agents : Kind(a) # "hooks" => OwnFile(a)
      /\ op.kind = "disconnect" => op.agent \in Agents
    BY DEF TypeOK, UserFiles, AskedFor
<1>a. \A a \in Agents : Kind(a)' = Kind(a)
    BY KindStep
<1> USE DEF UserFileComesBack
<1>1. ASSUME NEW v \in Versions, RefuseUpdate(v)
      PROVE UserFileComesBack'
    BY <1>1, <1>0, <1>a DEF RefuseUpdate, machine, NoOp
<1>2. ASSUME NEW v \in Versions, NEW code \in Versions, NEW skip \in {"yes", "no"},
              BeginUpdate(v, code, skip)
      PROVE UserFileComesBack'
    BY <1>2, <1>0, <1>a DEF BeginUpdate, Begin, NoOp
<1>3. ASSUME NEW v \in Versions, NEW g \in Gens, NEW sel \in Choices, NEW skip \in {"yes", "no"},
              BeginInstall(v, g, sel, skip)
      PROVE UserFileComesBack'
    BY <1>3, <1>0, <1>a DEF BeginInstall, Begin, NoOp
<1>4. ASSUME NEW g \in Gens, NEW sel \in Choices, BeginImport(g, sel)
      PROVE UserFileComesBack'
    BY <1>4, <1>0, <1>a DEF BeginImport, Begin, NoOp
<1>5. ASSUME NEW g \in Gens, NEW sel \in Choices, NEW skip \in {"yes", "no"},
              BeginConfigure(g, sel, skip)
      PROVE UserFileComesBack'
    BY <1>5, <1>0, <1>a DEF BeginConfigure, Begin, NoOp
<1>6. ASSUME NEW a \in Agents, BeginDisconnect(a)
      PROVE UserFileComesBack'
    BY <1>6, <1>0, <1>a DEF BeginDisconnect, Begin, NoOp
<1>7. ASSUME NEW a \in Agents, NEW e \in {"enabled", "disabled"}, BeginConnect(a, e)
      PROVE UserFileComesBack'
    BY <1>7, <1>0, <1>a DEF BeginConnect, Begin, NoOp
<1>8. ASSUME NEW a \in Agents, NEW e \in {"enabled", "disabled"}, SetEnabled(a, e)
      PROVE UserFileComesBack'
    BY <1>8, <1>0, <1>a DEF SetEnabled, NoOp
<1>9. CASE BeginRepair
    BY <1>9, <1>0, <1>a DEF BeginRepair, Begin, NoOp
<1>10. ASSUME NEW purge \in SUBSET {"data", "config"}, BeginUninstall(purge)
      PROVE UserFileComesBack'
    BY <1>10, <1>0, <1>a DEF BeginUninstall, Begin, NoOp
<1>11. CASE WriteSecrets
    BY <1>11, <1>0, <1>a, WriteLeads DEF WriteSecrets, memory, history, End, Places
<1>12. CASE WriteConfig
    BY <1>12, <1>0, <1>a, WriteLeads DEF WriteConfig, memory, history, End, Places
<1>13. CASE WriteProfiles
    BY <1>13, <1>0, <1>a, WriteLeads DEF WriteProfiles, memory, history, End, Places
<1>14. CASE WriteLocal
    BY <1>14, <1>0, <1>a, WriteLeads DEF WriteLocal, memory, history, End, Places
<1>15. CASE Migrate
    BY <1>15, <1>0, <1>a, WriteLeads DEF Migrate, memory, history, End, Places
<1>16. CASE Materialize
    BY <1>16, <1>0, <1>a, WriteLeads DEF Materialize, memory, history, End, Places
<1>17. CASE PersistProbe
    BY <1>17, <1>0, <1>a, WriteLeads DEF PersistProbe, memory, history, End, Places
<1>18. CASE Stop
    BY <1>18, <1>0, <1>a DEF Stop, Goto, memory, history
<1>19. CASE Save
    BY <1>19, <1>0, <1>a DEF Save, Goto, history
<1>20. ASSUME NEW b \in Bundles, Prepare(b)
      PROVE UserFileComesBack'
    BY <1>20, <1>0, <1>a DEF Prepare, Goto, memory, history
<1>21. ASSUME NEW b \in Bundles, Commit(b)
      PROVE UserFileComesBack'
    BY <1>21, <1>0, <1>a DEF Commit, Goto, memory, history
<1>22. CASE Backup
    BY <1>22, <1>0, <1>a DEF Backup, Goto, history
<1>23. CASE SwitchCurrent
    BY <1>23, <1>0, <1>a DEF SwitchCurrent, Goto, history
<1>24. CASE InstallBinLink
    BY <1>24, <1>0, <1>a DEF InstallBinLink, Goto, memory, history
<1>25. CASE PassDoctor
    BY <1>25, <1>0, <1>a DEF PassDoctor, Goto, history
<1>26. CASE CheckUpdate
    BY <1>26, <1>0, <1>a DEF CheckUpdate, End, memory, history, Places
<1>27. ASSUME NEW a \in Agents, Connect(a)
      PROVE UserFileComesBack'
    BY <1>27, <1>0, <1>a DEF Connect, Goto, history
<1>28. ASSUME NEW a \in Agents, Remove(a)
      PROVE UserFileComesBack'
    BY <1>28, <1>0, <1>a DEF Remove, Goto, history
<1>29. ASSUME NEW a \in Agents, Undetected(a)
      PROVE UserFileComesBack'
    BY <1>29, <1>0, <1>a DEF Undetected, End, history
<1>30. CASE AdapterInstall
    BY <1>30, <1>0, <1>a, AdapterLeads, <1>0 DEF AdapterInstall, Goto, Places
<1>31. CASE PersistSelection
    BY <1>31, <1>0, <1>a DEF PersistSelection, Goto, End, history, Places
<1>32. CASE UndoConnect
    BY <1>32, <1>0, <1>a DEF UndoConnect, End, history, Places
<1>33. CASE ConnectDone
    BY <1>33, <1>0, <1>a DEF ConnectDone, Goto, End, history, Places
<1>34. CASE Unpersist
  <2>1. pc = "unpersist" /\ op.kind = "disconnect" /\ op' = op
        /\ UNCHANGED <<agent, mine, replaced>>
    BY <1>34 DEF Unpersist, Places, memory, history
  <2>2. Kind(op.agent) # "hooks" /\ outcome # "partial" => Came(op.agent, agent[op.agent].file)
    BY <1>0, <2>1 DEF OwnFile
  <2>3. outcome' = "ok" => outcome # "partial"
    BY <1>34 DEF Unpersist, End
  <2> QED
    BY <1>0, <1>a, <2>1, <2>2, <2>3 DEF Came
<1>35. CASE UndoLink
    BY <1>35, <1>0, <1>a DEF UndoLink, Goto, memory, history
<1>36. CASE UndoRelease
    BY <1>36, <1>0, <1>a DEF UndoRelease, Goto, End, memory, history, Places
<1>37. CASE UndoDatabase
    BY <1>37, <1>0, <1>a DEF UndoDatabase, Goto, memory, history
<1>38. CASE UndoFiles
    BY <1>38, <1>0, <1>a DEF UndoFiles, Goto, End, memory, history, Places
<1>39. CASE BackLink
    BY <1>39, <1>0, <1>a DEF BackLink, Goto, memory, history
<1>40. CASE BackFiles
    BY <1>40, <1>0, <1>a DEF BackFiles, Goto, memory, history
<1>41. CASE BackDatabase
    BY <1>41, <1>0, <1>a DEF BackDatabase, Goto, End, memory, Places
<1>42. CASE BackRelease
    BY <1>42, <1>0, <1>a DEF BackRelease, End, memory, history, Places
<1>43. CASE RollbackStops
    BY <1>43, <1>0, <1>a DEF RollbackStops, Lapse, Aborted, Goto, End, memory
<1>44. CASE ReleaseStays
    BY <1>44, <1>0, <1>a DEF ReleaseStays, Lapse, Goto, End, memory
<1>45. ASSUME NEW files \in SUBSET {"config", "profiles", "secrets", "local"},
             NEW old \in {inner.disk, outer.disk}, FilesStop(files, old)
      PROVE UserFileComesBack'
    BY <1>45, <1>0, <1>a DEF FilesStop, Lapse, Aborted, Goto, End, memory
<1>46. CASE Unlink
    BY <1>46, <1>0, <1>a DEF Unlink, Goto, memory, history
<1>47. ASSUME NEW v \in Versions, Sweep(v)
      PROVE UserFileComesBack'
    BY <1>47, <1>0, <1>a DEF Sweep, Goto, memory, history
<1>48. CASE Finish
    BY <1>48, <1>0, <1>a DEF Finish, End, memory, Places
<1>49. CASE Fail
    BY <1>49, <1>0, <1>a, FailLeads DEF Fail, memory, End, Steps
<1>50. CASE Kill
    BY <1>50, <1>0, <1>a DEF Kill, machine, memory
<1>51. CASE Interrupt
    BY <1>51, <1>0, <1>a DEF Interrupt, End, memory, Steps
<1>52. ASSUME NEW a \in Agents, Edit(a)
      PROVE UserFileComesBack'
  <2>1. CASE op.kind = "disconnect" /\ op.agent = a
    <3>1. /\ op' = op /\ agent'[a] = [agent[a] EXCEPT !.file = "edited"] /\ mine'[a] = "edited"
          /\ replaced'[a] = "user"
      BY <1>52, <1>0 DEF Edit, memory
    <3>2. agent'[a].file = "edited"
      BY <1>0, <3>1 DEF Agent
    <3> QED
      BY <2>1, <3>1, <3>2
  <2>2. CASE ~(op.kind = "disconnect" /\ op.agent = a)
    <3>1. op' = op /\ outcome' = outcome /\ pc' = pc /\ pc = "idle"
      BY <1>52 DEF Edit, memory
    <3>2. op.kind = "disconnect" => agent'[op.agent] = agent[op.agent]
                      /\ mine'[op.agent] = mine[op.agent] /\ replaced'[op.agent] = replaced[op.agent]
      BY <1>52, <1>0, <2>2 DEF Edit
    <3> QED
      BY <1>0, <1>a, <3>1, <3>2
  <2> QED
    BY <2>1, <2>2
<1>53. CASE StartRuntime \/ StartRefused \/ RuntimeDies \/ Capture \/ UNCHANGED vars
    BY <1>53, <1>0, <1>a DEF StartRuntime, memory, history, StartRefused,
                             RuntimeDies, Capture, machine, vars
<1> HIDE DEF UserFileComesBack
<1> QED
    BY <1>1, <1>2, <1>3, <1>4, <1>5, <1>6, <1>7, <1>8, <1>9, <1>10, <1>11, <1>12, <1>13,
       <1>14, <1>15, <1>16, <1>17, <1>18, <1>19, <1>20, <1>21, <1>22, <1>23, <1>24, <1>25,
       <1>26, <1>27, <1>28, <1>29, <1>30, <1>31, <1>32, <1>33, <1>34, <1>35, <1>36, <1>37,
       <1>38, <1>39, <1>40, <1>41, <1>42, <1>43, <1>44, <1>45, <1>46, <1>47, <1>48, <1>49,
       <1>50, <1>51, <1>52, <1>53
    DEF Next, BeginStep, WriteStep, InstallSteps, AgentStep, RollbackStep, RemovalStep

LEMMA UserFilesStep ==
    ASSUME TypeOK, AskedFor, Places, UserFiles, [Next]_vars
    PROVE  UserFiles'
<1>1. ASSUME NEW a \in Agents, Kind(a)' # "hooks"
      PROVE  OwnFile(a)'
  <2>1. Kind(a) # "hooks"
    BY <1>1, KindStep
  <2>2. OwnFile(a)
    BY <2>1 DEF UserFiles
  <2> QED
    BY <2>1, <2>2, OwnFileStep
<1> QED
    BY <1>1, ComesBackStep DEF UserFiles

-----------------------------------------------------------------------------
(* The invariant, and what it gives                                         *)

\* How an agent is found at the start.
LEMMA FoundAgent ==
    ASSUME NEW kind \in Kinds, NEW file \in {"none", "user"}, NEW v \in Versions
    PROVE  LET now == Connected(kind, Fresh(kind, file), v) IN
           /\ Fresh(kind, file) \in Agent /\ Fresh(kind, file).kind = kind
           /\ RestoredFile(Fresh(kind, file)) = file /\ Fresh(kind, file).record = NoRecord
           /\ now \in Agent /\ now.kind = kind
           /\ kind # "hooks" => RestoredFile(now) = file /\ now.file = v
<1> DEFINE old == Fresh(kind, file)
           now == Connected(kind, old, v)
<1>1. /\ old \in Agent /\ old.kind = kind /\ old.file = file /\ old.record = NoRecord
      /\ old.hooks = {"user"} /\ old.active = "none"
    BY DEF Fresh, Agent, Contents, Enabling, None
<1>2. RestoredFile(old) = file
    BY <1>1 DEF RestoredFile
<1>3. CASE kind = "hooks"
  <2>1. now = [old EXCEPT !.settings = "enabled", !.hooks = MergeHooks(@), !.file = @,
                          !.record = @, !.active = @]
    BY <1>3 DEF Connected
  <2>2. MergeHooks(old.hooks) \in SUBSET {"user", "ours"}
    BY <1>1 DEF MergeHooks
  <2> QED
    BY <1>1, <1>2, <1>3, <2>1, <2>2 DEF Agent, Enabling
<1>4. CASE kind # "hooks"
  <2> DEFINE record == [before |-> file, after |-> v, settings |-> "none"]
  <2>1. now = [old EXCEPT !.settings = "enabled", !.hooks = @, !.file = v, !.record = record,
                          !.active = IF kind = "hermes" THEN "enabled" ELSE @]
    BY <1>1, <1>4 DEF Connected, None
  <2>2. record \in Records /\ v \in Contents /\ v # "absent"
    BY InstallerAssumption DEF Records, Contents, Enabling
  <2>3. now \in Agent /\ now.kind = kind
    BY <1>1, <2>1, <2>2 DEF Agent, Enabling
  <2>4. now.file = v /\ now.record = record
    BY <1>1, <2>1 DEF Agent
  <2>5. RestoredFile(now) = file
    BY <2>2, <2>4 DEF RestoredFile, NoRecord
  <2> QED
    BY <1>1, <1>2, <2>3, <2>4, <2>5
<1> QED
    BY <1>1, <1>2, <1>3, <1>4

\* The states an installer may find.
LEMMA InitTypes ==
    ASSUME Init
    PROVE  /\ TypeOK
           /\ \A a \in Agents : Kind(a) # "hooks" =>
                RestoredFile(agent[a]) = mine[a]
                /\ (agent[a].record # NoRecord => agent[a].file # "none")
           /\ current \in releases \cup {None}
           /\ Fit(db, current) /\ (disk.config.gen = 0 => current = None) /\ Marked(db)
<1>1. /\ Found \subseteq Versions /\ Schema \in [Versions -> Nat] /\ Reformed \subseteq Versions
      /\ "none" \notin Versions /\ MaxOps \in Nat /\ MaxFaults \in Nat /\ MaxRounds \in Nat
      /\ 0 \notin Gens
    BY InstallerAssumption DEF None
<1>2. PICK setup \in Setups :
        /\ place = setup.place /\ mine = setup.file
        /\ \/ NothingThere(setup)
           \/ \E v \in Found, g \in Gens, connected \in SUBSET Agents :
                   ReleaseThere(setup, v, g, connected)
    BY DEF Init
<1>2a. PICK kind \in [Agents -> Kinds] :
        setup.kind = kind /\ setup.file \in [Agents -> {"none", "user"}]
        /\ setup.place \in {"default", "named"}
    BY InstallerAssumption
<1>3. /\ mine \in [Agents -> {"none", "user"}] /\ place \in {"default", "named"}
      /\ \A a \in Agents : kind[a] \in Kinds /\ mine[a] \in {"none", "user"}
    BY <1>2, <1>2a
<1> DEFINE Right == /\ releases \subseteq Versions /\ current \in Versions \cup {None}
                    /\ binlink \in {"present", "absent"} /\ disk \in Disks /\ db \in Databases
                    /\ agent \in [Agents -> Agent]
           Owned == \A a \in Agents : Kind(a) # "hooks" =>
                      RestoredFile(agent[a]) = mine[a]
                      /\ (agent[a].record # NoRecord => agent[a].file # "none")
           Fits == /\ current \in releases \cup {None}
                   /\ Fit(db, current) /\ (disk.config.gen = 0 => current = None) /\ Marked(db)
<1>4. ASSUME releases = {}, current = None, binlink = "absent", disk = NoDisk,
             db = NoDatabase, agent = [a \in Agents |-> Fresh(kind[a], mine[a])]
      PROVE  Right /\ Owned /\ Fits
  <2>1. disk \in Disks /\ db \in Databases
    BY <1>4, Constants
  <2>2. Fits
    BY <1>4 DEF Fit, Marked, NoDatabase
  <2>3. ASSUME NEW a \in Agents
        PROVE  /\ agent[a] \in Agent /\ RestoredFile(agent[a]) = mine[a]
               /\ agent[a].record = NoRecord
    <3>1. agent[a] = Fresh(kind[a], mine[a]) /\ kind[a] \in Kinds /\ mine[a] \in {"none", "user"}
      BY <1>3, <1>4
    <3>2. /\ Fresh(kind[a], mine[a]) \in Agent /\ Fresh(kind[a], mine[a]).record = NoRecord
      BY <3>1 DEF Fresh, Agent, Contents, Enabling, None
    <3> QED
      BY <3>1, <3>2 DEF RestoredFile, Fresh
  <2>4. agent \in [Agents -> Agent]
    BY <1>4, <2>3
  <2> QED
    BY <1>4, <2>1, <2>2, <2>3, <2>4
<1>5. ASSUME NEW v \in Found, NEW g \in Gens, NEW connected \in SUBSET Agents,
             releases = {v}, current = v, binlink = "present",
             disk = [config |-> [gen |-> g, sel |-> [a \in Agents |->
                                       IF a \in connected THEN "enabled" ELSE None]],
                     profiles |-> g, secrets |-> g, local |-> [gen |-> g, release |-> v]],
             db = [profile |-> [gen |-> g, code |-> v], probed |-> [gen |-> g, code |-> v],
                   schema |-> Schema[v], rounds |-> {}, legacy |-> {},
                   marker |-> IF v \in Reformed THEN "yes" ELSE "no", delivering |-> "no"],
             agent = [a \in Agents |-> IF a \in connected
                                       THEN Connected(kind[a], Fresh(kind[a], mine[a]), v)
                                       ELSE Fresh(kind[a], mine[a])]
      PROVE  Right /\ Owned /\ Fits
  <2>1. v \in Versions /\ Schema[v] \in Nat
    BY <1>1
  <2>2. [a \in Agents |-> IF a \in connected THEN "enabled" ELSE None] \in Selections
    BY DEF Selections, Enabling, None
  <2>3. disk \in Disks
    BY <1>5, <2>1, <2>2 DEF Disks
  <2>4. db \in Databases
    <3>1. [gen |-> g, code |-> v] \in Fingerprints
      BY <2>1 DEF Fingerprints
    <3> QED
      BY <1>5, <2>1, <3>1 DEF Databases
  <2>5. disk.config.gen = g /\ db.schema = Schema[v] /\ db.legacy = {}
        /\ (db.marker = "yes" => v \in Reformed)
    BY <1>5
  <2>6. Fits
    BY <1>1, <1>5, <2>1, <2>5 DEF Fit, Marked
  <2>7. ASSUME NEW a \in Agents
        PROVE  /\ agent[a] \in Agent
               /\ agent[a].kind # "hooks" => RestoredFile(agent[a]) = mine[a]
                                    /\ (agent[a].record # NoRecord => agent[a].file # "none")
    <3>1. kind[a] \in Kinds /\ mine[a] \in {"none", "user"}
      BY <1>3
    <3>2. CASE a \in connected
      <4>1. agent[a] = Connected(kind[a], Fresh(kind[a], mine[a]), v)
        BY <1>5, <3>2
      <4>2. agent[a] \in Agent /\ agent[a].kind = kind[a]
            /\ (kind[a] # "hooks" => RestoredFile(agent[a]) = mine[a] /\ agent[a].file = v)
        BY <2>1, <3>1, <4>1, FoundAgent
      <4> QED
        BY <1>1, <2>1, <4>2
    <3>3. CASE a \notin connected
      <4>1. agent[a] = Fresh(kind[a], mine[a])
        BY <1>5, <3>3
      <4> QED
        BY <2>1, <3>1, <4>1, FoundAgent
    <3> QED
      BY <3>2, <3>3
  <2>8. agent \in [Agents -> Agent]
    BY <1>5, <2>7
  <2> QED
    BY <1>5, <2>1, <2>3, <2>4, <2>6, <2>7, <2>8 DEF Kind
<1>6. Right /\ Owned /\ Fits
  <2>1. CASE NothingThere(setup)
    BY <1>2, <1>2a, <1>4, <2>1 DEF NothingThere
  <2>2. ASSUME NEW v \in Found, NEW g \in Gens, NEW connected \in SUBSET Agents,
               ReleaseThere(setup, v, g, connected)
        PROVE  Right /\ Owned /\ Fits
    <3>1. /\ releases = {v} /\ current = v /\ binlink = "present"
          /\ disk = [config |-> [gen |-> g, sel |-> [a \in Agents |->
                                    IF a \in connected THEN "enabled" ELSE None]],
                     profiles |-> g, secrets |-> g, local |-> [gen |-> g, release |-> v]]
          /\ db = [profile |-> [gen |-> g, code |-> v], probed |-> [gen |-> g, code |-> v],
                   schema |-> Schema[v], rounds |-> {}, legacy |-> {},
                   marker |-> IF v \in Reformed THEN "yes" ELSE "no", delivering |-> "no"]
      BY <2>2 DEF ReleaseThere
    <3>2. agent = [a \in Agents |-> IF a \in connected
                                    THEN Connected(kind[a], Fresh(kind[a], mine[a]), v)
                                    ELSE Fresh(kind[a], mine[a])]
      BY <1>2, <1>2a, <2>2 DEF ReleaseThere
    <3> HIDE DEF Right, Owned, Fits
    <3> QED
      BY <1>5, <3>1, <3>2
  <2> QED
    BY <1>2, <2>1, <2>2
<1>7. NoOp \in Requests
    BY Constants DEF Requests
<1>8. Fresh("hooks", "none") \in Agent
    BY DEF Fresh, Agent, Kinds, Contents, Enabling, None
<1>9. mine \in [Agents -> {"none", "user", "edited"}]
    BY <1>3
<1> QED
    BY <1>1, <1>3, <1>6, <1>7, <1>8, <1>9, Constants DEF Init, TypeOK

\* The invariant holds at the start ...
LEMMA InitInv ==
    ASSUME Init
    PROVE  InstallerInv
<1>1. /\ pc = "idle" /\ op = NoOp /\ outcome = "none" /\ barrier = "down" /\ spoiled = {}
      /\ runtime = None /\ NoOp.kind = "none"
      /\ lapsed = {} /\ disturbed = {}
    BY DEF Init, NoOp
<1>2. Places /\ AskedFor /\ Linked
    BY <1>1, InitTypes DEF Places, AskedFor, Linked, NoDanglingCurrent, UndoSteps,
                           Installing
<1>3. Restorable
    BY <1>1 DEF Restorable, Lapses, Changed, Releases, Remembered, GoingBack,
                FailureRestores, FirstSteps,
                ConnectSteps, UndoSteps, BackSteps, CommittedSteps, WriteSteps, Installing, Saving
<1>4. Signed /\ Barred
    BY <1>1 DEF Signed, Barred, BarrierOnlyInUpdate
<1>5. SchemaInv
    BY <1>1, InitTypes DEF SchemaInv, SchemaKept, SchemaSaved, NewSteps, OldSteps,
                           FirstSteps,
                ConnectSteps, BackSteps, Installing, Saving
<1>6. WrittenSoFar /\ Updated /\ RoundsKept
    BY <1>1 DEF WrittenSoFar, Updated, RoundsKept, Installing
<1>7. Cut
    BY <1>1, InitTypes DEF Cut
<1>8. UserFiles
  <2>1. ASSUME NEW a \in Agents, Kind(a) # "hooks"
        PROVE  OwnFile(a)
    <3>1. ~Unrecorded(a)
      BY <1>1 DEF Unrecorded
    <3> QED
      BY <1>1, <2>1, <3>1, InitTypes DEF OwnFile, Came, Init
  <2> QED
    BY <1>1, <2>1 DEF UserFiles, UserFileComesBack
<1> QED
    BY <1>2, <1>3, <1>4, <1>5, <1>6, <1>7, <1>8, InitTypes DEF InstallerInv

\* ... and in every step.
LEMMA InvStep ==
    ASSUME InstallerInv, [Next]_vars
    PROVE  InstallerInv'
<1>1. /\ TypeOK /\ Places /\ AskedFor /\ Linked /\ Restorable /\ Signed /\ Barred /\ SchemaInv
      /\ WrittenSoFar /\ Updated /\ Cut /\ RoundsKept /\ UserFiles
    BY DEF InstallerInv
<1>2. TypeOK' /\ Places' /\ AskedFor'
    BY <1>1, TypeStep, PlacesStep, AskedForStep
<1>3. Linked' /\ Restorable'
    BY <1>1, LinkedStep, RestorableStep
<1>4. Signed' /\ Barred'
    BY <1>1, SignedStep, BarredStep
<1>5. SchemaInv'
    BY <1>1, SchemaStep
<1>6. WrittenSoFar' /\ Updated'
    BY <1>1, WrittenStep, UpdatedStep
<1>7. Cut' /\ RoundsKept'
    BY <1>1, CutStep, RoundsStep
<1>8. UserFiles'
    BY <1>1, UserFilesStep
<1> QED
    BY <1>2, <1>3, <1>4, <1>5, <1>6, <1>7, <1>8 DEF InstallerInv

\* Whatever the operations and wherever they are cut off, the installer keeps
\* its invariant.
THEOREM InstallerInvariance == Spec => []InstallerInv
<1>1. Init => InstallerInv
    BY InitInv
<1>2. InstallerInv /\ [Next]_vars => InstallerInv'
    BY InvStep
<1> QED
    BY <1>1, <1>2, PTL DEF Spec

\* What is in use, whichever operations came before and however they ended
\* (InstallTransaction.rollback, update, uninstall, migrate_contract_payloads), is a
\* release that is there, signed unless an operation was killed or a rollback
\* failed, fit for its database with the exceptions that SchemaFits names, one of
\* them an update that cannot put back a database of another directory, and fit
\* for its payloads; the barrier is up only in an update or after a kill.
THEOREM WhatIsInUseFits == Spec => []ReleaseFits
<1>1. InstallerInv => ReleaseFits
  <2> SUFFICES ASSUME InstallerInv
               PROVE  ReleaseFits
    OBVIOUS
  <2>1. TypeOK /\ NoDanglingCurrent /\ BarrierOnlyInUpdate
    BY DEF InstallerInv, Linked, Barred
  <2>2. CurrentIsSigned
    BY DEF InstallerInv, Signed, CurrentIsSigned, CommittedSteps, WriteSteps
  <2>3. SchemaFits
    BY DEF InstallerInv, SchemaInv, SchemaKept, SchemaFits, Fit
  <2>4. MarkerTells
    BY DEF InstallerInv, Cut, Marked, MarkerTells
  <2> QED
    BY <2>1, <2>2, <2>3, <2>4 DEF ReleaseFits
<1> QED
    BY <1>1, InstallerInvariance, PTL

\* An installation, update or reconfiguration that failed at any step has put back
\* link, releases, configuration and secrets, and the profiles where its handlers
\* save the database that is in use; the handlers of an update run one after the
\* other, and the second makes up for a first that fails
\* (InstallTransaction.rollback, update's except).
THEOREM AFailureRestores == Spec => []FailureRestores
<1>1. InstallerInv => FailureRestores
    BY DEF InstallerInv, Restorable
<1> QED
    BY <1>1, InstallerInvariance, PTL

\* After an update all files are of one configuration, and what was probed is what
\* the profiles are now, whoever materialized them (write_local_profiles,
\* _assert_generation_capabilities_ready).
THEOREM AnUpdateIsReady == Spec => []UpdateIsReady
<1>1. InstallerInv => UpdateIsReady
    BY DEF InstallerInv, Updated, UpToDate, UpdateIsReady
<1> QED
    BY <1>1, InstallerInvariance, PTL

\* Disconnecting an agent puts back what the payload replaced last, the user's own
\* file or, after a repair, an update or a second connection, a payload of
\* LedgerMind's, whatever failed or was edited in between (restore_plugin,
\* PluginTargetAdapter.uninstall).
THEOREM TheUsersFileComesBack == Spec => []UserFileComesBack
<1>1. InstallerInv => UserFileComesBack
    BY DEF InstallerInv, UserFiles
<1> QED
    BY <1>1, InstallerInvariance, PTL

\* An update loses no round: while its barrier is up the runtime is stopped, so that
\* both backups of rounds.db are as new as the last round (update's handler,
\* restore_backups).
THEOREM AnUpdateLosesNoRound == Spec => UpdateLosesNoRound
<1>1. InstallerInv /\ [Next]_vars =>
          [op.kind = "update" /\ pc # "idle" => db.rounds \subseteq db'.rounds]_vars
    BY RoundsGrow DEF InstallerInv
<1> QED
    BY <1>1, InstallerInvariance, PTL DEF Spec, UpdateLosesNoRound
=============================================================================
