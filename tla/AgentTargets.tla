---------------------------- MODULE AgentTargets ----------------------------
(***************************************************************************)
(* What LedgerMind puts into an agent's own directories and takes out      *)
(* again: the adapters of installer/targets.  Agents with command hooks    *)
(* (lifecycle.py: Codex, Claude Code, Cursor) get entries in a file that   *)
(* is the user's; agents with plugins (OpenCode, OpenClaw, and Hermes in   *)
(* targets/hermes) get files of their own, and a record of what was in     *)
(* their place.                                                            *)
(***************************************************************************)
CONSTANT Versions   \* releases, whose payloads differ

Kinds == {"hooks", "plugin", "hermes"}
Enabling == {"none", "enabled", "disabled"}

\* A file at the plugin's place: nobody's, the user's, a release's payload, or
\* one that the user changed after it was installed.
Contents == {"none", "user", "edited"} \cup Versions

Records == [before : Contents, after : Versions, settings : Enabling]
NoRecord == [before |-> "none", after |-> "absent", settings |-> "none"]

\* hooks: whose entries the agent's hook file holds.  settings: the bridge's
\* config.json.  active: what the Hermes CLI was last told about the plugin.
Agent == [kind : Kinds, hooks : SUBSET {"user", "ours"}, file : Contents, settings : Enabling,
          record : Records \cup {NoRecord}, active : Enabling]

\* The order in which install writes, before it activates and verifies.
InstallOrder(kind) ==
    IF kind = "hermes" THEN <<"payload", "settings", "record", "verify">>
    ELSE <<"settings", "payload", "record", "verify">>

\* _merge_hooks: entries of LedgerMind are replaced, all others stay.
MergeHooks(hooks) == (hooks \ {"ours"}) \cup {"ours"}

\* _remove_hooks.
RemoveHooks(hooks) == hooks \ {"ours"}

\* The record notes the file that was in the payload's place just now, whoever
\* wrote it.
Recorded(seen, release) == [before |-> seen.file, after |-> release, settings |-> seen.settings]

\* One write of install; seen is the agent as install found it.
InstallStep(kind, step, seen, now, release, enabled) ==
    CASE step = "settings" -> [now EXCEPT !.settings = enabled]
      [] step = "payload" /\ kind = "hooks" -> [now EXCEPT !.hooks = MergeHooks(@)]
      [] step = "payload" /\ kind # "hooks" -> [now EXCEPT !.file = release]
      [] step = "record" /\ kind = "hooks" -> now
      [] step = "record" /\ kind # "hooks" ->
            [now EXCEPT !.record = Recorded(seen, release)]
      [] step = "verify" -> IF kind = "hermes" THEN [now EXCEPT !.active = enabled] ELSE now

\* verify.
Verifies(kind, now) ==
    CASE kind = "hooks" -> "ours" \in now.hooks /\ now.settings # "none"
      [] kind = "plugin" -> now.file # "none" /\ now.settings # "none"
      [] kind = "hermes" -> /\ now.file # "none" /\ now.record # NoRecord
                            /\ now.settings # "none" /\ now.active = now.settings

\* Mutant: the payload is put back whatever is in its place.
RestoredFile_Always(now) == IF now.record = NoRecord THEN now.file ELSE now.record.before

\* restore_plugin and PluginTargetAdapter.uninstall: a file that is not as it was
\* installed is the user's and stays.
RestoredFile(now) ==
    IF now.record = NoRecord \/ now.file \notin {"none", now.record.after}
    THEN now.file ELSE now.record.before

\* uninstall without purge.
Uninstalled(kind, now) ==
    CASE kind = "hooks" -> [now EXCEPT !.hooks = RemoveHooks(@), !.settings = "none"]
      [] kind = "plugin" -> [now EXCEPT !.file = RestoredFile(now), !.settings = "none",
                                        !.record = NoRecord]
      [] kind = "hermes" ->
            IF now.record = NoRecord THEN now
            ELSE [now EXCEPT !.file = RestoredFile(now), !.settings = now.record.settings,
                             !.record = NoRecord]
=============================================================================
