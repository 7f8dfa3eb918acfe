----------------------------- MODULE Inference -----------------------------
(***************************************************************************)
(* Structured generation and embedding: the provider that picks a mode and *)
(* a transport for each request (inference/structured_json_provider.py,    *)
(* strict.py), the HTTP client with its retries (providers/                *)
(* openai_compatible.py), the probe of what an endpoint can do             *)
(* (provider_probe.py), the profile and capability rows they share         *)
(* (profile_store.py, profiles.py) and the embedding cache                 *)
(* (embedding_provider.py).                                                *)
(*                                                                         *)
(* Threads of the runtime generate and embed while the operator changes    *)
(* the profile and a probe runs: every thread works with the profile and   *)
(* the row it has read, and the row is read and rewritten in two steps.    *)
(* One profile is modelled; Configs are its possible contents.             *)
(***************************************************************************)
EXTENDS Naturals, Sequences, FiniteSets, TaskWire

CONSTANTS
    Gens,        \* threads that generate
    Probers,     \* processes that probe
    Embedders,   \* threads that embed
    Configs,     \* contents of the profile: endpoint, model, limits
    Preference,  \* structured_output_preference of each
    Chained,     \* those that name more than one provider route
    Retries,     \* max_retries
    Tasks,       \* tasks of Core that generate
    EmbedTasks,  \* tasks of Core that embed
    Overrides,   \* mode overrides of a probe, "none" among them
    Legacy,      \* rows older releases may have left: sets of modes
    Models,      \* embedding models the installation may be configured with
    Batches,     \* the sets of texts that tasks have embedded
    CacheKeys,   \* cache keys a task may name for its texts
    MaxCalls,    \* bound: calls in one behaviour
    MaxChanges   \* bound: changes by the operator, and damaged cache rows

NoOne == "none"
Texts == UNION Batches
Threads == Gens \cup Probers \cup Embedders
Roles == {"none", "query", "passage"}

ASSUME InferenceAssumption ==
    /\ Preference \in [Configs -> Modes \cup {"auto"}] /\ NoOne \notin Configs
    /\ Chained \subseteq Configs /\ Retries \in Nat /\ MaxCalls \in Nat /\ MaxChanges \in Nat
    /\ Tasks \subseteq GenerateTask /\ EmbedTasks \subseteq EmbedTask
    /\ Overrides \subseteq Modes \cup {"none", "auto"}
    /\ Legacy \subseteq SUBSET (Modes \ {"strict"})
    /\ Gens \cap Probers = {} /\ Gens \cap Embedders = {} /\ Probers \cap Embedders = {}
    /\ Tasks # {}

Fingerprints == [cfg : Configs, mode : Modes \cup {"auto"}]
\* A row of a release that knew no fingerprints.
AnyFingerprint == [cfg |-> NoOne, mode |-> "auto"]
NoRow == [fp |-> AnyFingerprint, status |-> "none", modes |-> {}]
Rows == [fp : Fingerprints \cup {AnyFingerprint},
         status : {"passed", "failed", "unknown"}, modes : SUBSET Modes]
\* Where a request goes: the routes of the configuration in their order, or
\* without the first.
Transports == [cfg : Configs, route : {"chain", "narrowed"}]
Chain(c) == [cfg |-> c, route |-> "chain"]
\* A cache key, a text of a batch under its key, and the vector of a text.
Keys == [model : Models, scope : Scopes, role : Roles, content : Texts \cup CacheKeys]
Items == [key : Keys, role : Roles, text : Texts]
Vectors == [model : Models, role : Roles, text : Texts]
Damaged == [model |-> "damaged", role |-> "damaged", text |-> "damaged"]

VARIABLES
    profile,   \* the stored profile, NoOne when removed or disabled
    secret,    \* whether the secret store holds its secret
    row,       \* its capability row, NoRow without one
    pc,        \* what each thread does next
    task,      \* the task a generation is for
    req,       \* the request it serves
    cfg,       \* the profile it has resolved
    mode,      \* the mode it sends
    phase,     \* primary or fallback
    attempt,   \* HTTP attempts in this phase
    saw,       \* the row it has read and will decide or write with
    outcome,   \* how its last call ended
    model,     \* the embedding model the runtime was started with
    cache,     \* embedding_vector_cache
    want,      \* texts an embedder still has to encode and to store
    got,       \* vectors of its batch
    named,     \* history: the texts asked for under each cache key
    posts,     \* history: HTTP requests of the call
    proven,    \* history: transports that answered a strict probe
    calls, changes

store == <<profile, secret, row>>
gen == <<pc, task, req, cfg, mode, phase, attempt, saw, outcome>>
embed == <<model, cache, want, got, named>>
history == <<posts, proven>>
vars == <<store, gen, embed, history, calls, changes>>

Outcomes ==
    {"none", "ok", "profile_missing", "output_budget", "invalid_request", "input_budget",
     "secret_missing", "capability_unverified", "transient", "auth",
     "response", "schema_shape", "cancelled", "store_error", "passed", "failed",
     "embedding_error"}

TypeOK ==
    /\ profile \in Configs \cup {NoOne} /\ secret \in {"present", "absent"}
    /\ row \in Rows \cup {NoRow}
    /\ pc \in [Threads -> {"idle", "resolve", "select", "secret", "verify", "post", "record",
                           "write", "cached", "look", "encode", "store"}]
    /\ task \in [Gens -> Tasks] /\ req \in [Threads -> RequestType]
    /\ cfg \in [Threads -> Configs \cup {NoOne}]
    /\ mode \in [Threads -> Modes \cup {"none"}]
    /\ phase \in [Threads -> {"primary", "fallback"}]
    /\ attempt \in [Threads -> 0..(Retries + 1)]
    /\ saw \in [Threads -> Rows \cup {NoRow}]
    /\ outcome \in [Threads -> Outcomes]
    /\ model \in Models /\ cache \subseteq [key : Keys, vector : Vectors \cup {Damaged}]
    /\ want \in [Embedders -> SUBSET Items]
    /\ got \in [Embedders -> SUBSET [item : Items, vector : Vectors]]
    /\ named \subseteq [key : Keys, text : Texts]
    /\ posts \in [Threads -> Nat] /\ proven \subseteq Transports
    /\ calls \in 0..MaxCalls /\ changes \in 0..MaxChanges

AnyRequest == [mode |-> "none", format |-> "none", requirement |-> "none",
               schema |-> "none", tokens |-> "fits", size |-> "fits", force |-> "no"]

Init ==
    /\ profile \in Configs /\ secret = "present"
    /\ \/ row = NoRow
       \/ \E ms \in Legacy : row = [fp |-> AnyFingerprint, status |-> "passed", modes |-> ms]
    /\ pc = [t \in Threads |-> "idle"] /\ req = [t \in Threads |-> AnyRequest]
    /\ task = [t \in Gens |-> CHOOSE w \in Tasks : TRUE]
    /\ cfg = [t \in Threads |-> NoOne] /\ mode = [t \in Threads |-> "none"]
    /\ phase = [t \in Threads |-> "primary"] /\ attempt = [t \in Threads |-> 0]
    /\ saw = [t \in Threads |-> NoRow] /\ outcome = [t \in Threads |-> "none"]
    /\ model \in Models /\ cache = {}
    /\ want = [t \in Embedders |-> {}] /\ got = [t \in Embedders |-> {}] /\ named = {}
    /\ posts = [t \in Threads |-> 0] /\ proven = {}
    /\ calls = 0 /\ changes = 0

-----------------------------------------------------------------------------
(* Profiles and capabilities                                                *)

\* generation_profile_fingerprint: a mode asked for replaces the preference.
Fingerprint(c, override) ==
    [cfg |-> c, mode |-> IF override = "none" THEN Preference[c] ELSE override]

\* ProviderCapabilities.is_fresh: time alone does not matter.
Fresh(r, fp) == r # NoRow /\ r.status = "passed" /\ r.fp \in {fp, AnyFingerprint}

Supports(r, m) == r # NoRow /\ m \in r.modes

\* _load_capabilities: the row for the profile as it is, or for the override.
Loaded(c, override) ==
    IF row # NoRow /\ (\/ Fresh(row, Fingerprint(c, "none"))
                       \/ Fresh(row, Fingerprint(c, override))
                       \/ row.fp = AnyFingerprint)
    THEN row ELSE NoRow

\* invalidate_capabilities.
Invalidated(r) == [r EXCEPT !.status = "unknown"]

\* upsert: a row for another fingerprint is not used any more.
SetProfile(c) ==
    /\ changes < MaxChanges /\ changes' = changes + 1
    /\ profile # c /\ profile' = c
    /\ row' = IF profile # NoOne /\ row # NoRow /\ row.fp \notin {AnyFingerprint, Fingerprint(c, "none")}
              THEN Invalidated(row) ELSE row
    /\ UNCHANGED <<secret, gen, embed, history, calls>>

\* remove: the capability row goes with the profile.
RemoveProfile ==
    /\ changes < MaxChanges /\ changes' = changes + 1
    /\ profile # NoOne /\ profile' = NoOne /\ row' = NoRow
    /\ UNCHANGED <<secret, gen, embed, history, calls>>

\* SecretStore.put and delete: the file is replaced as a whole.
SetSecret(s) ==
    /\ changes < MaxChanges /\ changes' = changes + 1
    /\ secret # s /\ secret' = s
    /\ UNCHANGED <<profile, row, gen, embed, history, calls>>

-----------------------------------------------------------------------------
(* generate_json                                                            *)

Goto(t, label) == pc' = [pc EXCEPT ![t] = label]
End(t, how) == Goto(t, "idle") /\ outcome' = [outcome EXCEPT ![t] = how]

\* A thread begins a call.
Begin(t, label) ==
    /\ pc[t] = "idle" /\ calls < MaxCalls /\ calls' = calls + 1
    /\ Goto(t, label)
    /\ outcome' = [outcome EXCEPT ![t] = "none"]
    /\ posts' = [posts EXCEPT ![t] = 0] /\ attempt' = [attempt EXCEPT ![t] = 0]
    /\ cfg' = [cfg EXCEPT ![t] = NoOne] /\ mode' = [mode EXCEPT ![t] = "none"]
    /\ saw' = [saw EXCEPT ![t] = NoRow]

\* _execute_generate_json, for a task that was decoded and converted.  The
\* worker's retry of the task it has just executed forces the next route.
Generate(t, w, force) ==
    /\ t \in Gens /\ Decodes(w) /\ Begin(t, "resolve")
    /\ force = "yes" => task[t] = w /\ outcome[t] # "none"
    /\ task' = [task EXCEPT ![t] = w]
    /\ req' = [req EXCEPT ![t] = Converted(w, force)]
    /\ phase' = [phase EXCEPT ![t] = "primary"]
    /\ UNCHANGED <<store, embed, proven, changes>>

\* _normalize_contract_and_mode: a response_format wins over the modes asked for.
Normalized(r) ==
    IF r.format \in {"json_object", "json_schema"} THEN r.format ELSE r.mode

IsStrict(r) == r.requirement # "none" \/ Normalized(r) = "strict"

\* The mode a request asks for, or "invalid".
Requested(r) ==
    IF r.format = "other" THEN "invalid"
    ELSE IF ~IsStrict(r) THEN Normalized(r)
    ELSE IF Normalized(r) \in {"none", "auto", "strict"} /\ StrictRequirement(r.requirement, r.schema)
         THEN "strict"
    ELSE "invalid"

\* StoreBackedProfileResolver.resolve_profile, the output budget, the contract.
Resolve(t) ==
    /\ t \in Gens /\ pc[t] = "resolve"
    /\ cfg' = [cfg EXCEPT ![t] = profile]
    /\ IF profile = NoOne THEN End(t, "profile_missing")
       ELSE IF req[t].tokens = "over" THEN End(t, "output_budget")
       ELSE IF Requested(req[t]) = "invalid" THEN End(t, "invalid_request")
       ELSE Goto(t, "select") /\ UNCHANGED outcome
    /\ UNCHANGED <<store, task, req, mode, phase, attempt, saw, embed, history, calls, changes>>

ModeOrder == <<"strict", "json_schema", "tool_call", "json_object", "prompt_only">>

\* The first mode the row supports; json_object for a profile without a row.
Automatic(r) ==
    IF \E i \in 1..5 : Supports(r, ModeOrder[i])
    THEN ModeOrder[CHOOSE i \in 1..5 : /\ Supports(r, ModeOrder[i])
                                       /\ \A j \in 1..(i - 1) : ~Supports(r, ModeOrder[j])]
    ELSE IF r # NoRow /\ r.status = "passed" THEN "invalid" ELSE "json_object"

\* The mode asked for, or the operator's preference.
Candidate(r, c) == IF Requested(r) = "none" THEN Preference[c] ELSE Requested(r)

\* _select_mode: an explicit choice is kept as it is.
Selected(r, c) ==
    IF Candidate(r, c) = "auto" THEN Automatic(Loaded(c, "none")) ELSE Candidate(r, c)

\* _build_request: a schema mode needs a schema.
Buildable(r, m) ==
    m \in {"strict", "json_schema"} => r.schema # "none" \/ r.format = "json_schema"

\* _select_mode, _build_request and the input budget, before the secret is read.
SelectMode(t) ==
    /\ pc[t] = "select"
    /\ LET m == Selected(req[t], cfg[t]) IN
        IF m = "invalid" \/ ~Buildable(req[t], m)
        THEN End(t, "invalid_request") /\ UNCHANGED mode
        ELSE /\ mode' = [mode EXCEPT ![t] = m]
             /\ IF req[t].size = "over" THEN End(t, "input_budget")
                ELSE Goto(t, "secret") /\ UNCHANGED outcome
    /\ UNCHANGED <<store, task, req, cfg, phase, attempt, saw, embed, history, calls, changes>>

GetSecret(t) ==
    /\ t \in Gens /\ pc[t] = "secret"
    /\ IF secret = "absent" THEN End(t, "secret_missing")
       ELSE Goto(t, "verify") /\ UNCHANGED outcome
    /\ UNCHANGED <<store, task, req, cfg, mode, phase, attempt, saw, embed, history, calls, changes>>

\* Mutant: the row is taken as it is, for whatever profile it was written.
Verify_AnyRow(t) ==
    /\ pc[t] = "verify"
    /\ IF IsStrict(req[t]) /\ ~(row.status = "passed" /\ Supports(row, "strict"))
       THEN End(t, "capability_unverified")
       ELSE Goto(t, "post") /\ UNCHANGED outcome
    /\ UNCHANGED <<store, task, req, cfg, mode, phase, attempt, saw, embed, history, calls, changes>>

\* A strict request goes only where a probe has passed for the profile; the
\* routes are narrowed after that.
Verify(t) ==
    /\ pc[t] = "verify"
    /\ LET r == Loaded(cfg[t], Requested(req[t])) IN
        IF IsStrict(req[t]) /\ ~(Fresh(r, Fingerprint(cfg[t], "strict")) /\ Supports(r, "strict"))
        THEN End(t, "capability_unverified")
        ELSE Goto(t, "post") /\ UNCHANGED outcome
    /\ UNCHANGED <<store, task, req, cfg, mode, phase, attempt, saw, embed, history, calls, changes>>

-----------------------------------------------------------------------------
(* HTTP                                                                     *)

\* _forced_fallback_profile: a forced request leaves out the first route.
Transport(t) ==
    [cfg |-> cfg[t],
     route |-> IF req[t].force = "yes" /\ cfg[t] \in Chained THEN "narrowed" ELSE "chain"]

\* Mutant: a mode that was asked for is overridden by the fallback.
FallbackMode_AnyRequest(r, c, m) ==
    IF r.format # "none" \/ Preference[c] # "auto" THEN "none"
    ELSE CASE m \in {"json_schema", "tool_call"} -> "json_object"
           [] m = "json_object" -> "prompt_only"
           [] OTHER -> "none"

\* _automatic_fallback_mode: only where nobody chose a mode.
FallbackMode(r, c, m) ==
    IF r.format # "none" \/ Requested(r) \notin {"none", "auto"} \/ Preference[c] # "auto"
    THEN "none"
    ELSE CASE m \in {"json_schema", "tool_call"} -> "json_object"
           [] m = "json_object" -> "prompt_only"
           [] OTHER -> "none"

\* The mode on the wire.
Sent(t) == IF phase[t] = "fallback" THEN FallbackMode(req[t], cfg[t], mode[t]) ELSE mode[t]

Posted(t) == posts' = [posts EXCEPT ![t] = @ + 1]

\* _request: a timeout, a transport error, 429 or 5xx, and an attempt is left.
PostRetry(t) ==
    /\ pc[t] = "post" /\ attempt[t] < Retries
    /\ attempt' = [attempt EXCEPT ![t] = @ + 1] /\ Posted(t)
    /\ UNCHANGED <<store, pc, task, req, cfg, mode, phase, saw, outcome, embed, proven, calls, changes>>

\* An error that ends the call: the retries are used up, or the key is refused.
PostFails(t, how) ==
    /\ t \in Gens /\ pc[t] = "post"
    /\ how = "transient" => attempt[t] >= Retries
    /\ Posted(t) /\ End(t, how)
    /\ UNCHANGED <<store, task, req, cfg, mode, phase, attempt, saw, embed, proven, calls, changes>>

\* The token is cancelled before an attempt or while the client sleeps.
Cancel(t) ==
    /\ t \in Gens /\ pc[t] = "post"
    /\ End(t, "cancelled")
    /\ UNCHANGED <<store, task, req, cfg, mode, phase, attempt, saw, embed, history, calls, changes>>

\* An answer that is none: another status, too large, not the JSON asked for.
\* The budget of the fallback is checked on the same messages as before.
PostUnusable(t) ==
    /\ t \in Gens /\ pc[t] = "post"
    /\ Posted(t)
    /\ IF phase[t] = "primary" /\ FallbackMode(req[t], cfg[t], mode[t]) # "none"
       THEN /\ phase' = [phase EXCEPT ![t] = "fallback"]
            /\ attempt' = [attempt EXCEPT ![t] = 0]
            /\ UNCHANGED <<pc, outcome>>
       ELSE End(t, "response") /\ UNCHANGED <<phase, attempt>>
    /\ UNCHANGED <<store, task, req, cfg, mode, saw, embed, proven, calls, changes>>

\* A JSON object; _advisory_schema_issues finds whether it has the schema's shape.
PostAnswered(t, shaped) ==
    /\ t \in Gens /\ pc[t] = "post"
    /\ Posted(t)
    /\ IF phase[t] = "fallback" THEN Goto(t, "record") /\ UNCHANGED outcome
       ELSE End(t, IF IsStrict(req[t]) /\ ~shaped THEN "schema_shape" ELSE "ok")
    /\ UNCHANGED <<store, task, req, cfg, mode, phase, attempt, saw, embed, proven, calls, changes>>

\* record_capability_fallback reads the row by the profile's id ...
RecordRead(t) ==
    /\ pc[t] = "record"
    /\ saw' = [saw EXCEPT ![t] = row]
    /\ IF row = NoRow THEN End(t, "ok") ELSE Goto(t, "write") /\ UNCHANGED outcome
    /\ UNCHANGED <<store, task, req, cfg, mode, phase, attempt, embed, history, calls, changes>>

\* after_successful_fallback.
AfterFallback(r, failed, worked) ==
    [r EXCEPT !.modes = (@ \ (IF failed = "json_schema" THEN {"json_schema", "strict"}
                               ELSE {failed})) \cup {worked}]

\* ... and writes it whole; the row of a profile that is gone is refused.
RecordWrite(t) ==
    /\ pc[t] = "write"
    /\ IF profile = NoOne THEN End(t, "store_error") /\ UNCHANGED row
       ELSE End(t, "ok") /\ row' = AfterFallback(saw[t], mode[t], Sent(t))
    /\ UNCHANGED <<profile, secret, task, req, cfg, mode, phase, attempt, saw, embed, history,
                   calls, changes>>

-----------------------------------------------------------------------------
(* ProviderProbe.probe                                                      *)

\* The override is kept in the request's mode.
Probe(t, override) ==
    /\ t \in Probers /\ Begin(t, "resolve")
    /\ req' = [req EXCEPT ![t] = [AnyRequest EXCEPT !.mode = override]]
    /\ UNCHANGED <<store, task, phase, embed, proven, changes>>

\* _probe_modes: strict unless another mode is asked for.
ProbeResolve(t) ==
    /\ t \in Probers /\ pc[t] = "resolve"
    /\ cfg' = [cfg EXCEPT ![t] = profile]
    /\ mode' = [mode EXCEPT ![t] = IF req[t].mode \in Modes THEN req[t].mode ELSE "strict"]
    /\ IF profile = NoOne THEN End(t, "profile_missing")
       ELSE Goto(t, "cached") /\ UNCHANGED outcome
    /\ UNCHANGED <<store, task, req, phase, attempt, saw, embed, history, calls, changes>>

ProbedFor(t) == Fingerprint(cfg[t], req[t].mode)

\* A row that is fresh is returned, unless a new probe is asked for.
ProbeCached(t) ==
    /\ pc[t] = "cached"
    /\ saw' = [saw EXCEPT ![t] = row]
    /\ \/ Fresh(row, ProbedFor(t)) /\ End(t, "passed")
       \/ Goto(t, "secret") /\ UNCHANGED outcome
    /\ UNCHANGED <<store, task, req, cfg, mode, phase, attempt, embed, history, calls, changes>>

\* _persist: the row of a profile that is gone is refused.
Persist(r) == row' = IF profile = NoOne THEN row ELSE r

\* _failed_result without a secret: a row that has passed is kept.
ProbeSecret(t) ==
    /\ t \in Probers /\ pc[t] = "secret"
    /\ IF secret = "present" THEN Goto(t, "post") /\ UNCHANGED <<outcome, row>>
       ELSE /\ End(t, "failed")
            /\ IF saw[t] # NoRow /\ saw[t].status = "passed" THEN UNCHANGED row
               ELSE Persist([fp |-> Fingerprint(cfg[t], "none"), status |-> "failed",
                             modes |-> {}])
    /\ UNCHANGED <<profile, secret, task, req, cfg, mode, phase, attempt, saw, embed, history,
                   calls, changes>>

\* The endpoint answers the probe with a JSON object.
ProbePasses(t) ==
    /\ t \in Probers /\ pc[t] = "post"
    /\ Posted(t) /\ End(t, "passed")
    /\ Persist([fp |-> ProbedFor(t), status |-> "passed",
                modes |-> IF mode[t] \in {"strict", "json_schema"}
                          THEN {"strict", "json_schema"} ELSE {mode[t]}])
    /\ proven' = IF mode[t] = "strict" THEN proven \cup {Chain(cfg[t])} ELSE proven
    /\ UNCHANGED <<profile, secret, task, req, cfg, mode, phase, attempt, saw, embed, calls, changes>>

\* Mutant: the result of a probe is stored whatever it is.
ProbeFails_Persists(t) ==
    /\ t \in Probers /\ pc[t] = "post"
    /\ Posted(t) /\ End(t, "failed")
    /\ Persist([fp |-> ProbedFor(t), status |-> "failed", modes |-> {}])
    /\ UNCHANGED <<profile, secret, task, req, cfg, mode, phase, attempt, saw, embed, proven,
                   calls, changes>>

\* The probe gets no usable answer: a row that was fresh is kept.
ProbeFails(t) ==
    /\ t \in Probers /\ pc[t] = "post"
    /\ Posted(t) /\ End(t, "failed")
    /\ IF Fresh(saw[t], ProbedFor(t)) THEN UNCHANGED row
       ELSE Persist([fp |-> ProbedFor(t), status |-> "failed", modes |-> {}])
    /\ UNCHANGED <<profile, secret, task, req, cfg, mode, phase, attempt, saw, embed, proven,
                   calls, changes>>

-----------------------------------------------------------------------------
(* EmbeddingProvider.embed_many                                             *)

\* Mutant: query and passage share their cache keys.
Digest_NoRole(m, w, text, key) ==
    [model |-> m, scope |-> w.scope, role |-> "none",
     content |-> IF key = "none" THEN text ELSE key]

\* EmbeddingVectorCache.digest: the profile's fingerprint, the namespace and
\* renderer version, the role, and the key the task names or else the text.
Digest(m, w, text, key) ==
    [model |-> m, scope |-> w.scope, role |-> ConvertedRole(w),
     content |-> IF key = "none" THEN text ELSE key]

\* The cache keys of a task: none, or one for each text.
Explicit(texts, w) == [texts -> IF w.cache_keys = "none" THEN {"none"} ELSE CacheKeys]

\* embed_many, for a task that was decoded; its own check comes before the cache.
Embed(t, texts, w) ==
    /\ t \in Embedders /\ DecodesEmbedding(w) /\ ConvertedRole(w) # "unknown"
    /\ Begin(t, "look")
    /\ \E explicit \in Explicit(texts, w) :
        LET item(x) == [key |-> Digest(model, w, x, explicit[x]), role |-> ConvertedRole(w),
                        text |-> x]
        IN  /\ want' = [want EXCEPT ![t] = {item(x) : x \in texts}]
            /\ named' = named \cup {[key |-> item(x).key, text |-> x] : x \in texts}
    /\ got' = [got EXCEPT ![t] = {}]
    /\ UNCHANGED <<store, task, req, phase, model, cache, proven, changes>>

\* The vectors the cache has for a text of the batch.
Cached(i) ==
    {[item |-> i, vector |-> e.vector] : e \in {r \in cache : r.key = i.key /\ r.vector # Damaged}}

\* PersistentEmbeddingCache.get for each text: a damaged row is deleted.
LookUp(t) ==
    /\ pc[t] = "look"
    /\ LET missing == {i \in want[t] : Cached(i) = {}}
       IN  /\ cache' = {e \in cache : e.vector = Damaged => \A i \in want[t] : i.key # e.key}
           /\ got' = [got EXCEPT ![t] = UNION {Cached(i) : i \in want[t]}]
           /\ want' = [want EXCEPT ![t] = missing]
           /\ IF missing = {} THEN End(t, "ok") ELSE Goto(t, "encode") /\ UNCHANGED outcome
    /\ UNCHANGED <<store, task, req, cfg, mode, phase, attempt, saw, model, named, history,
                   calls, changes>>

\* The vectorizer encodes what is missing, in its role.
Encode(t) ==
    /\ pc[t] = "encode"
    /\ got' = [got EXCEPT ![t] = @ \cup
                  {[item |-> i, vector |-> [model |-> model, role |-> i.role, text |-> i.text]]
                     : i \in want[t]}]
    /\ Goto(t, "store")
    /\ UNCHANGED <<store, task, req, cfg, mode, phase, attempt, saw, outcome, model, cache, want,
                   named, history, calls, changes>>

\* A partial result, a vector that is not finite or of another dimension, or an
\* error of the backend: nothing of the batch is kept.
EncodeFails(t) ==
    /\ pc[t] = "encode"
    /\ End(t, "embedding_error")
    /\ got' = [got EXCEPT ![t] = {}]
    /\ UNCHANGED <<store, task, req, cfg, mode, phase, attempt, saw, model, cache, want,
                   named, history, calls, changes>>

\* PersistentEmbeddingCache.put, one transaction per vector.
PutVector(t, i) ==
    /\ pc[t] = "store" /\ i \in want[t]
    /\ cache' = {e \in cache : e.key # i.key} \cup
                {[key |-> i.key, vector |-> v.vector] : v \in {u \in got[t] : u.item = i}}
    /\ want' = [want EXCEPT ![t] = @ \ {i}]
    /\ IF want[t] = {i} THEN End(t, "ok") ELSE UNCHANGED <<pc, outcome>>
    /\ UNCHANGED <<store, task, req, cfg, mode, phase, attempt, saw, model, got, named, history,
                   calls, changes>>

\* A row of the cache is damaged on disk.
Damage(e) ==
    /\ changes < MaxChanges /\ changes' = changes + 1
    /\ e.vector # Damaged
    /\ cache' = (cache \ {e}) \cup {[e EXCEPT !.vector = Damaged]}
    /\ UNCHANGED <<store, gen, model, want, got, named, history, calls>>

\* The runtime ends anywhere and is started again with another embedding model.
Restart(m) ==
    /\ changes < MaxChanges /\ changes' = changes + 1
    /\ model' = m
    /\ pc' = [t \in Threads |-> IF t \in Probers THEN pc[t] ELSE "idle"]
    /\ outcome' = [t \in Threads |-> IF t \in Probers THEN outcome[t] ELSE "none"]
    /\ want' = [t \in Embedders |-> {}] /\ got' = [t \in Embedders |-> {}]
    /\ UNCHANGED <<store, task, req, cfg, mode, phase, attempt, saw, cache, named, history, calls>>

GenerateStep(t) ==
    \/ Resolve(t) \/ SelectMode(t) \/ GetSecret(t) \/ Verify(t) \/ PostRetry(t)
    \/ \E how \in {"transient", "auth"} : PostFails(t, how)
    \/ Cancel(t) \/ PostUnusable(t) \/ \E shaped \in BOOLEAN : PostAnswered(t, shaped)
    \/ RecordRead(t) \/ RecordWrite(t)

ProbeStep(t) ==
    ProbeResolve(t) \/ ProbeCached(t) \/ ProbeSecret(t) \/ ProbePasses(t) \/ ProbeFails(t)

EmbedStep(t) ==
    LookUp(t) \/ Encode(t) \/ EncodeFails(t) \/ \E i \in Items : PutVector(t, i)

Next ==
    \/ \E t \in Gens : GenerateStep(t) \/ \E w \in Tasks, force \in {"yes", "no"} : Generate(t, w, force)
    \/ \E t \in Probers : ProbeStep(t) \/ \E o \in Overrides : Probe(t, o)
    \/ \E t \in Embedders : \/ EmbedStep(t)
                            \/ \E texts \in Batches, w \in EmbedTasks : Embed(t, texts, w)
    \/ (\E c \in Configs : SetProfile(c)) \/ RemoveProfile
    \/ \E s \in {"present", "absent"} : SetSecret(s)
    \/ (\E e \in cache : Damage(e)) \/ \E m \in Models : Restart(m)

Spec == Init /\ [][Next]_vars

-----------------------------------------------------------------------------
(* Properties                                                               *)

\* A strict request is on its way only to an endpoint, model, configuration and
\* chain of routes that has answered a strict probe, however the profile and the
\* row were changed while request and probe were under way (the fingerprint of
\* the profile the thread resolved, not of the one that is stored now).  The
\* exception is a forced request: "that retry selects the fallback route"
\* (README.md:189), which was probed only as a part of its chain.
StrictOnlyVerified ==
    \A t \in Gens : pc[t] = "post" /\ IsStrict(req[t]) =>
        \/ Transport(t) \in proven
        \/ req[t].force = "yes" /\ cfg[t] \in Chained /\ Chain(cfg[t]) \in proven

\* A mode that the task names is what goes over the wire, in the fallback too,
\* and where the operator has a preference there is no fallback: "explicit
\* operator choices remain fail-closed" (_automatic_fallback_mode).  The
\* preference itself is not what is sent: the conversion gives every task a
\* mode, auto at least, and _select_mode looks at the preference only of a
\* request without one.
ChoiceKept ==
    \A t \in Gens : pc[t] = "post" =>
        /\ Requested(req[t]) # "auto" => Sent(t) = Requested(req[t])
        /\ Preference[cfg[t]] # "auto" => Sent(t) = mode[t]

\* "Local ... must not downgrade a Core semantic request to another response
\* mode" (strict.py:3): a semantic task is sent in strict mode or not at all,
\* whatever mix of the two mode fields and the requirement it came with.  The
\* exception is a semantic task with a response_format and no requirement, which
\* the code does downgrade: the contract lets it pass, and the provider puts the
\* response_format above the mode.
SemanticIsStrict ==
    \A t \in Gens : pc[t] = "post" /\ task[t].operation = "semantic" =>
        \/ Sent(t) = "strict"
        \/ req[t].format # "none" /\ req[t].requirement = "none" /\ Sent(t) = req[t].format

\* A call costs at most max_retries + 1 HTTP requests, and as many again only
\* for the one fallback of an automatic choice.
BoundedPosts ==
    \A t \in Threads :
        posts[t] <= (Retries + 1) * (IF t \in Gens /\ phase[t] = "fallback" THEN 2 ELSE 1)

\* Requests go out in the mode that was asked for, and not more often than that.
RequestsAsAsked == TypeOK /\ ChoiceKept /\ SemanticIsStrict /\ BoundedPosts

\* What a batch returns for a text is a vector in its role, of the model the
\* runtime was started with, and of a text that was asked for under the same
\* cache key, whether it comes from the backend or from a cache that survived
\* restarts with other models and damaged rows.  That is the text itself unless
\* Core gave two texts one key, or one text the other as its key: the digest
\* takes "explicit or text" and does not compare texts (embed_many).
VectorsOfTheirTexts ==
    \A t \in Embedders : \A v \in got[t] :
        /\ v.vector.model = model /\ v.vector.role = v.item.role
        /\ \/ v.vector.text = v.item.text
           \/ \E n \in named : n.key = v.item.key /\ n.text = v.vector.text

Verified ==
    profile # NoOne /\ Fresh(row, Fingerprint(profile, "strict")) /\ Supports(row, "strict")

\* A step that is no end of a probe, or one that ends a probe for the row's
\* fingerprint which has read the row as it is.
OfRow(t) ==
    \/ pc[t] = pc'[t] \/ pc[t] \notin {"secret", "post"}
    \/ ProbedFor(t) = row.fp /\ saw[t] = row

\* What a probe has established for the profile outlives outages, missing
\* secrets and failed generations: only a change of the profile, a probe for
\* another mode, the record of a fallback or a probe that began before the row
\* was written takes it away (_invalidate_capability_after_failure, probe).  The
\* last is a lost update of the code: a probe decides with the row it read
\* first, and one that fails overwrites what another has established since.
VerificationKept ==
    [][ /\ Verified /\ profile' = profile
        /\ \A t \in Probers : OfRow(t)
        /\ ~(\E t \in Gens : pc[t] = "write" /\ pc'[t] = "idle")
      => Verified' ]_vars
=============================================================================
