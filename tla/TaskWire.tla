------------------------------ MODULE TaskWire ------------------------------
(***************************************************************************)
(* The execution tasks of Core as they come over the wire: what            *)
(* CoreExecutionTask (core_gateway/contracts.py) accepts and what          *)
(* execution_task_from_wire (scheduler/core_execution_task_worker.py)      *)
(* makes of it for the executor.  Two pieces of code read the same fields, *)
(* each with defaults of its own.                                          *)
(***************************************************************************)

Modes == {"strict", "json_schema", "tool_call", "json_object", "prompt_only"}

\* A field that is not there, and one that is there with the value null.
Unset == {"absent", "null"}

\* A task that generates.  operation: round_semantic, user_semantic,
\* execution_semantic and object_resolution are semantic.  digest: whether the
\* digest of structured_generation is that of the output contract.
GenerateTask ==
    [operation : {"semantic", "other"}, slot : {"generation", "embedding"},
     mode : Modes \cup Unset \cup {"auto", "unknown"},
     structured_output_mode : Modes \cup Unset \cup {"auto"},
     response_format : {"none", "json_object", "json_schema", "text", "unknown"},
     output_contract : {"none", "portable", "other"},
     requirement : {"none", "valid", "invalid"},
     digest : {"same", "other"}, attempt_kind : {"primary", "empty_recheck"},
     max_output_tokens : {"fits", "over", "illegal"},
     messages : {"fits", "over", "illegal"}]

\* The cache namespace, or privacy class, and the renderer version of a task.
Scopes == {"default", "other"}

\* A task that embeds.  operation_input may hold the role as well.
EmbedTask ==
    [purpose : {"object_candidate_query", "object_identity_passage", "retrieval_query", "unknown"},
     role : {"none", "query", "passage", "unknown"},
     input_role : {"none", "query", "passage", "unknown"},
     cache_keys : {"none", "aligned", "misaligned"},
     scope : Scopes]

\* What generate_json is given: ModelRequestSpec and force_provider_fallback.
RequestType ==
    [mode : Modes \cup {"auto", "none"},
     format : {"none", "json_object", "json_schema", "other"},
     requirement : {"none", "valid", "invalid"}, schema : {"none", "portable", "other"},
     tokens : {"fits", "over"}, size : {"fits", "over"},
     force : {"yes", "no"}]

-----------------------------------------------------------------------------
(* CoreExecutionTask                                                        *)

\* model_request.get("mode", model_request.get("structured_output_mode")).
DeclaredMode(w) == IF w.mode = "absent" THEN w.structured_output_mode ELSE w.mode

\* validate_strict_requirement, strict_requirement_for_contract: the schema is
\* of the portable profile, and the requirement is that of the contract.
StrictRequirement(requirement, schema) ==
    /\ requirement # "invalid" /\ schema # "other"
    /\ requirement = "none" => schema = "portable"

\* The shape of a request that generates.
Shaped(w) ==
    /\ w.slot = "generation"
    /\ w.messages # "illegal" /\ w.max_output_tokens # "illegal"
    /\ w.response_format # "unknown"
    /\ w.response_format # "none" \/ w.output_contract # "none"
    /\ DeclaredMode(w) # "unknown"

\* A semantic task has to ask for strict output, with the contract it names.
SemanticStrict(w) ==
    /\ DeclaredMode(w) = "strict"
    /\ StrictRequirement(w.requirement, w.output_contract)
    /\ w.output_contract # "none" /\ w.digest = "same"

\* from_payload and __post_init__.
Decodes(w) == Shaped(w) /\ (w.operation = "semantic" => SemanticStrict(w))

RequiredRole(purpose) ==
    CASE purpose = "object_candidate_query" -> "query"
      [] purpose = "object_identity_passage" -> "passage"
      [] OTHER -> "any"

\* __post_init__ of a task that embeds: only the request's own role counts.
DecodesEmbedding(w) ==
    /\ w.purpose # "unknown" /\ w.role # "unknown" /\ w.cache_keys # "misaligned"
    /\ RequiredRole(w.purpose) \in {"any", w.role}

-----------------------------------------------------------------------------
(* execution_task_from_wire                                                 *)

\* mode, or structured_output_mode, or strict with a requirement, or auto.
ConvertedMode(w) ==
    IF w.mode \notin Unset THEN w.mode
    ELSE IF w.structured_output_mode \notin Unset THEN w.structured_output_mode
    ELSE IF w.requirement # "none" THEN "strict"
    ELSE "auto"

\* The mode is never left open.
Converted(w, force) ==
    [mode |-> ConvertedMode(w),
     format |-> IF w.response_format = "text" THEN "other" ELSE w.response_format,
     requirement |-> w.requirement, schema |-> w.output_contract,
     tokens |-> w.max_output_tokens, size |-> w.messages,
     force |-> IF w.attempt_kind = "empty_recheck" THEN "yes" ELSE force]

\* _request_or_operation_input: the request's role, or that of operation_input.
ConvertedRole(w) == IF w.role # "none" THEN w.role ELSE w.input_role
=============================================================================
