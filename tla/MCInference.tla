------------------------- MODULE MCInference -------------------------
EXTENDS Inference, TLC

CONSTANTS p1, p2

MCPreference == (p1 :> "auto") @@ (p2 :> "tool_call")

Task(o, m, m2, f, s, q) ==
    [operation |-> o, slot |-> "generation", mode |-> m, structured_output_mode |-> m2,
     response_format |-> f, output_contract |-> s, requirement |-> q, digest |-> "same",
     attempt_kind |-> "primary", max_output_tokens |-> "fits", messages |-> "fits"]

\* Semantic tasks with the mode in either field, null or contradicted by a
\* response format; a task without a mode, with a mode, and one that is too large.
MCTasks ==
    {Task("semantic", "strict", "absent", "none", "portable", "valid"),
     Task("semantic", "null", "json_object", "none", "portable", "valid"),
     Task("semantic", "strict", "absent", "json_object", "portable", "none"),
     Task("semantic", "tool_call", "absent", "none", "portable", "none"),
     Task("other", "absent", "absent", "none", "portable", "none"),
     Task("other", "tool_call", "absent", "none", "portable", "none"),
     [Task("other", "absent", "auto", "none", "portable", "none") EXCEPT !.messages = "over"]}

MCEmbedTasks ==
    {[purpose |-> "object_candidate_query", role |-> "query", input_role |-> "none",
      cache_keys |-> "none", scope |-> "default"],
     [purpose |-> "retrieval_query", role |-> "none", input_role |-> "passage",
      cache_keys |-> "aligned", scope |-> "default"]}

\* The embedding models are interchangeable, and so are the probes.
Symmetry == Permutations(Models) \cup Permutations(Probers)
======================================================================
