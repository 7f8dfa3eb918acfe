--------------------------- MODULE InferenceProofs ---------------------------
(***************************************************************************)
(* Proofs about Inference, for any threads, profiles, tasks and texts, any *)
(* number of retries, calls and changes: a strict request goes only where  *)
(* a probe has proved strict transport or, forced, along a part of such a  *)
(* chain; a request goes out in the mode that was asked for and not more   *)
(* often than its retries allow; a vector is that of a text asked for      *)
(* under its key; and what a probe has established is kept.                *)
(***************************************************************************)
EXTENDS Inference, TLAPS

-----------------------------------------------------------------------------
(* The inductive invariant                                                  *)

\* A request is what a task was converted to, forced or not.
Serves(r, w) == \E force \in {"yes", "no"} : r = Converted(w, force)

\* A generation has decoded its task and serves what the task was converted to;
\* past the resolution it has a profile and a request that is valid.
Serving ==
    \A t \in Gens :
        /\ pc[t] \in {"idle", "resolve", "select", "secret", "verify", "post", "record", "write"}
        /\ pc[t] # "idle" => Decodes(task[t]) /\ Serves(req[t], task[t])
        /\ pc[t] \notin {"idle", "resolve"} => cfg[t] \in Configs /\ Requested(req[t]) # "invalid"

\* A mode that was asked for has been selected.
Choosing ==
    \A t \in Gens : pc[t] \in {"secret", "verify", "post"} =>
        mode[t] = Requested(req[t]) \/ Requested(req[t]) \in {"none", "auto"}

\* The fallback begins while the request is posted, and only where there is one.
FallingBack ==
    \A t \in Gens :
        /\ pc[t] \in {"resolve", "select", "secret", "verify"} => phase[t] = "primary"
        /\ pc[t] \in {"record", "write"} => phase[t] = "fallback"
        /\ pc[t] # "idle" /\ phase[t] = "fallback" =>
             FallbackMode(req[t], cfg[t], mode[t]) \in {"json_object", "prompt_only"}

\* The requests of a call, counted by its attempts.
Counting ==
    \A t \in Gens :
        /\ pc[t] \in {"resolve", "select", "secret", "verify"} => posts[t] = 0 /\ attempt[t] = 0
        /\ pc[t] = "post" =>
             /\ attempt[t] <= Retries
             /\ posts[t] <= attempt[t] + (IF phase[t] = "fallback" THEN Retries + 1 ELSE 0)
        /\ posts[t] <= (Retries + 1) + (IF phase[t] = "fallback" THEN Retries + 1 ELSE 0)

\* A probe past its resolution has a profile and the mode its override asks for.
Probing ==
    \A t \in Probers :
        /\ pc[t] \in {"idle", "resolve", "cached", "secret", "post"}
        /\ pc[t] \in {"cached", "secret", "post"} =>
             /\ cfg[t] \in Configs
             /\ mode[t] = IF req[t].mode \in Modes THEN req[t].mode ELSE "strict"
        /\ posts[t] <= 1 /\ (pc[t] # "idle" => posts[t] = 0)

\* Strict output in a row for the strict fingerprint was proved by a probe, and
\* a row without a fingerprint never claims it.
Proved(r) ==
    r # NoRow /\ "strict" \in r.modes =>
        r.fp # AnyFingerprint /\ (r.fp.mode = "strict" => Chain(r.fp.cfg) \in proven)

\* The stored row, and the one a generation may write back.
ProvedRows == Proved(row) /\ \A t \in Gens : Proved(saw[t])

\* A generation that is about to write has read a row.
SeenRows == \A t \in Gens : pc[t] = "write" => saw[t] # NoRow

\* A vector is of the model and the role of the key, and of a text that was asked
\* for under it.
Fits(v, k) == v.model = k.model /\ v.role = k.role /\ [key |-> k, text |-> v.text] \in named

\* An embedder wants vectors of the model the runtime was started with, and the
\* cache holds under each key a vector that fits it or a damaged one.
Embedding ==
    /\ \A t \in Embedders :
         /\ pc[t] \in {"idle", "look", "encode", "store"} /\ posts[t] = 0
         /\ \A i \in want[t] : /\ i.key.model = model /\ i.key.role = i.role
                               /\ [key |-> i.key, text |-> i.text] \in named
    /\ \A e \in cache : e.vector # Damaged => Fits(e.vector, e.key)

InferenceInv ==
    /\ TypeOK /\ Serving /\ Choosing /\ FallingBack /\ Counting /\ Probing
    /\ ProvedRows /\ SeenRows /\ Embedding /\ StrictOnlyVerified /\ VectorsOfTheirTexts

-----------------------------------------------------------------------------
(* What the operators return                                                *)

\* No thread generates and probes or embeds.
LEMMA ThreadsApart ==
    /\ \A t \in Gens : t \in Threads /\ t \notin Probers /\ t \notin Embedders
    /\ \A t \in Probers : t \in Threads /\ t \notin Gens /\ t \notin Embedders
    /\ \A t \in Embedders : t \in Threads /\ t \notin Gens /\ t \notin Probers
  BY InferenceAssumption DEF Threads

\* The absence of a row is no row.
LEMMA NoRowApart == NoRow \notin Rows
  BY DEF NoRow, Rows

\* A task that decodes is converted to a request, which names a mode.
LEMMA ConvertedRequest ==
    ASSUME NEW w \in Tasks, Decodes(w), NEW force \in {"yes", "no"}
    PROVE  Converted(w, force) \in RequestType /\ Converted(w, force).mode # "none"
<1>1. w \in GenerateTask
  BY InferenceAssumption
<1>2. ConvertedMode(w) \in Modes \cup {"auto"}
  BY <1>1 DEF GenerateTask, Decodes, Shaped, DeclaredMode, ConvertedMode, Modes, Unset
<1> QED
  BY <1>1, <1>2 DEF GenerateTask, Decodes, Shaped, Converted, RequestType, Modes

\* What a request may ask for.
LEMMA RequestedMode ==
    ASSUME NEW r \in RequestType
    PROVE  /\ Requested(r) \in Modes \cup {"auto", "none", "invalid"}
           /\ r.mode # "none" => Requested(r) # "none"
           /\ IsStrict(r) => Requested(r) \in {"strict", "invalid"}
  BY DEF RequestType, Requested, Normalized, IsStrict, Modes

\* The automatic choice is a mode, or there is none.
LEMMA AutomaticMode ==
    ASSUME NEW r
    PROVE  Automatic(r) \in Modes \cup {"invalid"}
<1> DEFINE S(i) == Supports(r, ModeOrder[i])
           First(i) == S(i) /\ \A j \in 1..(i - 1) : ~S(j)
<1>1. \A i \in 1..5 : ModeOrder[i] \in Modes
  BY DEF ModeOrder, Modes
<1>2. ASSUME \E i \in 1..5 : S(i)
      PROVE  \E i \in 1..5 : First(i)
  <2> HIDE DEF S
  <2>1. CASE S(1)
    BY <2>1
  <2>2. CASE ~S(1) /\ S(2)
    BY <2>2
  <2>3. CASE ~S(1) /\ ~S(2) /\ S(3)
    BY <2>3
  <2>4. CASE ~S(1) /\ ~S(2) /\ ~S(3) /\ S(4)
    BY <2>4
  <2>5. CASE ~S(1) /\ ~S(2) /\ ~S(3) /\ ~S(4) /\ S(5)
    BY <2>5
  <2> QED BY <1>2, <2>1, <2>2, <2>3, <2>4, <2>5
<1>3. ASSUME \E i \in 1..5 : S(i)
      PROVE  (CHOOSE i \in 1..5 : First(i)) \in 1..5
  BY <1>2, <1>3
<1>4. Automatic(r) = IF \E i \in 1..5 : S(i) THEN ModeOrder[CHOOSE i \in 1..5 : First(i)]
                     ELSE IF r # NoRow /\ r.status = "passed" THEN "invalid" ELSE "json_object"
  BY DEF Automatic
<1> HIDE DEF S, First
<1> QED
  BY <1>1, <1>3, <1>4 DEF Modes

\* The mode that is selected is the one that was asked for, if one was.
LEMMA SelectedMode ==
    ASSUME NEW r \in RequestType, NEW c \in Configs, Requested(r) # "invalid"
    PROVE  /\ Selected(r, c) \in Modes \cup {"invalid"}
           /\ Requested(r) \notin {"none", "auto"} => Selected(r, c) = Requested(r)
<1>1. Requested(r) \in Modes \cup {"auto", "none", "invalid"} /\ Preference[c] \in Modes \cup {"auto"}
  BY RequestedMode, InferenceAssumption
<1>2. Automatic(Loaded(c, "none")) \in Modes \cup {"invalid"}
  BY AutomaticMode
<1> QED
  BY <1>1, <1>2 DEF Selected, Candidate

\* There is a fallback only where nobody chose a mode, and never to strict output.
LEMMA FallbackModes ==
    ASSUME NEW r, NEW c, NEW m
    PROVE  /\ FallbackMode(r, c, m) \in {"none", "json_object", "prompt_only"}
           /\ FallbackMode(r, c, m) # "none" =>
                Requested(r) \in {"none", "auto"} /\ Preference[c] = "auto"
  BY DEF FallbackMode

\* A semantic task that decodes asks for strict output, unless a response format
\* without a requirement overrides it.
LEMMA SemanticRequest ==
    ASSUME NEW w \in Tasks, Decodes(w), w.operation = "semantic",
           NEW force \in {"yes", "no"},
           Converted(w, force).format = "none" \/ Converted(w, force).requirement # "none"
    PROVE  IsStrict(Converted(w, force))
<1>1. w \in GenerateTask
  BY InferenceAssumption
<1> QED
  BY <1>1 DEF GenerateTask, Decodes, SemanticStrict, DeclaredMode, Converted,
              ConvertedMode, IsStrict,
              Normalized, Unset

-----------------------------------------------------------------------------
(* The steps of InferenceInv: the operator and the generation               *)

LEMMA StutterStep ==
    ASSUME InferenceInv, UNCHANGED vars
    PROVE  InferenceInv'
<1> USE InferenceAssumption, ThreadsApart DEF InferenceInv, vars, store, gen, embed,
                                              history
<1>1. TypeOK'
  <2>1. /\ profile' \in Configs \cup {NoOne} /\ secret' \in {"present", "absent"}
        /\ row' \in Rows \cup {NoRow}
    BY DEF TypeOK
  <2>2. /\ pc' \in [Threads -> {"idle", "resolve", "select", "secret", "verify", "post", "record",
                                "write", "cached", "look", "encode", "store"}]
        /\ outcome' \in [Threads -> Outcomes]
    BY DEF TypeOK
  <2>3. task' \in [Gens -> Tasks] /\ req' \in [Threads -> RequestType]
    BY DEF TypeOK
  <2>4. /\ cfg' \in [Threads -> Configs \cup {NoOne}]
        /\ mode' \in [Threads -> Modes \cup {"none"}]
    BY DEF TypeOK
  <2>5. /\ phase' \in [Threads -> {"primary", "fallback"}]
        /\ attempt' \in [Threads -> 0..(Retries + 1)]
        /\ saw' \in [Threads -> Rows \cup {NoRow}]
    BY DEF TypeOK
  <2>6. /\ model' \in Models /\ cache' \subseteq [key : Keys, vector : Vectors \cup {Damaged}]
        /\ want' \in [Embedders -> SUBSET Items]
        /\ got' \in [Embedders -> SUBSET [item : Items, vector : Vectors]]
        /\ named' \subseteq [key : Keys, text : Texts]
    BY DEF TypeOK
  <2>7. /\ posts' \in [Threads -> Nat] /\ proven' \subseteq Transports
        /\ calls' \in 0..MaxCalls /\ changes' \in 0..MaxChanges
    BY DEF TypeOK
  <2> QED BY <2>1, <2>2, <2>3, <2>4, <2>5, <2>6, <2>7 DEF TypeOK
<1>2. Serving'
  BY DEF Serving, TypeOK
<1>3. Choosing'
  BY DEF Choosing, Serving, TypeOK
<1>4. FallingBack'
  BY DEF FallingBack, Serving, TypeOK
<1>5. Counting'
  BY DEF Counting, FallingBack, Serving, TypeOK
<1>6. Probing'
  BY DEF Probing, TypeOK
<1>7. ProvedRows'
  BY DEF ProvedRows, Proved, Chain, TypeOK
<1>8. SeenRows'
  BY DEF SeenRows, TypeOK
<1>9. Embedding'
  BY DEF Embedding, Fits, TypeOK
<1>10. StrictOnlyVerified'
  BY DEF StrictOnlyVerified, Transport, Chain, Serving, TypeOK
<1>11. VectorsOfTheirTexts'
  BY DEF VectorsOfTheirTexts, TypeOK
<1> QED
  BY <1>1, <1>2, <1>3, <1>4, <1>5, <1>6, <1>7, <1>8, <1>9, <1>10, <1>11

LEMMA SetProfileStep ==
    ASSUME InferenceInv, NEW c \in Configs, SetProfile(c)
    PROVE  InferenceInv'
<1>0. /\ row' \in {row, Invalidated(row)} /\ (row' # row => row \in Rows)
      /\ UNCHANGED <<secret, gen, embed, history, calls>>
  BY DEF SetProfile, InferenceInv, TypeOK
<1>a. row \in Rows => /\ Invalidated(row) \in Rows /\ Invalidated(row).fp = row.fp
                     /\ Invalidated(row).modes = row.modes
  BY DEF Invalidated, Rows
<1> USE InferenceAssumption, ThreadsApart DEF InferenceInv, SetProfile, vars, store,
                                              gen, embed, history
<1>1. TypeOK'
  <2>1. /\ profile' \in Configs \cup {NoOne} /\ secret' \in {"present", "absent"}
        /\ row' \in Rows \cup {NoRow}
    BY <1>0, <1>a DEF TypeOK
  <2>2. /\ pc' \in [Threads -> {"idle", "resolve", "select", "secret", "verify", "post", "record",
                                "write", "cached", "look", "encode", "store"}]
        /\ outcome' \in [Threads -> Outcomes]
    BY DEF TypeOK
  <2>3. task' \in [Gens -> Tasks] /\ req' \in [Threads -> RequestType]
    BY DEF TypeOK
  <2>4. /\ cfg' \in [Threads -> Configs \cup {NoOne}]
        /\ mode' \in [Threads -> Modes \cup {"none"}]
    BY DEF TypeOK
  <2>5. /\ phase' \in [Threads -> {"primary", "fallback"}]
        /\ attempt' \in [Threads -> 0..(Retries + 1)]
        /\ saw' \in [Threads -> Rows \cup {NoRow}]
    BY DEF TypeOK
  <2>6. /\ model' \in Models /\ cache' \subseteq [key : Keys, vector : Vectors \cup {Damaged}]
        /\ want' \in [Embedders -> SUBSET Items]
        /\ got' \in [Embedders -> SUBSET [item : Items, vector : Vectors]]
        /\ named' \subseteq [key : Keys, text : Texts]
    BY DEF TypeOK
  <2>7. /\ posts' \in [Threads -> Nat] /\ proven' \subseteq Transports
        /\ calls' \in 0..MaxCalls /\ changes' \in 0..MaxChanges
    BY DEF TypeOK
  <2> QED BY <2>1, <2>2, <2>3, <2>4, <2>5, <2>6, <2>7 DEF TypeOK
<1>2. Serving'
  BY DEF Serving, TypeOK
<1>3. Choosing'
  BY DEF Choosing, Serving, TypeOK
<1>4. FallingBack'
  BY DEF FallingBack, Serving, TypeOK
<1>5. Counting'
  BY DEF Counting, FallingBack, Serving, TypeOK
<1>6. Probing'
  BY DEF Probing, TypeOK
<1>7. ProvedRows'
  BY <1>0, <1>a, NoRowApart DEF ProvedRows, Proved, Chain, TypeOK
<1>8. SeenRows'
  BY DEF SeenRows, TypeOK
<1>9. Embedding'
  BY DEF Embedding, Fits, TypeOK
<1>10. StrictOnlyVerified'
  BY DEF StrictOnlyVerified, Transport, Chain, Serving, TypeOK
<1>11. VectorsOfTheirTexts'
  BY DEF VectorsOfTheirTexts, TypeOK
<1> QED
  BY <1>1, <1>2, <1>3, <1>4, <1>5, <1>6, <1>7, <1>8, <1>9, <1>10, <1>11

LEMMA RemoveProfileStep ==
    ASSUME InferenceInv, RemoveProfile
    PROVE  InferenceInv'
<1> USE InferenceAssumption, ThreadsApart DEF InferenceInv, RemoveProfile, vars,
                                              store, gen, embed, history
<1>1. TypeOK'
  <2>1. /\ profile' \in Configs \cup {NoOne} /\ secret' \in {"present", "absent"}
        /\ row' \in Rows \cup {NoRow}
    BY DEF TypeOK
  <2>2. /\ pc' \in [Threads -> {"idle", "resolve", "select", "secret", "verify", "post", "record",
                                "write", "cached", "look", "encode", "store"}]
        /\ outcome' \in [Threads -> Outcomes]
    BY DEF TypeOK
  <2>3. task' \in [Gens -> Tasks] /\ req' \in [Threads -> RequestType]
    BY DEF TypeOK
  <2>4. /\ cfg' \in [Threads -> Configs \cup {NoOne}]
        /\ mode' \in [Threads -> Modes \cup {"none"}]
    BY DEF TypeOK
  <2>5. /\ phase' \in [Threads -> {"primary", "fallback"}]
        /\ attempt' \in [Threads -> 0..(Retries + 1)]
        /\ saw' \in [Threads -> Rows \cup {NoRow}]
    BY DEF TypeOK
  <2>6. /\ model' \in Models /\ cache' \subseteq [key : Keys, vector : Vectors \cup {Damaged}]
        /\ want' \in [Embedders -> SUBSET Items]
        /\ got' \in [Embedders -> SUBSET [item : Items, vector : Vectors]]
        /\ named' \subseteq [key : Keys, text : Texts]
    BY DEF TypeOK
  <2>7. /\ posts' \in [Threads -> Nat] /\ proven' \subseteq Transports
        /\ calls' \in 0..MaxCalls /\ changes' \in 0..MaxChanges
    BY DEF TypeOK
  <2> QED BY <2>1, <2>2, <2>3, <2>4, <2>5, <2>6, <2>7 DEF TypeOK
<1>2. Serving'
  BY DEF Serving, TypeOK
<1>3. Choosing'
  BY DEF Choosing, Serving, TypeOK
<1>4. FallingBack'
  BY DEF FallingBack, Serving, TypeOK
<1>5. Counting'
  BY DEF Counting, FallingBack, Serving, TypeOK
<1>6. Probing'
  BY DEF Probing, TypeOK
<1>7. ProvedRows'
  BY DEF ProvedRows, Proved, Chain, TypeOK
<1>8. SeenRows'
  BY DEF SeenRows, TypeOK
<1>9. Embedding'
  BY DEF Embedding, Fits, TypeOK
<1>10. StrictOnlyVerified'
  BY DEF StrictOnlyVerified, Transport, Chain, Serving, TypeOK
<1>11. VectorsOfTheirTexts'
  BY DEF VectorsOfTheirTexts, TypeOK
<1> QED
  BY <1>1, <1>2, <1>3, <1>4, <1>5, <1>6, <1>7, <1>8, <1>9, <1>10, <1>11

LEMMA SetSecretStep ==
    ASSUME InferenceInv, NEW x \in {"present", "absent"}, SetSecret(x)
    PROVE  InferenceInv'
<1> USE InferenceAssumption, ThreadsApart DEF InferenceInv, SetSecret, vars, store,
                                              gen, embed, history
<1>1. TypeOK'
  <2>1. /\ profile' \in Configs \cup {NoOne} /\ secret' \in {"present", "absent"}
        /\ row' \in Rows \cup {NoRow}
    BY DEF TypeOK
  <2>2. /\ pc' \in [Threads -> {"idle", "resolve", "select", "secret", "verify", "post", "record",
                                "write", "cached", "look", "encode", "store"}]
        /\ outcome' \in [Threads -> Outcomes]
    BY DEF TypeOK
  <2>3. task' \in [Gens -> Tasks] /\ req' \in [Threads -> RequestType]
    BY DEF TypeOK
  <2>4. /\ cfg' \in [Threads -> Configs \cup {NoOne}]
        /\ mode' \in [Threads -> Modes \cup {"none"}]
    BY DEF TypeOK
  <2>5. /\ phase' \in [Threads -> {"primary", "fallback"}]
        /\ attempt' \in [Threads -> 0..(Retries + 1)]
        /\ saw' \in [Threads -> Rows \cup {NoRow}]
    BY DEF TypeOK
  <2>6. /\ model' \in Models /\ cache' \subseteq [key : Keys, vector : Vectors \cup {Damaged}]
        /\ want' \in [Embedders -> SUBSET Items]
        /\ got' \in [Embedders -> SUBSET [item : Items, vector : Vectors]]
        /\ named' \subseteq [key : Keys, text : Texts]
    BY DEF TypeOK
  <2>7. /\ posts' \in [Threads -> Nat] /\ proven' \subseteq Transports
        /\ calls' \in 0..MaxCalls /\ changes' \in 0..MaxChanges
    BY DEF TypeOK
  <2> QED BY <2>1, <2>2, <2>3, <2>4, <2>5, <2>6, <2>7 DEF TypeOK
<1>2. Serving'
  BY DEF Serving, TypeOK
<1>3. Choosing'
  BY DEF Choosing, Serving, TypeOK
<1>4. FallingBack'
  BY DEF FallingBack, Serving, TypeOK
<1>5. Counting'
  BY DEF Counting, FallingBack, Serving, TypeOK
<1>6. Probing'
  BY DEF Probing, TypeOK
<1>7. ProvedRows'
  BY DEF ProvedRows, Proved, Chain, TypeOK
<1>8. SeenRows'
  BY DEF SeenRows, TypeOK
<1>9. Embedding'
  BY DEF Embedding, Fits, TypeOK
<1>10. StrictOnlyVerified'
  BY DEF StrictOnlyVerified, Transport, Chain, Serving, TypeOK
<1>11. VectorsOfTheirTexts'
  BY DEF VectorsOfTheirTexts, TypeOK
<1> QED
  BY <1>1, <1>2, <1>3, <1>4, <1>5, <1>6, <1>7, <1>8, <1>9, <1>10, <1>11

LEMMA GenerateCallStep ==
    ASSUME InferenceInv, NEW t \in Gens, NEW w \in Tasks, NEW force \in {"yes", "no"},
           Generate(t, w, force)
    PROVE  InferenceInv'
<1> USE InferenceAssumption, ThreadsApart DEF InferenceInv, Generate, Begin, Goto,
                                              End, vars, store, gen, embed, history
<1>1. TypeOK'
  <2>1. /\ profile' \in Configs \cup {NoOne} /\ secret' \in {"present", "absent"}
        /\ row' \in Rows \cup {NoRow}
    BY ConvertedRequest DEF TypeOK, Outcomes
  <2>2. /\ pc' \in [Threads -> {"idle", "resolve", "select", "secret", "verify", "post", "record",
                                "write", "cached", "look", "encode", "store"}]
        /\ outcome' \in [Threads -> Outcomes]
    BY ConvertedRequest DEF TypeOK, Outcomes
  <2>3. task' \in [Gens -> Tasks] /\ req' \in [Threads -> RequestType]
    BY ConvertedRequest DEF TypeOK, Outcomes
  <2>4. /\ cfg' \in [Threads -> Configs \cup {NoOne}]
        /\ mode' \in [Threads -> Modes \cup {"none"}]
    BY ConvertedRequest DEF TypeOK, Outcomes
  <2>5. /\ phase' \in [Threads -> {"primary", "fallback"}]
        /\ attempt' \in [Threads -> 0..(Retries + 1)]
        /\ saw' \in [Threads -> Rows \cup {NoRow}]
    BY ConvertedRequest DEF TypeOK, Outcomes
  <2>6. /\ model' \in Models /\ cache' \subseteq [key : Keys, vector : Vectors \cup {Damaged}]
        /\ want' \in [Embedders -> SUBSET Items]
        /\ got' \in [Embedders -> SUBSET [item : Items, vector : Vectors]]
        /\ named' \subseteq [key : Keys, text : Texts]
    BY ConvertedRequest DEF TypeOK, Outcomes
  <2>7. /\ posts' \in [Threads -> Nat] /\ proven' \subseteq Transports
        /\ calls' \in 0..MaxCalls /\ changes' \in 0..MaxChanges
    BY ConvertedRequest DEF TypeOK, Outcomes
  <2> QED BY <2>1, <2>2, <2>3, <2>4, <2>5, <2>6, <2>7 DEF TypeOK
<1>2. Serving'
  BY DEF Serving, Serves, TypeOK
<1>3. Choosing'
  BY DEF Choosing, Serving, TypeOK
<1>4. FallingBack'
  BY DEF FallingBack, Serving, TypeOK
<1>5. Counting'
  BY DEF Counting, FallingBack, Serving, TypeOK
<1>6. Probing'
  BY DEF Probing, TypeOK
<1>7. ProvedRows'
  BY DEF ProvedRows, Proved, Chain, TypeOK
<1>8. SeenRows'
  BY DEF SeenRows, TypeOK
<1>9. Embedding'
  BY DEF Embedding, Fits, TypeOK
<1>10. StrictOnlyVerified'
  BY DEF StrictOnlyVerified, Transport, Chain, Serving, TypeOK
<1>11. VectorsOfTheirTexts'
  BY DEF VectorsOfTheirTexts, TypeOK
<1> QED
  BY <1>1, <1>2, <1>3, <1>4, <1>5, <1>6, <1>7, <1>8, <1>9, <1>10, <1>11

LEMMA ResolveStep ==
    ASSUME InferenceInv, NEW t \in Gens, Resolve(t)
    PROVE  InferenceInv'
<1> USE InferenceAssumption, ThreadsApart DEF InferenceInv, Resolve, Goto, End,
                                              vars, store, gen, embed, history
<1>1. TypeOK'
  <2>1. /\ profile' \in Configs \cup {NoOne} /\ secret' \in {"present", "absent"}
        /\ row' \in Rows \cup {NoRow}
    BY DEF TypeOK, Outcomes
  <2>2. /\ pc' \in [Threads -> {"idle", "resolve", "select", "secret", "verify", "post", "record",
                                "write", "cached", "look", "encode", "store"}]
        /\ outcome' \in [Threads -> Outcomes]
    BY DEF TypeOK, Outcomes
  <2>3. task' \in [Gens -> Tasks] /\ req' \in [Threads -> RequestType]
    BY DEF TypeOK, Outcomes
  <2>4. /\ cfg' \in [Threads -> Configs \cup {NoOne}]
        /\ mode' \in [Threads -> Modes \cup {"none"}]
    BY DEF TypeOK, Outcomes
  <2>5. /\ phase' \in [Threads -> {"primary", "fallback"}]
        /\ attempt' \in [Threads -> 0..(Retries + 1)]
        /\ saw' \in [Threads -> Rows \cup {NoRow}]
    BY DEF TypeOK, Outcomes
  <2>6. /\ model' \in Models /\ cache' \subseteq [key : Keys, vector : Vectors \cup {Damaged}]
        /\ want' \in [Embedders -> SUBSET Items]
        /\ got' \in [Embedders -> SUBSET [item : Items, vector : Vectors]]
        /\ named' \subseteq [key : Keys, text : Texts]
    BY DEF TypeOK, Outcomes
  <2>7. /\ posts' \in [Threads -> Nat] /\ proven' \subseteq Transports
        /\ calls' \in 0..MaxCalls /\ changes' \in 0..MaxChanges
    BY DEF TypeOK, Outcomes
  <2> QED BY <2>1, <2>2, <2>3, <2>4, <2>5, <2>6, <2>7 DEF TypeOK
<1>2. Serving'
  BY DEF Serving, TypeOK
<1>3. Choosing'
  BY DEF Choosing, Serving, TypeOK
<1>4. FallingBack'
  BY DEF FallingBack, Serving, TypeOK
<1>5. Counting'
  BY DEF Counting, FallingBack, Serving, TypeOK
<1>6. Probing'
  BY DEF Probing, TypeOK
<1>7. ProvedRows'
  BY DEF ProvedRows, Proved, Chain, TypeOK
<1>8. SeenRows'
  BY DEF SeenRows, TypeOK
<1>9. Embedding'
  BY DEF Embedding, Fits, TypeOK
<1>10. StrictOnlyVerified'
  BY DEF StrictOnlyVerified, Transport, Chain, Serving, TypeOK
<1>11. VectorsOfTheirTexts'
  BY DEF VectorsOfTheirTexts, TypeOK
<1> QED
  BY <1>1, <1>2, <1>3, <1>4, <1>5, <1>6, <1>7, <1>8, <1>9, <1>10, <1>11

LEMMA SelectModeStep ==
    ASSUME InferenceInv, NEW t \in Gens, SelectMode(t)
    PROVE  InferenceInv'
<1>0. /\ pc[t] = "select" /\ t \in Threads
      /\ UNCHANGED <<store, task, req, cfg, phase, attempt, saw, embed, history, calls, changes>>
      /\ \/ End(t, "invalid_request") /\ UNCHANGED mode
         \/ /\ mode' = [mode EXCEPT ![t] = Selected(req[t], cfg[t])]
            /\ Selected(req[t], cfg[t]) # "invalid"
            /\ End(t, "input_budget") \/ (Goto(t, "secret") /\ UNCHANGED outcome)
  BY DEF SelectMode, Threads
<1>a. /\ cfg[t] \in Configs /\ req[t] \in RequestType /\ row \in Rows \cup {NoRow}
      /\ Requested(req[t]) # "invalid"
  BY <1>0 DEF InferenceInv, TypeOK, Serving
<1>b. /\ Selected(req[t], cfg[t]) \in Modes \cup {"invalid"}
      /\ Requested(req[t]) \notin {"none", "auto"} => Selected(req[t], cfg[t]) = Requested(req[t])
  BY <1>a, SelectedMode
<1> USE InferenceAssumption, ThreadsApart DEF InferenceInv, vars, store, gen, embed,
                                              history
<1>1. TypeOK'
  <2>1. /\ profile' \in Configs \cup {NoOne} /\ secret' \in {"present", "absent"}
        /\ row' \in Rows \cup {NoRow}
    BY <1>0, <1>a, <1>b DEF TypeOK, Goto, End, Outcomes
  <2>2. /\ pc' \in [Threads -> {"idle", "resolve", "select", "secret", "verify", "post", "record",
                                "write", "cached", "look", "encode", "store"}]
        /\ outcome' \in [Threads -> Outcomes]
    BY <1>0, <1>a, <1>b DEF TypeOK, Goto, End, Outcomes
  <2>3. task' \in [Gens -> Tasks] /\ req' \in [Threads -> RequestType]
    BY <1>0, <1>a, <1>b DEF TypeOK, Goto, End, Outcomes
  <2>4. /\ cfg' \in [Threads -> Configs \cup {NoOne}]
        /\ mode' \in [Threads -> Modes \cup {"none"}]
    BY <1>0, <1>a, <1>b DEF TypeOK, Goto, End, Outcomes
  <2>5. /\ phase' \in [Threads -> {"primary", "fallback"}]
        /\ attempt' \in [Threads -> 0..(Retries + 1)]
        /\ saw' \in [Threads -> Rows \cup {NoRow}]
    BY <1>0, <1>a, <1>b DEF TypeOK, Goto, End, Outcomes
  <2>6. /\ model' \in Models /\ cache' \subseteq [key : Keys, vector : Vectors \cup {Damaged}]
        /\ want' \in [Embedders -> SUBSET Items]
        /\ got' \in [Embedders -> SUBSET [item : Items, vector : Vectors]]
        /\ named' \subseteq [key : Keys, text : Texts]
    BY <1>0, <1>a, <1>b DEF TypeOK, Goto, End, Outcomes
  <2>7. /\ posts' \in [Threads -> Nat] /\ proven' \subseteq Transports
        /\ calls' \in 0..MaxCalls /\ changes' \in 0..MaxChanges
    BY <1>0, <1>a, <1>b DEF TypeOK, Goto, End, Outcomes
  <2> QED BY <2>1, <2>2, <2>3, <2>4, <2>5, <2>6, <2>7 DEF TypeOK
<1>2. Serving'
  BY <1>0, <1>a, <1>b DEF Serving, TypeOK, Goto, End
<1>3. Choosing'
  BY <1>0, <1>a, <1>b DEF Choosing, Serving, TypeOK, Goto, End
<1>4. FallingBack'
  BY <1>0, <1>a, <1>b DEF FallingBack, Serving, TypeOK, Goto, End
<1>5. Counting'
  BY <1>0, <1>a, <1>b DEF Counting, FallingBack, Serving, TypeOK, Goto, End
<1>6. Probing'
  BY <1>0, <1>a, <1>b DEF Probing, TypeOK, Goto, End
<1>7. ProvedRows'
  BY <1>0, <1>a, <1>b DEF ProvedRows, Proved, Chain, TypeOK, Goto, End
<1>8. SeenRows'
  BY <1>0, <1>a, <1>b DEF SeenRows, TypeOK, Goto, End
<1>9. Embedding'
  BY <1>0, <1>a, <1>b DEF Embedding, Fits, TypeOK, Goto, End
<1>10. StrictOnlyVerified'
  BY <1>0, <1>a, <1>b DEF StrictOnlyVerified, Transport, Chain, Serving, TypeOK, Goto, End
<1>11. VectorsOfTheirTexts'
  BY <1>0, <1>a, <1>b DEF VectorsOfTheirTexts, TypeOK, Goto, End
<1> QED
  BY <1>1, <1>2, <1>3, <1>4, <1>5, <1>6, <1>7, <1>8, <1>9, <1>10, <1>11

LEMMA GetSecretStep ==
    ASSUME InferenceInv, NEW t \in Gens, GetSecret(t)
    PROVE  InferenceInv'
<1> USE InferenceAssumption, ThreadsApart DEF InferenceInv, GetSecret, Goto, End,
                                              vars, store, gen, embed, history
<1>1. TypeOK'
  <2>1. /\ profile' \in Configs \cup {NoOne} /\ secret' \in {"present", "absent"}
        /\ row' \in Rows \cup {NoRow}
    BY DEF TypeOK, Outcomes
  <2>2. /\ pc' \in [Threads -> {"idle", "resolve", "select", "secret", "verify", "post", "record",
                                "write", "cached", "look", "encode", "store"}]
        /\ outcome' \in [Threads -> Outcomes]
    BY DEF TypeOK, Outcomes
  <2>3. task' \in [Gens -> Tasks] /\ req' \in [Threads -> RequestType]
    BY DEF TypeOK, Outcomes
  <2>4. /\ cfg' \in [Threads -> Configs \cup {NoOne}]
        /\ mode' \in [Threads -> Modes \cup {"none"}]
    BY DEF TypeOK, Outcomes
  <2>5. /\ phase' \in [Threads -> {"primary", "fallback"}]
        /\ attempt' \in [Threads -> 0..(Retries + 1)]
        /\ saw' \in [Threads -> Rows \cup {NoRow}]
    BY DEF TypeOK, Outcomes
  <2>6. /\ model' \in Models /\ cache' \subseteq [key : Keys, vector : Vectors \cup {Damaged}]
        /\ want' \in [Embedders -> SUBSET Items]
        /\ got' \in [Embedders -> SUBSET [item : Items, vector : Vectors]]
        /\ named' \subseteq [key : Keys, text : Texts]
    BY DEF TypeOK, Outcomes
  <2>7. /\ posts' \in [Threads -> Nat] /\ proven' \subseteq Transports
        /\ calls' \in 0..MaxCalls /\ changes' \in 0..MaxChanges
    BY DEF TypeOK, Outcomes
  <2> QED BY <2>1, <2>2, <2>3, <2>4, <2>5, <2>6, <2>7 DEF TypeOK
<1>2. Serving'
  BY DEF Serving, TypeOK
<1>3. Choosing'
  BY DEF Choosing, Serving, TypeOK
<1>4. FallingBack'
  BY DEF FallingBack, Serving, TypeOK
<1>5. Counting'
  BY DEF Counting, FallingBack, Serving, TypeOK
<1>6. Probing'
  BY DEF Probing, TypeOK
<1>7. ProvedRows'
  BY DEF ProvedRows, Proved, Chain, TypeOK
<1>8. SeenRows'
  BY DEF SeenRows, TypeOK
<1>9. Embedding'
  BY DEF Embedding, Fits, TypeOK
<1>10. StrictOnlyVerified'
  BY DEF StrictOnlyVerified, Transport, Chain, Serving, TypeOK
<1>11. VectorsOfTheirTexts'
  BY DEF VectorsOfTheirTexts, TypeOK
<1> QED
  BY <1>1, <1>2, <1>3, <1>4, <1>5, <1>6, <1>7, <1>8, <1>9, <1>10, <1>11

LEMMA VerifyStep ==
    ASSUME InferenceInv, NEW t \in Gens, Verify(t)
    PROVE  InferenceInv'
<1>0. /\ pc[t] = "verify" /\ t \in Threads
      /\ UNCHANGED <<store, task, req, cfg, mode, phase, attempt, saw, embed, history, calls, changes>>
      /\ \/ End(t, "capability_unverified")
         \/ Goto(t, "post") /\ UNCHANGED outcome
  BY DEF Verify, Threads
<1>a. ASSUME pc'[t] = "post", IsStrict(req[t])
      PROVE  Chain(cfg[t]) \in proven
  <2>1. cfg[t] \in Configs /\ row \in Rows \cup {NoRow}
    BY <1>0 DEF InferenceInv, TypeOK, Serving
  <2> DEFINE r == Loaded(cfg[t], Requested(req[t]))
  <2>2. Fresh(r, Fingerprint(cfg[t], "strict")) /\ Supports(r, "strict")
    BY <1>0, <1>a DEF Verify, End, Goto, InferenceInv, TypeOK
  <2>3. r = row /\ row # NoRow
    BY <2>2 DEF Loaded, Fresh
  <2>4. row.fp \in {Fingerprint(cfg[t], "strict"), AnyFingerprint} /\ "strict" \in row.modes
    BY <2>2, <2>3 DEF Fresh, Supports
  <2>5. row.fp = Fingerprint(cfg[t], "strict")
    BY <2>3, <2>4 DEF InferenceInv, ProvedRows, Proved
  <2>6. row.fp.mode = "strict" /\ row.fp.cfg = cfg[t]
    BY <2>5 DEF Fingerprint
  <2> QED BY <2>3, <2>4, <2>6 DEF InferenceInv, ProvedRows, Proved
<1> USE InferenceAssumption, ThreadsApart DEF InferenceInv, vars, store, gen, embed,
                                              history
<1>1. TypeOK'
  <2>1. /\ profile' \in Configs \cup {NoOne} /\ secret' \in {"present", "absent"}
        /\ row' \in Rows \cup {NoRow}
    BY <1>0 DEF TypeOK, Goto, End, Outcomes
  <2>2. /\ pc' \in [Threads -> {"idle", "resolve", "select", "secret", "verify", "post", "record",
                                "write", "cached", "look", "encode", "store"}]
        /\ outcome' \in [Threads -> Outcomes]
    BY <1>0 DEF TypeOK, Goto, End, Outcomes
  <2>3. task' \in [Gens -> Tasks] /\ req' \in [Threads -> RequestType]
    BY <1>0 DEF TypeOK, Goto, End, Outcomes
  <2>4. /\ cfg' \in [Threads -> Configs \cup {NoOne}]
        /\ mode' \in [Threads -> Modes \cup {"none"}]
    BY <1>0 DEF TypeOK, Goto, End, Outcomes
  <2>5. /\ phase' \in [Threads -> {"primary", "fallback"}]
        /\ attempt' \in [Threads -> 0..(Retries + 1)]
        /\ saw' \in [Threads -> Rows \cup {NoRow}]
    BY <1>0 DEF TypeOK, Goto, End, Outcomes
  <2>6. /\ model' \in Models /\ cache' \subseteq [key : Keys, vector : Vectors \cup {Damaged}]
        /\ want' \in [Embedders -> SUBSET Items]
        /\ got' \in [Embedders -> SUBSET [item : Items, vector : Vectors]]
        /\ named' \subseteq [key : Keys, text : Texts]
    BY <1>0 DEF TypeOK, Goto, End, Outcomes
  <2>7. /\ posts' \in [Threads -> Nat] /\ proven' \subseteq Transports
        /\ calls' \in 0..MaxCalls /\ changes' \in 0..MaxChanges
    BY <1>0 DEF TypeOK, Goto, End, Outcomes
  <2> QED BY <2>1, <2>2, <2>3, <2>4, <2>5, <2>6, <2>7 DEF TypeOK
<1>2. Serving'
  BY <1>0 DEF Serving, TypeOK, Goto, End
<1>3. Choosing'
  BY <1>0 DEF Choosing, Serving, TypeOK, Goto, End
<1>4. FallingBack'
  BY <1>0 DEF FallingBack, Serving, TypeOK, Goto, End
<1>5. Counting'
  BY <1>0 DEF Counting, FallingBack, Serving, TypeOK, Goto, End
<1>6. Probing'
  BY <1>0 DEF Probing, TypeOK, Goto, End
<1>7. ProvedRows'
  BY <1>0 DEF ProvedRows, Proved, Chain, TypeOK, Goto, End
<1>8. SeenRows'
  BY <1>0 DEF SeenRows, TypeOK, Goto, End
<1>9. Embedding'
  BY <1>0 DEF Embedding, Fits, TypeOK, Goto, End
<1>10. StrictOnlyVerified'
  BY <1>0, <1>a DEF StrictOnlyVerified, Transport, Chain, Serving, TypeOK, Goto, End
<1>11. VectorsOfTheirTexts'
  BY <1>0 DEF VectorsOfTheirTexts, TypeOK, Goto, End
<1> QED
  BY <1>1, <1>2, <1>3, <1>4, <1>5, <1>6, <1>7, <1>8, <1>9, <1>10, <1>11

LEMMA PostRetryStep ==
    ASSUME InferenceInv, NEW t \in Gens, PostRetry(t)
    PROVE  InferenceInv'
<1> USE InferenceAssumption, ThreadsApart DEF InferenceInv, PostRetry, Posted, vars,
                                              store, gen, embed, history
<1>1. TypeOK'
  <2>1. /\ profile' \in Configs \cup {NoOne} /\ secret' \in {"present", "absent"}
        /\ row' \in Rows \cup {NoRow}
    BY DEF TypeOK
  <2>2. /\ pc' \in [Threads -> {"idle", "resolve", "select", "secret", "verify", "post", "record",
                                "write", "cached", "look", "encode", "store"}]
        /\ outcome' \in [Threads -> Outcomes]
    BY DEF TypeOK
  <2>3. task' \in [Gens -> Tasks] /\ req' \in [Threads -> RequestType]
    BY DEF TypeOK
  <2>4. /\ cfg' \in [Threads -> Configs \cup {NoOne}]
        /\ mode' \in [Threads -> Modes \cup {"none"}]
    BY DEF TypeOK
  <2>5. /\ phase' \in [Threads -> {"primary", "fallback"}]
        /\ attempt' \in [Threads -> 0..(Retries + 1)]
        /\ saw' \in [Threads -> Rows \cup {NoRow}]
    BY DEF TypeOK
  <2>6. /\ model' \in Models /\ cache' \subseteq [key : Keys, vector : Vectors \cup {Damaged}]
        /\ want' \in [Embedders -> SUBSET Items]
        /\ got' \in [Embedders -> SUBSET [item : Items, vector : Vectors]]
        /\ named' \subseteq [key : Keys, text : Texts]
    BY DEF TypeOK
  <2>7. /\ posts' \in [Threads -> Nat] /\ proven' \subseteq Transports
        /\ calls' \in 0..MaxCalls /\ changes' \in 0..MaxChanges
    BY DEF TypeOK
  <2> QED BY <2>1, <2>2, <2>3, <2>4, <2>5, <2>6, <2>7 DEF TypeOK
<1>2. Serving'
  BY DEF Serving, TypeOK
<1>3. Choosing'
  BY DEF Choosing, Serving, TypeOK
<1>4. FallingBack'
  BY DEF FallingBack, Serving, TypeOK
<1>5. Counting'
  BY DEF Counting, FallingBack, Serving, TypeOK
<1>6. Probing'
  BY DEF Probing, TypeOK
<1>7. ProvedRows'
  BY DEF ProvedRows, Proved, Chain, TypeOK
<1>8. SeenRows'
  BY DEF SeenRows, TypeOK
<1>9. Embedding'
  BY DEF Embedding, Fits, TypeOK
<1>10. StrictOnlyVerified'
  BY DEF StrictOnlyVerified, Transport, Chain, Serving, TypeOK
<1>11. VectorsOfTheirTexts'
  BY DEF VectorsOfTheirTexts, TypeOK
<1> QED
  BY <1>1, <1>2, <1>3, <1>4, <1>5, <1>6, <1>7, <1>8, <1>9, <1>10, <1>11

LEMMA PostFailsStep ==
    ASSUME InferenceInv, NEW t \in Gens, NEW how \in {"transient", "auth"}, PostFails(t, how)
    PROVE  InferenceInv'
<1> USE InferenceAssumption, ThreadsApart DEF InferenceInv, PostFails, Posted, Goto,
                                              End, vars, store, gen, embed, history
<1>1. TypeOK'
  <2>1. /\ profile' \in Configs \cup {NoOne} /\ secret' \in {"present", "absent"}
        /\ row' \in Rows \cup {NoRow}
    BY DEF TypeOK, Outcomes
  <2>2. /\ pc' \in [Threads -> {"idle", "resolve", "select", "secret", "verify", "post", "record",
                                "write", "cached", "look", "encode", "store"}]
        /\ outcome' \in [Threads -> Outcomes]
    BY DEF TypeOK, Outcomes
  <2>3. task' \in [Gens -> Tasks] /\ req' \in [Threads -> RequestType]
    BY DEF TypeOK, Outcomes
  <2>4. /\ cfg' \in [Threads -> Configs \cup {NoOne}]
        /\ mode' \in [Threads -> Modes \cup {"none"}]
    BY DEF TypeOK, Outcomes
  <2>5. /\ phase' \in [Threads -> {"primary", "fallback"}]
        /\ attempt' \in [Threads -> 0..(Retries + 1)]
        /\ saw' \in [Threads -> Rows \cup {NoRow}]
    BY DEF TypeOK, Outcomes
  <2>6. /\ model' \in Models /\ cache' \subseteq [key : Keys, vector : Vectors \cup {Damaged}]
        /\ want' \in [Embedders -> SUBSET Items]
        /\ got' \in [Embedders -> SUBSET [item : Items, vector : Vectors]]
        /\ named' \subseteq [key : Keys, text : Texts]
    BY DEF TypeOK, Outcomes
  <2>7. /\ posts' \in [Threads -> Nat] /\ proven' \subseteq Transports
        /\ calls' \in 0..MaxCalls /\ changes' \in 0..MaxChanges
    BY DEF TypeOK, Outcomes
  <2> QED BY <2>1, <2>2, <2>3, <2>4, <2>5, <2>6, <2>7 DEF TypeOK
<1>2. Serving'
  BY DEF Serving, TypeOK
<1>3. Choosing'
  BY DEF Choosing, Serving, TypeOK
<1>4. FallingBack'
  BY DEF FallingBack, Serving, TypeOK
<1>5. Counting'
  BY DEF Counting, FallingBack, Serving, TypeOK
<1>6. Probing'
  BY DEF Probing, TypeOK
<1>7. ProvedRows'
  BY DEF ProvedRows, Proved, Chain, TypeOK
<1>8. SeenRows'
  BY DEF SeenRows, TypeOK
<1>9. Embedding'
  BY DEF Embedding, Fits, TypeOK
<1>10. StrictOnlyVerified'
  BY DEF StrictOnlyVerified, Transport, Chain, Serving, TypeOK
<1>11. VectorsOfTheirTexts'
  BY DEF VectorsOfTheirTexts, TypeOK
<1> QED
  BY <1>1, <1>2, <1>3, <1>4, <1>5, <1>6, <1>7, <1>8, <1>9, <1>10, <1>11

LEMMA CancelStep ==
    ASSUME InferenceInv, NEW t \in Gens, Cancel(t)
    PROVE  InferenceInv'
<1> USE InferenceAssumption, ThreadsApart DEF InferenceInv, Cancel, Goto, End, vars,
                                              store, gen, embed, history
<1>1. TypeOK'
  <2>1. /\ profile' \in Configs \cup {NoOne} /\ secret' \in {"present", "absent"}
        /\ row' \in Rows \cup {NoRow}
    BY DEF TypeOK, Outcomes
  <2>2. /\ pc' \in [Threads -> {"idle", "resolve", "select", "secret", "verify", "post", "record",
                                "write", "cached", "look", "encode", "store"}]
        /\ outcome' \in [Threads -> Outcomes]
    BY DEF TypeOK, Outcomes
  <2>3. task' \in [Gens -> Tasks] /\ req' \in [Threads -> RequestType]
    BY DEF TypeOK, Outcomes
  <2>4. /\ cfg' \in [Threads -> Configs \cup {NoOne}]
        /\ mode' \in [Threads -> Modes \cup {"none"}]
    BY DEF TypeOK, Outcomes
  <2>5. /\ phase' \in [Threads -> {"primary", "fallback"}]
        /\ attempt' \in [Threads -> 0..(Retries + 1)]
        /\ saw' \in [Threads -> Rows \cup {NoRow}]
    BY DEF TypeOK, Outcomes
  <2>6. /\ model' \in Models /\ cache' \subseteq [key : Keys, vector : Vectors \cup {Damaged}]
        /\ want' \in [Embedders -> SUBSET Items]
        /\ got' \in [Embedders -> SUBSET [item : Items, vector : Vectors]]
        /\ named' \subseteq [key : Keys, text : Texts]
    BY DEF TypeOK, Outcomes
  <2>7. /\ posts' \in [Threads -> Nat] /\ proven' \subseteq Transports
        /\ calls' \in 0..MaxCalls /\ changes' \in 0..MaxChanges
    BY DEF TypeOK, Outcomes
  <2> QED BY <2>1, <2>2, <2>3, <2>4, <2>5, <2>6, <2>7 DEF TypeOK
<1>2. Serving'
  BY DEF Serving, TypeOK
<1>3. Choosing'
  BY DEF Choosing, Serving, TypeOK
<1>4. FallingBack'
  BY DEF FallingBack, Serving, TypeOK
<1>5. Counting'
  BY DEF Counting, FallingBack, Serving, TypeOK
<1>6. Probing'
  BY DEF Probing, TypeOK
<1>7. ProvedRows'
  BY DEF ProvedRows, Proved, Chain, TypeOK
<1>8. SeenRows'
  BY DEF SeenRows, TypeOK
<1>9. Embedding'
  BY DEF Embedding, Fits, TypeOK
<1>10. StrictOnlyVerified'
  BY DEF StrictOnlyVerified, Transport, Chain, Serving, TypeOK
<1>11. VectorsOfTheirTexts'
  BY DEF VectorsOfTheirTexts, TypeOK
<1> QED
  BY <1>1, <1>2, <1>3, <1>4, <1>5, <1>6, <1>7, <1>8, <1>9, <1>10, <1>11

LEMMA PostUnusableStep ==
    ASSUME InferenceInv, NEW t \in Gens, PostUnusable(t)
    PROVE  InferenceInv'
<1> USE InferenceAssumption, ThreadsApart DEF InferenceInv, PostUnusable, Posted,
                                              Goto, End, vars, store, gen, embed,
                                              history
<1>1. TypeOK'
  <2>1. /\ profile' \in Configs \cup {NoOne} /\ secret' \in {"present", "absent"}
        /\ row' \in Rows \cup {NoRow}
    BY DEF TypeOK, Outcomes
  <2>2. /\ pc' \in [Threads -> {"idle", "resolve", "select", "secret", "verify", "post", "record",
                                "write", "cached", "look", "encode", "store"}]
        /\ outcome' \in [Threads -> Outcomes]
    BY DEF TypeOK, Outcomes
  <2>3. task' \in [Gens -> Tasks] /\ req' \in [Threads -> RequestType]
    BY DEF TypeOK, Outcomes
  <2>4. /\ cfg' \in [Threads -> Configs \cup {NoOne}]
        /\ mode' \in [Threads -> Modes \cup {"none"}]
    BY DEF TypeOK, Outcomes
  <2>5. /\ phase' \in [Threads -> {"primary", "fallback"}]
        /\ attempt' \in [Threads -> 0..(Retries + 1)]
        /\ saw' \in [Threads -> Rows \cup {NoRow}]
    BY DEF TypeOK, Outcomes
  <2>6. /\ model' \in Models /\ cache' \subseteq [key : Keys, vector : Vectors \cup {Damaged}]
        /\ want' \in [Embedders -> SUBSET Items]
        /\ got' \in [Embedders -> SUBSET [item : Items, vector : Vectors]]
        /\ named' \subseteq [key : Keys, text : Texts]
    BY DEF TypeOK, Outcomes
  <2>7. /\ posts' \in [Threads -> Nat] /\ proven' \subseteq Transports
        /\ calls' \in 0..MaxCalls /\ changes' \in 0..MaxChanges
    BY DEF TypeOK, Outcomes
  <2> QED BY <2>1, <2>2, <2>3, <2>4, <2>5, <2>6, <2>7 DEF TypeOK
<1>2. Serving'
  BY DEF Serving, TypeOK
<1>3. Choosing'
  BY DEF Choosing, Serving, TypeOK
<1>4. FallingBack'
  BY FallbackModes DEF FallingBack, Serving, TypeOK
<1>5. Counting'
  BY DEF Counting, FallingBack, Serving, TypeOK
<1>6. Probing'
  BY DEF Probing, TypeOK
<1>7. ProvedRows'
  BY DEF ProvedRows, Proved, Chain, TypeOK
<1>8. SeenRows'
  BY DEF SeenRows, TypeOK
<1>9. Embedding'
  BY DEF Embedding, Fits, TypeOK
<1>10. StrictOnlyVerified'
  BY DEF StrictOnlyVerified, Transport, Chain, Serving, TypeOK
<1>11. VectorsOfTheirTexts'
  BY DEF VectorsOfTheirTexts, TypeOK
<1> QED
  BY <1>1, <1>2, <1>3, <1>4, <1>5, <1>6, <1>7, <1>8, <1>9, <1>10, <1>11

LEMMA PostAnsweredStep ==
    ASSUME InferenceInv, NEW t \in Gens, NEW shaped \in BOOLEAN, PostAnswered(t, shaped)
    PROVE  InferenceInv'
<1> USE InferenceAssumption, ThreadsApart DEF InferenceInv, PostAnswered, Posted,
                                              Goto, End, vars, store, gen, embed,
                                              history
<1>1. TypeOK'
  <2>1. /\ profile' \in Configs \cup {NoOne} /\ secret' \in {"present", "absent"}
        /\ row' \in Rows \cup {NoRow}
    BY DEF TypeOK, Outcomes
  <2>2. /\ pc' \in [Threads -> {"idle", "resolve", "select", "secret", "verify", "post", "record",
                                "write", "cached", "look", "encode", "store"}]
        /\ outcome' \in [Threads -> Outcomes]
    BY DEF TypeOK, Outcomes
  <2>3. task' \in [Gens -> Tasks] /\ req' \in [Threads -> RequestType]
    BY DEF TypeOK, Outcomes
  <2>4. /\ cfg' \in [Threads -> Configs \cup {NoOne}]
        /\ mode' \in [Threads -> Modes \cup {"none"}]
    BY DEF TypeOK, Outcomes
  <2>5. /\ phase' \in [Threads -> {"primary", "fallback"}]
        /\ attempt' \in [Threads -> 0..(Retries + 1)]
        /\ saw' \in [Threads -> Rows \cup {NoRow}]
    BY DEF TypeOK, Outcomes
  <2>6. /\ model' \in Models /\ cache' \subseteq [key : Keys, vector : Vectors \cup {Damaged}]
        /\ want' \in [Embedders -> SUBSET Items]
        /\ got' \in [Embedders -> SUBSET [item : Items, vector : Vectors]]
        /\ named' \subseteq [key : Keys, text : Texts]
    BY DEF TypeOK, Outcomes
  <2>7. /\ posts' \in [Threads -> Nat] /\ proven' \subseteq Transports
        /\ calls' \in 0..MaxCalls /\ changes' \in 0..MaxChanges
    BY DEF TypeOK, Outcomes
  <2> QED BY <2>1, <2>2, <2>3, <2>4, <2>5, <2>6, <2>7 DEF TypeOK
<1>2. Serving'
  BY DEF Serving, TypeOK
<1>3. Choosing'
  BY DEF Choosing, Serving, TypeOK
<1>4. FallingBack'
  BY DEF FallingBack, Serving, TypeOK
<1>5. Counting'
  BY DEF Counting, FallingBack, Serving, TypeOK
<1>6. Probing'
  BY DEF Probing, TypeOK
<1>7. ProvedRows'
  BY DEF ProvedRows, Proved, Chain, TypeOK
<1>8. SeenRows'
  BY DEF SeenRows, TypeOK
<1>9. Embedding'
  BY DEF Embedding, Fits, TypeOK
<1>10. StrictOnlyVerified'
  BY DEF StrictOnlyVerified, Transport, Chain, Serving, TypeOK
<1>11. VectorsOfTheirTexts'
  BY DEF VectorsOfTheirTexts, TypeOK
<1> QED
  BY <1>1, <1>2, <1>3, <1>4, <1>5, <1>6, <1>7, <1>8, <1>9, <1>10, <1>11

LEMMA RecordReadStep ==
    ASSUME InferenceInv, NEW t \in Gens, RecordRead(t)
    PROVE  InferenceInv'
<1> USE InferenceAssumption, ThreadsApart DEF InferenceInv, RecordRead, Goto, End,
                                              vars, store, gen, embed, history
<1>1. TypeOK'
  <2>1. /\ profile' \in Configs \cup {NoOne} /\ secret' \in {"present", "absent"}
        /\ row' \in Rows \cup {NoRow}
    BY DEF TypeOK, Outcomes
  <2>2. /\ pc' \in [Threads -> {"idle", "resolve", "select", "secret", "verify", "post", "record",
                                "write", "cached", "look", "encode", "store"}]
        /\ outcome' \in [Threads -> Outcomes]
    BY DEF TypeOK, Outcomes
  <2>3. task' \in [Gens -> Tasks] /\ req' \in [Threads -> RequestType]
    BY DEF TypeOK, Outcomes
  <2>4. /\ cfg' \in [Threads -> Configs \cup {NoOne}]
        /\ mode' \in [Threads -> Modes \cup {"none"}]
    BY DEF TypeOK, Outcomes
  <2>5. /\ phase' \in [Threads -> {"primary", "fallback"}]
        /\ attempt' \in [Threads -> 0..(Retries + 1)]
        /\ saw' \in [Threads -> Rows \cup {NoRow}]
    BY DEF TypeOK, Outcomes
  <2>6. /\ model' \in Models /\ cache' \subseteq [key : Keys, vector : Vectors \cup {Damaged}]
        /\ want' \in [Embedders -> SUBSET Items]
        /\ got' \in [Embedders -> SUBSET [item : Items, vector : Vectors]]
        /\ named' \subseteq [key : Keys, text : Texts]
    BY DEF TypeOK, Outcomes
  <2>7. /\ posts' \in [Threads -> Nat] /\ proven' \subseteq Transports
        /\ calls' \in 0..MaxCalls /\ changes' \in 0..MaxChanges
    BY DEF TypeOK, Outcomes
  <2> QED BY <2>1, <2>2, <2>3, <2>4, <2>5, <2>6, <2>7 DEF TypeOK
<1>2. Serving'
  BY DEF Serving, TypeOK
<1>3. Choosing'
  BY DEF Choosing, Serving, TypeOK
<1>4. FallingBack'
  BY DEF FallingBack, Serving, TypeOK
<1>5. Counting'
  BY DEF Counting, FallingBack, Serving, TypeOK
<1>6. Probing'
  BY DEF Probing, TypeOK
<1>7. ProvedRows'
  BY DEF ProvedRows, Proved, Chain, TypeOK
<1>8. SeenRows'
  BY DEF SeenRows, TypeOK
<1>9. Embedding'
  BY DEF Embedding, Fits, TypeOK
<1>10. StrictOnlyVerified'
  BY DEF StrictOnlyVerified, Transport, Chain, Serving, TypeOK
<1>11. VectorsOfTheirTexts'
  BY DEF VectorsOfTheirTexts, TypeOK
<1> QED
  BY <1>1, <1>2, <1>3, <1>4, <1>5, <1>6, <1>7, <1>8, <1>9, <1>10, <1>11

LEMMA RecordWriteStep ==
    ASSUME InferenceInv, NEW t \in Gens, RecordWrite(t)
    PROVE  InferenceInv'
<1>0. /\ pc[t] = "write" /\ t \in Threads
      /\ UNCHANGED <<profile, secret, task, req, cfg, mode, phase, attempt, saw, embed, history,
                      calls, changes>>
      /\ \E how \in {"ok", "store_error"} : End(t, how)
      /\ row' \in {row, AfterFallback(saw[t], mode[t], Sent(t))}
  BY DEF RecordWrite, Threads
<1>a. Sent(t) \in {"json_object", "prompt_only"} /\ saw[t] \in Rows
  BY <1>0 DEF InferenceInv, TypeOK, FallingBack, SeenRows, Sent
<1>b. /\ AfterFallback(saw[t], mode[t], Sent(t)) \in Rows
      /\ AfterFallback(saw[t], mode[t], Sent(t)).fp = saw[t].fp
      /\ "strict" \in AfterFallback(saw[t], mode[t], Sent(t)).modes => "strict" \in saw[t].modes
  BY <1>a DEF AfterFallback, Rows, Modes
<1> USE InferenceAssumption, ThreadsApart DEF InferenceInv, vars, store, gen, embed,
                                              history
<1>1. TypeOK'
  <2>1. /\ profile' \in Configs \cup {NoOne} /\ secret' \in {"present", "absent"}
        /\ row' \in Rows \cup {NoRow}
    BY <1>0, <1>b DEF TypeOK, Goto, End, Outcomes
  <2>2. /\ pc' \in [Threads -> {"idle", "resolve", "select", "secret", "verify", "post", "record",
                                "write", "cached", "look", "encode", "store"}]
        /\ outcome' \in [Threads -> Outcomes]
    BY <1>0, <1>b DEF TypeOK, Goto, End, Outcomes
  <2>3. task' \in [Gens -> Tasks] /\ req' \in [Threads -> RequestType]
    BY <1>0, <1>b DEF TypeOK, Goto, End, Outcomes
  <2>4. /\ cfg' \in [Threads -> Configs \cup {NoOne}]
        /\ mode' \in [Threads -> Modes \cup {"none"}]
    BY <1>0, <1>b DEF TypeOK, Goto, End, Outcomes
  <2>5. /\ phase' \in [Threads -> {"primary", "fallback"}]
        /\ attempt' \in [Threads -> 0..(Retries + 1)]
        /\ saw' \in [Threads -> Rows \cup {NoRow}]
    BY <1>0, <1>b DEF TypeOK, Goto, End, Outcomes
  <2>6. /\ model' \in Models /\ cache' \subseteq [key : Keys, vector : Vectors \cup {Damaged}]
        /\ want' \in [Embedders -> SUBSET Items]
        /\ got' \in [Embedders -> SUBSET [item : Items, vector : Vectors]]
        /\ named' \subseteq [key : Keys, text : Texts]
    BY <1>0, <1>b DEF TypeOK, Goto, End, Outcomes
  <2>7. /\ posts' \in [Threads -> Nat] /\ proven' \subseteq Transports
        /\ calls' \in 0..MaxCalls /\ changes' \in 0..MaxChanges
    BY <1>0, <1>b DEF TypeOK, Goto, End, Outcomes
  <2> QED BY <2>1, <2>2, <2>3, <2>4, <2>5, <2>6, <2>7 DEF TypeOK
<1>2. Serving'
  BY <1>0 DEF Serving, TypeOK, Goto, End
<1>3. Choosing'
  BY <1>0 DEF Choosing, Serving, TypeOK, Goto, End
<1>4. FallingBack'
  BY <1>0 DEF FallingBack, Serving, TypeOK, Goto, End
<1>5. Counting'
  BY <1>0 DEF Counting, FallingBack, Serving, TypeOK, Goto, End
<1>6. Probing'
  BY <1>0 DEF Probing, TypeOK, Goto, End
<1>7. ProvedRows'
  BY <1>0, <1>a, <1>b, NoRowApart DEF ProvedRows, Proved, Chain, TypeOK
<1>8. SeenRows'
  BY <1>0 DEF SeenRows, TypeOK, Goto, End
<1>9. Embedding'
  BY <1>0 DEF Embedding, Fits, TypeOK, Goto, End
<1>10. StrictOnlyVerified'
  BY <1>0 DEF StrictOnlyVerified, Transport, Chain, Serving, TypeOK, Goto, End
<1>11. VectorsOfTheirTexts'
  BY <1>0 DEF VectorsOfTheirTexts, TypeOK, Goto, End
<1> QED
  BY <1>1, <1>2, <1>3, <1>4, <1>5, <1>6, <1>7, <1>8, <1>9, <1>10, <1>11

-----------------------------------------------------------------------------
(* The steps of InferenceInv: the probes                                    *)

LEMMA ProbeCallStep ==
    ASSUME InferenceInv, NEW t \in Probers, NEW o \in Overrides, Probe(t, o)
    PROVE  InferenceInv'
<1> USE InferenceAssumption, ThreadsApart DEF InferenceInv, Probe, Begin, Goto, End,
                                              vars, store, gen, embed, history
<1>1. TypeOK'
  <2>1. /\ profile' \in Configs \cup {NoOne} /\ secret' \in {"present", "absent"}
        /\ row' \in Rows \cup {NoRow}
    BY DEF TypeOK, Outcomes
  <2>2. /\ pc' \in [Threads -> {"idle", "resolve", "select", "secret", "verify", "post", "record",
                                "write", "cached", "look", "encode", "store"}]
        /\ outcome' \in [Threads -> Outcomes]
    BY DEF TypeOK, Outcomes
  <2>3. task' \in [Gens -> Tasks] /\ req' \in [Threads -> RequestType]
    BY DEF TypeOK, RequestType, AnyRequest
  <2>4. /\ cfg' \in [Threads -> Configs \cup {NoOne}]
        /\ mode' \in [Threads -> Modes \cup {"none"}]
    BY DEF TypeOK, Outcomes
  <2>5. /\ phase' \in [Threads -> {"primary", "fallback"}]
        /\ attempt' \in [Threads -> 0..(Retries + 1)]
        /\ saw' \in [Threads -> Rows \cup {NoRow}]
    BY DEF TypeOK, Outcomes
  <2>6. /\ model' \in Models /\ cache' \subseteq [key : Keys, vector : Vectors \cup {Damaged}]
        /\ want' \in [Embedders -> SUBSET Items]
        /\ got' \in [Embedders -> SUBSET [item : Items, vector : Vectors]]
        /\ named' \subseteq [key : Keys, text : Texts]
    BY DEF TypeOK, Outcomes
  <2>7. /\ posts' \in [Threads -> Nat] /\ proven' \subseteq Transports
        /\ calls' \in 0..MaxCalls /\ changes' \in 0..MaxChanges
    BY DEF TypeOK, Outcomes
  <2> QED BY <2>1, <2>2, <2>3, <2>4, <2>5, <2>6, <2>7 DEF TypeOK
<1>2. Serving'
  BY DEF Serving, TypeOK
<1>3. Choosing'
  BY DEF Choosing, Serving, TypeOK
<1>4. FallingBack'
  BY DEF FallingBack, Serving, TypeOK
<1>5. Counting'
  BY DEF Counting, FallingBack, Serving, TypeOK
<1>6. Probing'
  BY DEF Probing, TypeOK
<1>7. ProvedRows'
  BY DEF ProvedRows, Proved, Chain, TypeOK
<1>8. SeenRows'
  BY DEF SeenRows, TypeOK
<1>9. Embedding'
  BY DEF Embedding, Fits, TypeOK
<1>10. StrictOnlyVerified'
  BY DEF StrictOnlyVerified, Transport, Chain, Serving, TypeOK
<1>11. VectorsOfTheirTexts'
  BY DEF VectorsOfTheirTexts, TypeOK
<1> QED
  BY <1>1, <1>2, <1>3, <1>4, <1>5, <1>6, <1>7, <1>8, <1>9, <1>10, <1>11

LEMMA ProbeResolveStep ==
    ASSUME InferenceInv, NEW t \in Probers, ProbeResolve(t)
    PROVE  InferenceInv'
<1>0. /\ pc[t] = "resolve" /\ t \in Threads
      /\ cfg' = [cfg EXCEPT ![t] = profile]
      /\ mode' = [mode EXCEPT ![t] = IF req[t].mode \in Modes THEN req[t].mode ELSE "strict"]
      /\ UNCHANGED <<store, task, req, phase, attempt, saw, embed, history, calls, changes>>
  BY DEF ProbeResolve, Threads
<1>a. \/ End(t, "profile_missing")
      \/ Goto(t, "cached") /\ UNCHANGED outcome /\ profile # NoOne
  BY DEF ProbeResolve
<1> USE InferenceAssumption, ThreadsApart DEF InferenceInv, vars, store, gen, embed,
                                              history
<1>1. TypeOK'
  <2>1. /\ profile' \in Configs \cup {NoOne} /\ secret' \in {"present", "absent"}
        /\ row' \in Rows \cup {NoRow}
    BY <1>0, <1>a DEF TypeOK, Goto, End, Outcomes
  <2>2. /\ pc' \in [Threads -> {"idle", "resolve", "select", "secret", "verify", "post", "record",
                                "write", "cached", "look", "encode", "store"}]
        /\ outcome' \in [Threads -> Outcomes]
    BY <1>a DEF TypeOK, Goto, End, Outcomes
  <2>3. task' \in [Gens -> Tasks] /\ req' \in [Threads -> RequestType]
    BY <1>0, <1>a DEF TypeOK, Goto, End, Outcomes
  <2>4. /\ cfg' \in [Threads -> Configs \cup {NoOne}]
        /\ mode' \in [Threads -> Modes \cup {"none"}]
    BY <1>0 DEF TypeOK, Modes
  <2>5. /\ phase' \in [Threads -> {"primary", "fallback"}]
        /\ attempt' \in [Threads -> 0..(Retries + 1)]
        /\ saw' \in [Threads -> Rows \cup {NoRow}]
    BY <1>0, <1>a DEF TypeOK, Goto, End, Outcomes
  <2>6. /\ model' \in Models /\ cache' \subseteq [key : Keys, vector : Vectors \cup {Damaged}]
        /\ want' \in [Embedders -> SUBSET Items]
        /\ got' \in [Embedders -> SUBSET [item : Items, vector : Vectors]]
        /\ named' \subseteq [key : Keys, text : Texts]
    BY <1>0, <1>a DEF TypeOK, Goto, End, Outcomes
  <2>7. /\ posts' \in [Threads -> Nat] /\ proven' \subseteq Transports
        /\ calls' \in 0..MaxCalls /\ changes' \in 0..MaxChanges
    BY <1>0, <1>a DEF TypeOK, Goto, End, Outcomes
  <2> QED BY <2>1, <2>2, <2>3, <2>4, <2>5, <2>6, <2>7 DEF TypeOK
<1>2. Serving'
  BY <1>0, <1>a DEF Serving, TypeOK, Goto, End
<1>3. Choosing'
  BY <1>0, <1>a DEF Choosing, Serving, TypeOK, Goto, End
<1>4. FallingBack'
  BY <1>0, <1>a DEF FallingBack, Serving, TypeOK, Goto, End
<1>5. Counting'
  BY <1>0, <1>a DEF Counting, FallingBack, Serving, TypeOK, Goto, End
<1>6. Probing'
  BY <1>0, <1>a DEF Probing, TypeOK, Goto, End
<1>7. ProvedRows'
  BY <1>0, <1>a DEF ProvedRows, Proved, Chain, TypeOK, Goto, End
<1>8. SeenRows'
  BY <1>0, <1>a DEF SeenRows, TypeOK, Goto, End
<1>9. Embedding'
  BY <1>0, <1>a DEF Embedding, Fits, TypeOK, Goto, End
<1>10. StrictOnlyVerified'
  BY <1>0, <1>a DEF StrictOnlyVerified, Transport, Chain, Serving, TypeOK, Goto, End
<1>11. VectorsOfTheirTexts'
  BY <1>0, <1>a DEF VectorsOfTheirTexts, TypeOK, Goto, End
<1> QED
  BY <1>1, <1>2, <1>3, <1>4, <1>5, <1>6, <1>7, <1>8, <1>9, <1>10, <1>11

LEMMA ProbeCachedStep ==
    ASSUME InferenceInv, NEW t \in Probers, ProbeCached(t)
    PROVE  InferenceInv'
<1> USE InferenceAssumption, ThreadsApart DEF InferenceInv, ProbeCached, Goto, End,
                                              vars, store, gen, embed, history
<1>1. TypeOK'
  <2>1. /\ profile' \in Configs \cup {NoOne} /\ secret' \in {"present", "absent"}
        /\ row' \in Rows \cup {NoRow}
    BY DEF TypeOK, Outcomes
  <2>2. /\ pc' \in [Threads -> {"idle", "resolve", "select", "secret", "verify", "post", "record",
                                "write", "cached", "look", "encode", "store"}]
        /\ outcome' \in [Threads -> Outcomes]
    BY DEF TypeOK, Outcomes
  <2>3. task' \in [Gens -> Tasks] /\ req' \in [Threads -> RequestType]
    BY DEF TypeOK, Outcomes
  <2>4. /\ cfg' \in [Threads -> Configs \cup {NoOne}]
        /\ mode' \in [Threads -> Modes \cup {"none"}]
    BY DEF TypeOK, Outcomes
  <2>5. /\ phase' \in [Threads -> {"primary", "fallback"}]
        /\ attempt' \in [Threads -> 0..(Retries + 1)]
        /\ saw' \in [Threads -> Rows \cup {NoRow}]
    BY DEF TypeOK, Outcomes
  <2>6. /\ model' \in Models /\ cache' \subseteq [key : Keys, vector : Vectors \cup {Damaged}]
        /\ want' \in [Embedders -> SUBSET Items]
        /\ got' \in [Embedders -> SUBSET [item : Items, vector : Vectors]]
        /\ named' \subseteq [key : Keys, text : Texts]
    BY DEF TypeOK, Outcomes
  <2>7. /\ posts' \in [Threads -> Nat] /\ proven' \subseteq Transports
        /\ calls' \in 0..MaxCalls /\ changes' \in 0..MaxChanges
    BY DEF TypeOK, Outcomes
  <2> QED BY <2>1, <2>2, <2>3, <2>4, <2>5, <2>6, <2>7 DEF TypeOK
<1>2. Serving'
  BY DEF Serving, TypeOK
<1>3. Choosing'
  BY DEF Choosing, Serving, TypeOK
<1>4. FallingBack'
  BY DEF FallingBack, Serving, TypeOK
<1>5. Counting'
  BY DEF Counting, FallingBack, Serving, TypeOK
<1>6. Probing'
  BY DEF Probing, TypeOK
<1>7. ProvedRows'
  BY DEF ProvedRows, Proved, Chain, TypeOK
<1>8. SeenRows'
  BY DEF SeenRows, TypeOK
<1>9. Embedding'
  BY DEF Embedding, Fits, TypeOK
<1>10. StrictOnlyVerified'
  BY DEF StrictOnlyVerified, Transport, Chain, Serving, TypeOK
<1>11. VectorsOfTheirTexts'
  BY DEF VectorsOfTheirTexts, TypeOK
<1> QED
  BY <1>1, <1>2, <1>3, <1>4, <1>5, <1>6, <1>7, <1>8, <1>9, <1>10, <1>11

LEMMA ProbeSecretStep ==
    ASSUME InferenceInv, NEW t \in Probers, ProbeSecret(t)
    PROVE  InferenceInv'
<1>0. /\ pc[t] = "secret" /\ t \in Threads /\ cfg[t] \in Configs /\ req[t] \in RequestType
      /\ mode[t] = IF req[t].mode \in Modes THEN req[t].mode ELSE "strict"
  BY DEF ProbeSecret, Threads, InferenceInv, Probing, TypeOK
<1>a. /\ ProbedFor(t) \in Fingerprints /\ ProbedFor(t) # AnyFingerprint /\ ProbedFor(t).cfg = cfg[t]
      /\ ProbedFor(t).mode = "strict" => mode[t] = "strict"
      /\ Fingerprint(cfg[t], "none") \in Fingerprints
  BY <1>0, InferenceAssumption DEF ProbedFor, Fingerprint, Fingerprints,
                                   AnyFingerprint, RequestType, Modes
<1>b. \A fp \in Fingerprints : [fp |-> fp, status |-> "failed", modes |-> {}] \in Rows
  BY DEF Rows
<1> USE InferenceAssumption, ThreadsApart DEF InferenceInv, ProbeSecret, Persist,
                                              Goto, End, vars, store, gen, embed,
                                              history
<1>1. TypeOK'
  <2>1. /\ profile' \in Configs \cup {NoOne} /\ secret' \in {"present", "absent"}
        /\ row' \in Rows \cup {NoRow}
    BY <1>0, <1>a, <1>b DEF TypeOK
  <2>2. /\ pc' \in [Threads -> {"idle", "resolve", "select", "secret", "verify", "post", "record",
                                "write", "cached", "look", "encode", "store"}]
        /\ outcome' \in [Threads -> Outcomes]
    BY <1>0 DEF TypeOK, Outcomes
  <2>3. task' \in [Gens -> Tasks] /\ req' \in [Threads -> RequestType]
    BY <1>0 DEF TypeOK, Outcomes
  <2>4. /\ cfg' \in [Threads -> Configs \cup {NoOne}]
        /\ mode' \in [Threads -> Modes \cup {"none"}]
    BY <1>0 DEF TypeOK, Outcomes
  <2>5. /\ phase' \in [Threads -> {"primary", "fallback"}]
        /\ attempt' \in [Threads -> 0..(Retries + 1)]
        /\ saw' \in [Threads -> Rows \cup {NoRow}]
    BY <1>0 DEF TypeOK, Outcomes
  <2>6. /\ model' \in Models /\ cache' \subseteq [key : Keys, vector : Vectors \cup {Damaged}]
        /\ want' \in [Embedders -> SUBSET Items]
        /\ got' \in [Embedders -> SUBSET [item : Items, vector : Vectors]]
        /\ named' \subseteq [key : Keys, text : Texts]
    BY <1>0 DEF TypeOK, Outcomes
  <2>7. /\ posts' \in [Threads -> Nat] /\ proven' \subseteq Transports
        /\ calls' \in 0..MaxCalls /\ changes' \in 0..MaxChanges
    BY <1>0 DEF TypeOK, Outcomes
  <2> QED BY <2>1, <2>2, <2>3, <2>4, <2>5, <2>6, <2>7 DEF TypeOK
<1>2. Serving'
  BY <1>0 DEF Serving, TypeOK
<1>3. Choosing'
  BY <1>0 DEF Choosing, Serving, TypeOK
<1>4. FallingBack'
  BY <1>0 DEF FallingBack, Serving, TypeOK
<1>5. Counting'
  BY <1>0 DEF Counting, FallingBack, Serving, TypeOK
<1>6. Probing'
  BY <1>0 DEF Probing, TypeOK
<1>7. ProvedRows'
  BY <1>0 DEF ProvedRows, Proved, Chain, TypeOK
<1>8. SeenRows'
  BY <1>0 DEF SeenRows, TypeOK
<1>9. Embedding'
  BY <1>0 DEF Embedding, Fits, TypeOK
<1>10. StrictOnlyVerified'
  BY <1>0 DEF StrictOnlyVerified, Transport, Chain, Serving, TypeOK
<1>11. VectorsOfTheirTexts'
  BY <1>0 DEF VectorsOfTheirTexts, TypeOK
<1> QED
  BY <1>1, <1>2, <1>3, <1>4, <1>5, <1>6, <1>7, <1>8, <1>9, <1>10, <1>11

LEMMA ProbePassesStep ==
    ASSUME InferenceInv, NEW t \in Probers, ProbePasses(t)
    PROVE  InferenceInv'
<1>0. /\ pc[t] = "post" /\ t \in Threads /\ cfg[t] \in Configs /\ req[t] \in RequestType
      /\ mode[t] = IF req[t].mode \in Modes THEN req[t].mode ELSE "strict"
  BY DEF ProbePasses, Threads, InferenceInv, Probing, TypeOK
<1>a. /\ ProbedFor(t) \in Fingerprints /\ ProbedFor(t) # AnyFingerprint /\ ProbedFor(t).cfg = cfg[t]
      /\ ProbedFor(t).mode = "strict" => mode[t] = "strict"
      /\ Fingerprint(cfg[t], "none") \in Fingerprints
  BY <1>0, InferenceAssumption DEF ProbedFor, Fingerprint, Fingerprints,
                                   AnyFingerprint, RequestType, Modes
<1>b. \A fp \in Fingerprints, ms \in SUBSET Modes : [fp |-> fp, status |-> "passed", modes |-> ms] \in Rows
  BY DEF Rows
<1>c. (IF mode[t] \in {"strict", "json_schema"} THEN {"strict", "json_schema"} ELSE {mode[t]}) \in SUBSET Modes
  BY <1>0 DEF Modes
<1> USE InferenceAssumption, ThreadsApart DEF InferenceInv, ProbePasses, Persist,
                                              Posted, Goto, End, vars, store, gen,
                                              embed, history
<1>1. TypeOK'
  <2>1. /\ profile' \in Configs \cup {NoOne} /\ secret' \in {"present", "absent"}
        /\ row' \in Rows \cup {NoRow}
    BY <1>0, <1>a, <1>b, <1>c DEF TypeOK
  <2>2. /\ pc' \in [Threads -> {"idle", "resolve", "select", "secret", "verify", "post", "record",
                                "write", "cached", "look", "encode", "store"}]
        /\ outcome' \in [Threads -> Outcomes]
    BY <1>0 DEF TypeOK, Outcomes
  <2>3. task' \in [Gens -> Tasks] /\ req' \in [Threads -> RequestType]
    BY <1>0 DEF TypeOK, Outcomes
  <2>4. /\ cfg' \in [Threads -> Configs \cup {NoOne}]
        /\ mode' \in [Threads -> Modes \cup {"none"}]
    BY <1>0 DEF TypeOK, Outcomes
  <2>5. /\ phase' \in [Threads -> {"primary", "fallback"}]
        /\ attempt' \in [Threads -> 0..(Retries + 1)]
        /\ saw' \in [Threads -> Rows \cup {NoRow}]
    BY <1>0 DEF TypeOK, Outcomes
  <2>6. /\ model' \in Models /\ cache' \subseteq [key : Keys, vector : Vectors \cup {Damaged}]
        /\ want' \in [Embedders -> SUBSET Items]
        /\ got' \in [Embedders -> SUBSET [item : Items, vector : Vectors]]
        /\ named' \subseteq [key : Keys, text : Texts]
    BY <1>0 DEF TypeOK, Outcomes
  <2>7. /\ posts' \in [Threads -> Nat] /\ proven' \subseteq Transports
        /\ calls' \in 0..MaxCalls /\ changes' \in 0..MaxChanges
    <3>1. Chain(cfg[t]) \in Transports
      BY <1>0 DEF Chain, Transports
    <3> QED BY <1>0, <3>1 DEF TypeOK
  <2> QED BY <2>1, <2>2, <2>3, <2>4, <2>5, <2>6, <2>7 DEF TypeOK
<1>2. Serving'
  BY <1>0 DEF Serving, TypeOK
<1>3. Choosing'
  BY <1>0 DEF Choosing, Serving, TypeOK
<1>4. FallingBack'
  BY <1>0 DEF FallingBack, Serving, TypeOK
<1>5. Counting'
  BY <1>0 DEF Counting, FallingBack, Serving, TypeOK
<1>6. Probing'
  BY <1>0 DEF Probing, TypeOK
<1>7. ProvedRows'
  BY <1>0, <1>a DEF ProvedRows, Proved, Chain, TypeOK
<1>8. SeenRows'
  BY <1>0 DEF SeenRows, TypeOK
<1>9. Embedding'
  BY <1>0 DEF Embedding, Fits, TypeOK
<1>10. StrictOnlyVerified'
  BY <1>0 DEF StrictOnlyVerified, Transport, Chain, Serving, TypeOK
<1>11. VectorsOfTheirTexts'
  BY <1>0 DEF VectorsOfTheirTexts, TypeOK
<1> QED
  BY <1>1, <1>2, <1>3, <1>4, <1>5, <1>6, <1>7, <1>8, <1>9, <1>10, <1>11

LEMMA ProbeFailsStep ==
    ASSUME InferenceInv, NEW t \in Probers, ProbeFails(t)
    PROVE  InferenceInv'
<1>0. /\ pc[t] = "post" /\ t \in Threads /\ cfg[t] \in Configs /\ req[t] \in RequestType
      /\ mode[t] = IF req[t].mode \in Modes THEN req[t].mode ELSE "strict"
  BY DEF ProbeFails, Threads, InferenceInv, Probing, TypeOK
<1>a. /\ ProbedFor(t) \in Fingerprints /\ ProbedFor(t) # AnyFingerprint /\ ProbedFor(t).cfg = cfg[t]
      /\ ProbedFor(t).mode = "strict" => mode[t] = "strict"
      /\ Fingerprint(cfg[t], "none") \in Fingerprints
  BY <1>0, InferenceAssumption DEF ProbedFor, Fingerprint, Fingerprints,
                                   AnyFingerprint, RequestType, Modes
<1>b. \A fp \in Fingerprints : [fp |-> fp, status |-> "failed", modes |-> {}] \in Rows
  BY DEF Rows
<1> USE InferenceAssumption, ThreadsApart DEF InferenceInv, ProbeFails, Persist,
                                              Posted, Goto, End, vars, store, gen,
                                              embed, history
<1>1. TypeOK'
  <2>1. /\ profile' \in Configs \cup {NoOne} /\ secret' \in {"present", "absent"}
        /\ row' \in Rows \cup {NoRow}
    BY <1>0, <1>a, <1>b DEF TypeOK
  <2>2. /\ pc' \in [Threads -> {"idle", "resolve", "select", "secret", "verify", "post", "record",
                                "write", "cached", "look", "encode", "store"}]
        /\ outcome' \in [Threads -> Outcomes]
    BY <1>0 DEF TypeOK, Outcomes
  <2>3. task' \in [Gens -> Tasks] /\ req' \in [Threads -> RequestType]
    BY <1>0 DEF TypeOK, Outcomes
  <2>4. /\ cfg' \in [Threads -> Configs \cup {NoOne}]
        /\ mode' \in [Threads -> Modes \cup {"none"}]
    BY <1>0 DEF TypeOK, Outcomes
  <2>5. /\ phase' \in [Threads -> {"primary", "fallback"}]
        /\ attempt' \in [Threads -> 0..(Retries + 1)]
        /\ saw' \in [Threads -> Rows \cup {NoRow}]
    BY <1>0 DEF TypeOK, Outcomes
  <2>6. /\ model' \in Models /\ cache' \subseteq [key : Keys, vector : Vectors \cup {Damaged}]
        /\ want' \in [Embedders -> SUBSET Items]
        /\ got' \in [Embedders -> SUBSET [item : Items, vector : Vectors]]
        /\ named' \subseteq [key : Keys, text : Texts]
    BY <1>0 DEF TypeOK, Outcomes
  <2>7. /\ posts' \in [Threads -> Nat] /\ proven' \subseteq Transports
        /\ calls' \in 0..MaxCalls /\ changes' \in 0..MaxChanges
    BY <1>0 DEF TypeOK, Outcomes
  <2> QED BY <2>1, <2>2, <2>3, <2>4, <2>5, <2>6, <2>7 DEF TypeOK
<1>2. Serving'
  BY <1>0 DEF Serving, TypeOK
<1>3. Choosing'
  BY <1>0 DEF Choosing, Serving, TypeOK
<1>4. FallingBack'
  BY <1>0 DEF FallingBack, Serving, TypeOK
<1>5. Counting'
  BY <1>0 DEF Counting, FallingBack, Serving, TypeOK
<1>6. Probing'
  BY <1>0 DEF Probing, TypeOK
<1>7. ProvedRows'
  BY <1>0 DEF ProvedRows, Proved, Chain, TypeOK
<1>8. SeenRows'
  BY <1>0 DEF SeenRows, TypeOK
<1>9. Embedding'
  BY <1>0 DEF Embedding, Fits, TypeOK
<1>10. StrictOnlyVerified'
  BY <1>0 DEF StrictOnlyVerified, Transport, Chain, Serving, TypeOK
<1>11. VectorsOfTheirTexts'
  BY <1>0 DEF VectorsOfTheirTexts, TypeOK
<1> QED
  BY <1>1, <1>2, <1>3, <1>4, <1>5, <1>6, <1>7, <1>8, <1>9, <1>10, <1>11

-----------------------------------------------------------------------------
(* The steps of InferenceInv: the embeddings and restarts                   *)

LEMMA EmbedCallStep ==
    ASSUME InferenceInv, NEW t \in Embedders, NEW texts \in Batches, NEW w \in EmbedTasks,
           Embed(t, texts, w)
    PROVE  InferenceInv'
<1>0. PICK items \in SUBSET Items :
        /\ \A i \in items : i.key.model = model /\ i.key.role = i.role
        /\ want' = [want EXCEPT ![t] = items]
        /\ \A i \in items : [key |-> i.key, text |-> i.text] \in named'
        /\ named \subseteq named' /\ named' \subseteq [key : Keys, text : Texts]
  <2>1. /\ model \in Models /\ ConvertedRole(w) \in Roles /\ w.scope \in Scopes
        /\ named \subseteq [key : Keys, text : Texts] /\ texts \subseteq Texts
    BY InferenceAssumption DEF Embed, DecodesEmbedding, ConvertedRole, EmbedTask,
                               Roles, Texts, InferenceInv, TypeOK
  <2>2. PICK explicit \in Explicit(texts, w) :
          /\ want' = [want EXCEPT ![t] =
                {[key |-> Digest(model, w, x, explicit[x]), role |-> ConvertedRole(w), text |-> x]
                    : x \in texts}]
          /\ named' = named \cup
                {[key |-> Digest(model, w, x, explicit[x]), text |-> x] : x \in texts}
    BY DEF Embed
  <2> DEFINE key(x) == Digest(model, w, x, explicit[x])
             item(x) == [key |-> key(x), role |-> ConvertedRole(w), text |-> x]
             items == {item(x) : x \in texts}
  <2>3. ASSUME NEW x \in texts
        PROVE  key(x) \in Keys /\ key(x).model = model /\ key(x).role = ConvertedRole(w)
    <3>1. explicit[x] \in {"none"} \cup CacheKeys /\ x \in Texts
      BY <2>1, <2>2 DEF Explicit
    <3>2. (IF explicit[x] = "none" THEN x ELSE explicit[x]) \in Texts \cup CacheKeys
      BY <3>1
    <3> QED BY <2>1, <3>2 DEF Digest, Keys
  <2> HIDE DEF key
  <2>4. ASSUME NEW x \in texts
        PROVE  /\ item(x) \in Items /\ item(x).key = key(x) /\ item(x).text = x
               /\ item(x).role = ConvertedRole(w)
    BY <2>1, <2>3 DEF Items
  <2>5. named' = named \cup {[key |-> key(x), text |-> x] : x \in texts}
    BY <2>2 DEF key
  <2>6. want' = [want EXCEPT ![t] = items]
    BY <2>2 DEF key
  <2>7. named \subseteq named' /\ named' \subseteq [key : Keys, text : Texts]
    BY <2>1, <2>3, <2>5
  <2>8. ASSUME NEW i \in items
        PROVE  /\ i \in Items /\ i.key.model = model /\ i.key.role = i.role
               /\ [key |-> i.key, text |-> i.text] \in named'
    <3>1. PICK x \in texts : i = item(x)
      OBVIOUS
    <3> HIDE DEF item
    <3> QED BY <2>3, <2>4, <2>5, <3>1
  <2> HIDE DEF items
  <2> QED BY <2>6, <2>7, <2>8
<1>a. model' = model /\ cache' = cache /\ got' = [got EXCEPT ![t] = {}]
  BY DEF Embed
<1>b. pc' = [pc EXCEPT ![t] = "look"] /\ posts' = [posts EXCEPT ![t] = 0]
  BY DEF Embed, Begin, Goto
<1> USE InferenceAssumption, ThreadsApart DEF InferenceInv, Embed, Begin, Goto, End,
                                              vars, store, gen, embed, history
<1>1. TypeOK'
  <2>1. /\ profile' \in Configs \cup {NoOne} /\ secret' \in {"present", "absent"}
        /\ row' \in Rows \cup {NoRow}
    BY DEF TypeOK, Outcomes
  <2>2. /\ pc' \in [Threads -> {"idle", "resolve", "select", "secret", "verify", "post", "record",
                                "write", "cached", "look", "encode", "store"}]
        /\ outcome' \in [Threads -> Outcomes]
    BY DEF TypeOK, Outcomes
  <2>3. task' \in [Gens -> Tasks] /\ req' \in [Threads -> RequestType]
    BY DEF TypeOK, Outcomes
  <2>4. /\ cfg' \in [Threads -> Configs \cup {NoOne}]
        /\ mode' \in [Threads -> Modes \cup {"none"}]
    BY DEF TypeOK, Outcomes
  <2>5. /\ phase' \in [Threads -> {"primary", "fallback"}]
        /\ attempt' \in [Threads -> 0..(Retries + 1)]
        /\ saw' \in [Threads -> Rows \cup {NoRow}]
    BY DEF TypeOK, Outcomes
  <2>6. /\ model' \in Models /\ cache' \subseteq [key : Keys, vector : Vectors \cup {Damaged}]
        /\ want' \in [Embedders -> SUBSET Items]
        /\ got' \in [Embedders -> SUBSET [item : Items, vector : Vectors]]
        /\ named' \subseteq [key : Keys, text : Texts]
    BY <1>0, <1>a DEF TypeOK
  <2>7. /\ posts' \in [Threads -> Nat] /\ proven' \subseteq Transports
        /\ calls' \in 0..MaxCalls /\ changes' \in 0..MaxChanges
    BY DEF TypeOK, Outcomes
  <2> QED BY <2>1, <2>2, <2>3, <2>4, <2>5, <2>6, <2>7 DEF TypeOK
<1>2. Serving'
  BY DEF Serving, TypeOK
<1>3. Choosing'
  BY DEF Choosing, Serving, TypeOK
<1>4. FallingBack'
  BY DEF FallingBack, Serving, TypeOK
<1>5. Counting'
  BY DEF Counting, FallingBack, Serving, TypeOK
<1>6. Probing'
  BY DEF Probing, TypeOK
<1>7. ProvedRows'
  BY DEF ProvedRows, Proved, Chain, TypeOK
<1>8. SeenRows'
  BY DEF SeenRows, TypeOK
<1>9. Embedding'
  <2>1. \A u \in Embedders : \A i \in want'[u] :
          /\ i.key.model = model' /\ i.key.role = i.role
          /\ [key |-> i.key, text |-> i.text] \in named'
    <3> SUFFICES ASSUME NEW u \in Embedders, NEW i \in want'[u]
                 PROVE  /\ i.key.model = model /\ i.key.role = i.role
                        /\ [key |-> i.key, text |-> i.text] \in named'
      BY <1>a
    <3>1. u = t => i \in items
      BY <1>0 DEF TypeOK
    <3>2. u # t => i \in want[u]
      BY <1>0 DEF TypeOK
    <3> QED BY <1>0, <3>1, <3>2 DEF Embedding
  <2>2. \A e \in cache' : e.vector # Damaged => Fits(e.vector, e.key)'
    BY <1>0, <1>a DEF Embedding, Fits
  <2>3. \A u \in Embedders : posts'[u] = 0 /\ pc'[u] \in {"idle", "look", "encode", "store"}
    BY <1>b DEF Embedding, TypeOK
  <2> QED BY <2>1, <2>2, <2>3 DEF Embedding
<1>10. StrictOnlyVerified'
  BY DEF StrictOnlyVerified, Transport, Chain, Serving, TypeOK
<1>11. VectorsOfTheirTexts'
  BY DEF VectorsOfTheirTexts, TypeOK
<1> QED
  BY <1>1, <1>2, <1>3, <1>4, <1>5, <1>6, <1>7, <1>8, <1>9, <1>10, <1>11

LEMMA LookUpStep ==
    ASSUME InferenceInv, NEW t \in Embedders, LookUp(t)
    PROVE  InferenceInv'
<1>0. PICK good \in SUBSET [item : Items, vector : Vectors], missing \in SUBSET Items :
        /\ t \in Threads /\ pc[t] = "look"
        /\ \A h \in good : /\ h.vector.model = model /\ h.vector.role = h.item.role
                           /\ [key |-> h.item.key, text |-> h.vector.text] \in named
        /\ missing \subseteq want[t]
        /\ cache' \subseteq cache
        /\ got' = [got EXCEPT ![t] = good]
        /\ want' = [want EXCEPT ![t] = missing]
        /\ End(t, "ok") \/ (Goto(t, "encode") /\ UNCHANGED outcome)
        /\ UNCHANGED <<store, task, req, cfg, mode, phase, attempt, saw, model, named, history,
                       calls, changes>>
  <2> DEFINE good == UNION {Cached(i) : i \in want[t]}
             missing == {i \in want[t] : Cached(i) = {}}
  <2>1. want[t] \in SUBSET Items /\ cache \subseteq [key : Keys, vector : Vectors \cup {Damaged}]
    BY DEF InferenceInv, TypeOK
  <2>2. ASSUME NEW h \in good
        PROVE  /\ h \in [item : Items, vector : Vectors]
               /\ h.vector.model = model /\ h.vector.role = h.item.role
               /\ [key |-> h.item.key, text |-> h.vector.text] \in named
    <3>1. PICK i \in want[t] : h \in Cached(i)
      BY <2>2
    <3>2. PICK e \in cache : /\ e.key = i.key /\ e.vector # Damaged
                             /\ h = [item |-> i, vector |-> e.vector]
      BY <3>1 DEF Cached
    <3>3. Fits(e.vector, i.key) /\ e.vector \in Vectors
      BY <2>1, <3>2 DEF InferenceInv, Embedding
    <3>4. i \in Items /\ i.key.model = model /\ i.key.role = i.role
      BY <2>1 DEF InferenceInv, Embedding
    <3>5. h.item = i /\ h.vector = e.vector
      BY <3>2
    <3>6. h \in [item : Items, vector : Vectors]
      BY <3>2, <3>3, <3>4
    <3> QED BY <3>3, <3>4, <3>5, <3>6 DEF Fits
  <2>a. missing \in SUBSET Items /\ missing \subseteq want[t]
    BY <2>1
  <2>b. good \in SUBSET [item : Items, vector : Vectors]
    <3> HIDE DEF good
    <3> QED BY <2>2
  <2>4. /\ cache' \subseteq cache
        /\ got' = [got EXCEPT ![t] = good]
        /\ want' = [want EXCEPT ![t] = missing]
        /\ End(t, "ok") \/ (Goto(t, "encode") /\ UNCHANGED outcome)
    BY DEF LookUp
  <2> HIDE DEF good, missing
  <2> QED BY <2>2, <2>a, <2>b, <2>4 DEF LookUp, Threads
<1> USE InferenceAssumption, ThreadsApart DEF InferenceInv, vars, store, gen, embed,
                                              history
<1>1. TypeOK'
  <2>1. /\ profile' \in Configs \cup {NoOne} /\ secret' \in {"present", "absent"}
        /\ row' \in Rows \cup {NoRow}
    BY <1>0 DEF TypeOK, Goto, End, Outcomes
  <2>2. /\ pc' \in [Threads -> {"idle", "resolve", "select", "secret", "verify", "post", "record",
                                "write", "cached", "look", "encode", "store"}]
        /\ outcome' \in [Threads -> Outcomes]
    BY <1>0 DEF TypeOK, Goto, End, Outcomes
  <2>3. task' \in [Gens -> Tasks] /\ req' \in [Threads -> RequestType]
    BY <1>0 DEF TypeOK, Goto, End, Outcomes
  <2>4. /\ cfg' \in [Threads -> Configs \cup {NoOne}]
        /\ mode' \in [Threads -> Modes \cup {"none"}]
    BY <1>0 DEF TypeOK, Goto, End, Outcomes
  <2>5. /\ phase' \in [Threads -> {"primary", "fallback"}]
        /\ attempt' \in [Threads -> 0..(Retries + 1)]
        /\ saw' \in [Threads -> Rows \cup {NoRow}]
    BY <1>0 DEF TypeOK, Goto, End, Outcomes
  <2>6. /\ model' \in Models /\ cache' \subseteq [key : Keys, vector : Vectors \cup {Damaged}]
        /\ want' \in [Embedders -> SUBSET Items]
        /\ got' \in [Embedders -> SUBSET [item : Items, vector : Vectors]]
        /\ named' \subseteq [key : Keys, text : Texts]
    BY <1>0 DEF TypeOK, Goto, End, Outcomes
  <2>7. /\ posts' \in [Threads -> Nat] /\ proven' \subseteq Transports
        /\ calls' \in 0..MaxCalls /\ changes' \in 0..MaxChanges
    BY <1>0 DEF TypeOK, Goto, End, Outcomes
  <2> QED BY <2>1, <2>2, <2>3, <2>4, <2>5, <2>6, <2>7 DEF TypeOK
<1>2. Serving'
  BY <1>0 DEF Serving, TypeOK, Goto, End
<1>3. Choosing'
  BY <1>0 DEF Choosing, Serving, TypeOK, Goto, End
<1>4. FallingBack'
  BY <1>0 DEF FallingBack, Serving, TypeOK, Goto, End
<1>5. Counting'
  BY <1>0 DEF Counting, FallingBack, Serving, TypeOK, Goto, End
<1>6. Probing'
  BY <1>0 DEF Probing, TypeOK, Goto, End
<1>7. ProvedRows'
  BY <1>0 DEF ProvedRows, Proved, Chain, TypeOK, Goto, End
<1>8. SeenRows'
  BY <1>0 DEF SeenRows, TypeOK, Goto, End
<1>9. Embedding'
  BY <1>0 DEF Embedding, Fits, TypeOK, Goto, End
<1>10. StrictOnlyVerified'
  BY <1>0 DEF StrictOnlyVerified, Transport, Chain, Serving, TypeOK, Goto, End
<1>11. VectorsOfTheirTexts'
  <2> SUFFICES ASSUME NEW u \in Embedders, NEW v \in got'[u]
               PROVE  /\ v.vector.model = model /\ v.vector.role = v.item.role
                      /\ \/ v.vector.text = v.item.text
                         \/ \E n \in named : n.key = v.item.key /\ n.text = v.vector.text
    BY <1>0 DEF VectorsOfTheirTexts
  <2>1. CASE u = t
    <3>1. v \in good
      BY <1>0, <2>1 DEF TypeOK
    <3> DEFINE n == [key |-> v.item.key, text |-> v.vector.text]
    <3>2. n \in named /\ n.key = v.item.key /\ n.text = v.vector.text
      BY <1>0, <3>1
    <3> QED BY <1>0, <3>1, <3>2
  <2>2. CASE u # t
    BY <1>0, <2>2 DEF VectorsOfTheirTexts, TypeOK
  <2> QED BY <2>1, <2>2
<1> QED
  BY <1>1, <1>2, <1>3, <1>4, <1>5, <1>6, <1>7, <1>8, <1>9, <1>10, <1>11

LEMMA EncodeStep ==
    ASSUME InferenceInv, NEW t \in Embedders, Encode(t)
    PROVE  InferenceInv'
<1> USE InferenceAssumption, ThreadsApart DEF InferenceInv, Encode, Goto, End, vars,
                                              store, gen, embed, history
<1>1. TypeOK'
  <2>1. /\ profile' \in Configs \cup {NoOne} /\ secret' \in {"present", "absent"}
        /\ row' \in Rows \cup {NoRow}
    BY DEF TypeOK, Outcomes
  <2>2. /\ pc' \in [Threads -> {"idle", "resolve", "select", "secret", "verify", "post", "record",
                                "write", "cached", "look", "encode", "store"}]
        /\ outcome' \in [Threads -> Outcomes]
    BY DEF TypeOK, Outcomes
  <2>3. task' \in [Gens -> Tasks] /\ req' \in [Threads -> RequestType]
    BY DEF TypeOK, Outcomes
  <2>4. /\ cfg' \in [Threads -> Configs \cup {NoOne}]
        /\ mode' \in [Threads -> Modes \cup {"none"}]
    BY DEF TypeOK, Outcomes
  <2>5. /\ phase' \in [Threads -> {"primary", "fallback"}]
        /\ attempt' \in [Threads -> 0..(Retries + 1)]
        /\ saw' \in [Threads -> Rows \cup {NoRow}]
    BY DEF TypeOK, Outcomes
  <2>6. /\ model' \in Models /\ cache' \subseteq [key : Keys, vector : Vectors \cup {Damaged}]
        /\ want' \in [Embedders -> SUBSET Items]
        /\ got' \in [Embedders -> SUBSET [item : Items, vector : Vectors]]
        /\ named' \subseteq [key : Keys, text : Texts]
    <3>1. \A i \in Items : [item |-> i, vector |-> [model |-> model, role |-> i.role, text |-> i.text]]
                             \in [item : Items, vector : Vectors]
      BY DEF TypeOK, Items, Vectors
    <3> DEFINE new == {[item |-> i, vector |-> [model |-> model, role |-> i.role, text |-> i.text]]
                         : i \in want[t]}
    <3>2. new \in SUBSET [item : Items, vector : Vectors]
      BY <3>1 DEF TypeOK
    <3>3. got' = [got EXCEPT ![t] = @ \cup new]
      OBVIOUS
    <3> HIDE DEF new
    <3> QED BY <3>2, <3>3 DEF TypeOK
  <2>7. /\ posts' \in [Threads -> Nat] /\ proven' \subseteq Transports
        /\ calls' \in 0..MaxCalls /\ changes' \in 0..MaxChanges
    BY DEF TypeOK, Outcomes
  <2> QED BY <2>1, <2>2, <2>3, <2>4, <2>5, <2>6, <2>7 DEF TypeOK
<1>2. Serving'
  BY DEF Serving, TypeOK
<1>3. Choosing'
  BY DEF Choosing, Serving, TypeOK
<1>4. FallingBack'
  BY DEF FallingBack, Serving, TypeOK
<1>5. Counting'
  BY DEF Counting, FallingBack, Serving, TypeOK
<1>6. Probing'
  BY DEF Probing, TypeOK
<1>7. ProvedRows'
  BY DEF ProvedRows, Proved, Chain, TypeOK
<1>8. SeenRows'
  BY DEF SeenRows, TypeOK
<1>9. Embedding'
  BY DEF Embedding, Fits, TypeOK
<1>10. StrictOnlyVerified'
  BY DEF StrictOnlyVerified, Transport, Chain, Serving, TypeOK
<1>11. VectorsOfTheirTexts'
  BY DEF VectorsOfTheirTexts, TypeOK
<1> QED
  BY <1>1, <1>2, <1>3, <1>4, <1>5, <1>6, <1>7, <1>8, <1>9, <1>10, <1>11

LEMMA EncodeFailsStep ==
    ASSUME InferenceInv, NEW t \in Embedders, EncodeFails(t)
    PROVE  InferenceInv'
<1> USE InferenceAssumption, ThreadsApart DEF InferenceInv, EncodeFails, Goto, End,
                                              vars, store, gen, embed, history
<1>1. TypeOK'
  <2>1. /\ profile' \in Configs \cup {NoOne} /\ secret' \in {"present", "absent"}
        /\ row' \in Rows \cup {NoRow}
    BY DEF TypeOK, Outcomes
  <2>2. /\ pc' \in [Threads -> {"idle", "resolve", "select", "secret", "verify", "post", "record",
                                "write", "cached", "look", "encode", "store"}]
        /\ outcome' \in [Threads -> Outcomes]
    BY DEF TypeOK, Outcomes
  <2>3. task' \in [Gens -> Tasks] /\ req' \in [Threads -> RequestType]
    BY DEF TypeOK, Outcomes
  <2>4. /\ cfg' \in [Threads -> Configs \cup {NoOne}]
        /\ mode' \in [Threads -> Modes \cup {"none"}]
    BY DEF TypeOK, Outcomes
  <2>5. /\ phase' \in [Threads -> {"primary", "fallback"}]
        /\ attempt' \in [Threads -> 0..(Retries + 1)]
        /\ saw' \in [Threads -> Rows \cup {NoRow}]
    BY DEF TypeOK, Outcomes
  <2>6. /\ model' \in Models /\ cache' \subseteq [key : Keys, vector : Vectors \cup {Damaged}]
        /\ want' \in [Embedders -> SUBSET Items]
        /\ got' \in [Embedders -> SUBSET [item : Items, vector : Vectors]]
        /\ named' \subseteq [key : Keys, text : Texts]
    BY DEF TypeOK, Outcomes
  <2>7. /\ posts' \in [Threads -> Nat] /\ proven' \subseteq Transports
        /\ calls' \in 0..MaxCalls /\ changes' \in 0..MaxChanges
    BY DEF TypeOK, Outcomes
  <2> QED BY <2>1, <2>2, <2>3, <2>4, <2>5, <2>6, <2>7 DEF TypeOK
<1>2. Serving'
  BY DEF Serving, TypeOK
<1>3. Choosing'
  BY DEF Choosing, Serving, TypeOK
<1>4. FallingBack'
  BY DEF FallingBack, Serving, TypeOK
<1>5. Counting'
  BY DEF Counting, FallingBack, Serving, TypeOK
<1>6. Probing'
  BY DEF Probing, TypeOK
<1>7. ProvedRows'
  BY DEF ProvedRows, Proved, Chain, TypeOK
<1>8. SeenRows'
  BY DEF SeenRows, TypeOK
<1>9. Embedding'
  BY DEF Embedding, Fits, TypeOK
<1>10. StrictOnlyVerified'
  BY DEF StrictOnlyVerified, Transport, Chain, Serving, TypeOK
<1>11. VectorsOfTheirTexts'
  BY DEF VectorsOfTheirTexts, TypeOK
<1> QED
  BY <1>1, <1>2, <1>3, <1>4, <1>5, <1>6, <1>7, <1>8, <1>9, <1>10, <1>11

LEMMA PutVectorStep ==
    ASSUME InferenceInv, NEW t \in Embedders, NEW i \in Items, PutVector(t, i)
    PROVE  InferenceInv'
<1>0. ASSUME NEW e \in cache'
      PROVE  /\ e.vector # Damaged => Fits(e.vector, e.key)
             /\ e \in [key : Keys, vector : Vectors \cup {Damaged}]
  <2>1. CASE e \in cache
    BY <2>1 DEF InferenceInv, Embedding, TypeOK
  <2>2. CASE e \notin cache
    <3>1. PICK v \in got[t] : v.item = i /\ e = [key |-> i.key, vector |-> v.vector]
      BY <2>2 DEF PutVector
    <3>2. /\ v.vector.model = model /\ v.vector.role = i.role
          /\ v.vector.text = i.text \/ [key |-> i.key, text |-> v.vector.text] \in named
      <4>1. v.vector.text # i.text =>
              \E n \in named : n.key = i.key /\ n.text = v.vector.text
        BY <3>1 DEF InferenceInv, VectorsOfTheirTexts
      <4>2. \A n \in named : n = [key |-> n.key, text |-> n.text]
        BY DEF InferenceInv, TypeOK
      <4> QED BY <3>1, <4>1, <4>2 DEF InferenceInv, VectorsOfTheirTexts
    <3>3. /\ i.key.model = model /\ i.key.role = i.role
          /\ [key |-> i.key, text |-> i.text] \in named
      BY DEF PutVector, InferenceInv, Embedding
    <3>4. i.key \in Keys /\ v.vector \in Vectors
      BY DEF Items, InferenceInv, TypeOK
    <3> QED BY <3>1, <3>2, <3>3, <3>4 DEF Fits
  <2> QED BY <2>1, <2>2
<1>a. UNCHANGED <<got, model, named, posts>> /\ want' = [want EXCEPT ![t] = @ \ {i}]
  BY DEF PutVector, history
<1>b. \A u \in Embedders : pc'[u] \in {"idle", "look", "encode", "store"}
  BY ThreadsApart DEF PutVector, End, Goto, InferenceInv, TypeOK, Embedding
<1> USE InferenceAssumption, ThreadsApart DEF InferenceInv, PutVector, Goto, End,
                                              vars, store, gen, embed, history
<1>1. TypeOK'
  <2>1. /\ profile' \in Configs \cup {NoOne} /\ secret' \in {"present", "absent"}
        /\ row' \in Rows \cup {NoRow}
    BY DEF TypeOK, Outcomes
  <2>2. /\ pc' \in [Threads -> {"idle", "resolve", "select", "secret", "verify", "post", "record",
                                "write", "cached", "look", "encode", "store"}]
        /\ outcome' \in [Threads -> Outcomes]
    BY DEF TypeOK, Outcomes
  <2>3. task' \in [Gens -> Tasks] /\ req' \in [Threads -> RequestType]
    BY DEF TypeOK, Outcomes
  <2>4. /\ cfg' \in [Threads -> Configs \cup {NoOne}]
        /\ mode' \in [Threads -> Modes \cup {"none"}]
    BY DEF TypeOK, Outcomes
  <2>5. /\ phase' \in [Threads -> {"primary", "fallback"}]
        /\ attempt' \in [Threads -> 0..(Retries + 1)]
        /\ saw' \in [Threads -> Rows \cup {NoRow}]
    BY DEF TypeOK, Outcomes
  <2>6. /\ model' \in Models /\ cache' \subseteq [key : Keys, vector : Vectors \cup {Damaged}]
        /\ want' \in [Embedders -> SUBSET Items]
        /\ got' \in [Embedders -> SUBSET [item : Items, vector : Vectors]]
        /\ named' \subseteq [key : Keys, text : Texts]
    <3>1. \A e \in cache' : e \in [key : Keys, vector : Vectors \cup {Damaged}]
      BY <1>0
    <3>2. want' \in [Embedders -> SUBSET Items]
      BY <1>a DEF TypeOK
    <3> QED BY <1>a, <3>1, <3>2 DEF TypeOK
  <2>7. /\ posts' \in [Threads -> Nat] /\ proven' \subseteq Transports
        /\ calls' \in 0..MaxCalls /\ changes' \in 0..MaxChanges
    BY DEF TypeOK, Outcomes
  <2> QED BY <2>1, <2>2, <2>3, <2>4, <2>5, <2>6, <2>7 DEF TypeOK
<1>2. Serving'
  BY DEF Serving, TypeOK
<1>3. Choosing'
  BY DEF Choosing, Serving, TypeOK
<1>4. FallingBack'
  BY DEF FallingBack, Serving, TypeOK
<1>5. Counting'
  BY DEF Counting, FallingBack, Serving, TypeOK
<1>6. Probing'
  BY DEF Probing, TypeOK
<1>7. ProvedRows'
  BY DEF ProvedRows, Proved, Chain, TypeOK
<1>8. SeenRows'
  BY DEF SeenRows, TypeOK
<1>9. Embedding'
  <2>1. \A u \in Embedders : \A j \in want'[u] :
          /\ j.key.model = model' /\ j.key.role = j.role
          /\ [key |-> j.key, text |-> j.text] \in named'
    <3>1. \A u \in Embedders : want'[u] \subseteq want[u]
      BY <1>a DEF TypeOK
    <3> QED BY <1>a, <3>1 DEF Embedding
  <2>2. \A e \in cache' : e.vector # Damaged => Fits(e.vector, e.key)'
    BY <1>0, <1>a DEF Fits
  <2>3. \A u \in Embedders : posts'[u] = 0
    BY <1>a DEF Embedding
  <2> QED BY <1>b, <2>1, <2>2, <2>3 DEF Embedding
<1>10. StrictOnlyVerified'
  BY DEF StrictOnlyVerified, Transport, Chain, Serving, TypeOK
<1>11. VectorsOfTheirTexts'
  BY DEF VectorsOfTheirTexts, TypeOK
<1> QED
  BY <1>1, <1>2, <1>3, <1>4, <1>5, <1>6, <1>7, <1>8, <1>9, <1>10, <1>11

LEMMA DamageStep ==
    ASSUME InferenceInv, NEW e \in cache, Damage(e)
    PROVE  InferenceInv'
<1> USE InferenceAssumption, ThreadsApart DEF InferenceInv, Damage, vars, store,
                                              gen, embed, history
<1>1. TypeOK'
  <2>1. /\ profile' \in Configs \cup {NoOne} /\ secret' \in {"present", "absent"}
        /\ row' \in Rows \cup {NoRow}
    BY DEF TypeOK
  <2>2. /\ pc' \in [Threads -> {"idle", "resolve", "select", "secret", "verify", "post", "record",
                                "write", "cached", "look", "encode", "store"}]
        /\ outcome' \in [Threads -> Outcomes]
    BY DEF TypeOK
  <2>3. task' \in [Gens -> Tasks] /\ req' \in [Threads -> RequestType]
    BY DEF TypeOK
  <2>4. /\ cfg' \in [Threads -> Configs \cup {NoOne}]
        /\ mode' \in [Threads -> Modes \cup {"none"}]
    BY DEF TypeOK
  <2>5. /\ phase' \in [Threads -> {"primary", "fallback"}]
        /\ attempt' \in [Threads -> 0..(Retries + 1)]
        /\ saw' \in [Threads -> Rows \cup {NoRow}]
    BY DEF TypeOK
  <2>6. /\ model' \in Models /\ cache' \subseteq [key : Keys, vector : Vectors \cup {Damaged}]
        /\ want' \in [Embedders -> SUBSET Items]
        /\ got' \in [Embedders -> SUBSET [item : Items, vector : Vectors]]
        /\ named' \subseteq [key : Keys, text : Texts]
    BY DEF TypeOK
  <2>7. /\ posts' \in [Threads -> Nat] /\ proven' \subseteq Transports
        /\ calls' \in 0..MaxCalls /\ changes' \in 0..MaxChanges
    BY DEF TypeOK
  <2> QED BY <2>1, <2>2, <2>3, <2>4, <2>5, <2>6, <2>7 DEF TypeOK
<1>2. Serving'
  BY DEF Serving, TypeOK
<1>3. Choosing'
  BY DEF Choosing, Serving, TypeOK
<1>4. FallingBack'
  BY DEF FallingBack, Serving, TypeOK
<1>5. Counting'
  BY DEF Counting, FallingBack, Serving, TypeOK
<1>6. Probing'
  BY DEF Probing, TypeOK
<1>7. ProvedRows'
  BY DEF ProvedRows, Proved, Chain, TypeOK
<1>8. SeenRows'
  BY DEF SeenRows, TypeOK
<1>9. Embedding'
  BY DEF Embedding, Fits, TypeOK
<1>10. StrictOnlyVerified'
  BY DEF StrictOnlyVerified, Transport, Chain, Serving, TypeOK
<1>11. VectorsOfTheirTexts'
  BY DEF VectorsOfTheirTexts, TypeOK
<1> QED
  BY <1>1, <1>2, <1>3, <1>4, <1>5, <1>6, <1>7, <1>8, <1>9, <1>10, <1>11

LEMMA RestartStep ==
    ASSUME InferenceInv, NEW m \in Models, Restart(m)
    PROVE  InferenceInv'
<1> USE InferenceAssumption, ThreadsApart DEF InferenceInv, Restart, vars, store,
                                              gen, embed, history
<1>1. TypeOK'
  <2>1. /\ profile' \in Configs \cup {NoOne} /\ secret' \in {"present", "absent"}
        /\ row' \in Rows \cup {NoRow}
    BY DEF TypeOK, Outcomes
  <2>2. /\ pc' \in [Threads -> {"idle", "resolve", "select", "secret", "verify", "post", "record",
                                "write", "cached", "look", "encode", "store"}]
        /\ outcome' \in [Threads -> Outcomes]
    BY DEF TypeOK, Outcomes
  <2>3. task' \in [Gens -> Tasks] /\ req' \in [Threads -> RequestType]
    BY DEF TypeOK, Outcomes
  <2>4. /\ cfg' \in [Threads -> Configs \cup {NoOne}]
        /\ mode' \in [Threads -> Modes \cup {"none"}]
    BY DEF TypeOK, Outcomes
  <2>5. /\ phase' \in [Threads -> {"primary", "fallback"}]
        /\ attempt' \in [Threads -> 0..(Retries + 1)]
        /\ saw' \in [Threads -> Rows \cup {NoRow}]
    BY DEF TypeOK, Outcomes
  <2>6. /\ model' \in Models /\ cache' \subseteq [key : Keys, vector : Vectors \cup {Damaged}]
        /\ want' \in [Embedders -> SUBSET Items]
        /\ got' \in [Embedders -> SUBSET [item : Items, vector : Vectors]]
        /\ named' \subseteq [key : Keys, text : Texts]
    BY DEF TypeOK, Outcomes
  <2>7. /\ posts' \in [Threads -> Nat] /\ proven' \subseteq Transports
        /\ calls' \in 0..MaxCalls /\ changes' \in 0..MaxChanges
    BY DEF TypeOK, Outcomes
  <2> QED BY <2>1, <2>2, <2>3, <2>4, <2>5, <2>6, <2>7 DEF TypeOK
<1>2. Serving'
  BY DEF Serving, TypeOK
<1>3. Choosing'
  BY DEF Choosing, Serving, TypeOK
<1>4. FallingBack'
  BY DEF FallingBack, Serving, TypeOK
<1>5. Counting'
  BY DEF Counting, FallingBack, Serving, TypeOK
<1>6. Probing'
  BY DEF Probing, TypeOK
<1>7. ProvedRows'
  BY DEF ProvedRows, Proved, Chain, TypeOK
<1>8. SeenRows'
  BY DEF SeenRows, TypeOK
<1>9. Embedding'
  BY DEF Embedding, Fits, TypeOK
<1>10. StrictOnlyVerified'
  BY DEF StrictOnlyVerified, Transport, Chain, Serving, TypeOK
<1>11. VectorsOfTheirTexts'
  BY DEF VectorsOfTheirTexts, TypeOK
<1> QED
  BY <1>1, <1>2, <1>3, <1>4, <1>5, <1>6, <1>7, <1>8, <1>9, <1>10, <1>11

-----------------------------------------------------------------------------
(* The theorems                                                             *)

\* Every call of the provider, every probe and every embedding, in any order
\* and with any change of the profile between their steps, keeps InferenceInv.
LEMMA InferenceNext ==
    ASSUME InferenceInv, [Next]_vars
    PROVE  InferenceInv'
<1>1. CASE UNCHANGED vars
  BY <1>1, StutterStep
<1>2. ASSUME NEW t \in Gens, GenerateStep(t)
      PROVE  InferenceInv'
  BY <1>2, ResolveStep, SelectModeStep, GetSecretStep, VerifyStep, PostRetryStep, PostFailsStep,
     CancelStep, PostUnusableStep, PostAnsweredStep, RecordReadStep, RecordWriteStep DEF GenerateStep
<1>3. ASSUME NEW t \in Probers, ProbeStep(t)
      PROVE  InferenceInv'
  BY <1>3, ProbeResolveStep, ProbeCachedStep, ProbeSecretStep, ProbePassesStep, ProbeFailsStep
     DEF ProbeStep
<1>4. ASSUME NEW t \in Embedders, EmbedStep(t)
      PROVE  InferenceInv'
  BY <1>4, LookUpStep, EncodeStep, EncodeFailsStep, PutVectorStep DEF EmbedStep
<1>5. ASSUME NEW t \in Embedders, NEW texts \in Batches, NEW w \in EmbedTasks,
             Embed(t, texts, w)
      PROVE  InferenceInv'
  BY <1>5, EmbedCallStep
<1> QED
  BY <1>1, <1>2, <1>3, <1>4, <1>5, GenerateCallStep, ProbeCallStep, SetProfileStep, RemoveProfileStep,
     SetSecretStep, DamageStep, RestartStep DEF Next

LEMMA InferenceInit == Init => InferenceInv
<1> SUFFICES ASSUME Init PROVE InferenceInv
  OBVIOUS
<1> USE InferenceAssumption, ThreadsApart DEF Init
<1>1. TypeOK
  <2>1. row \in Rows \cup {NoRow}
    BY DEF Rows
  <2>2. AnyRequest \in RequestType /\ (CHOOSE w \in Tasks : TRUE) \in Tasks
    BY DEF AnyRequest, RequestType
  <2>3. /\ task \in [Gens -> Tasks] /\ req \in [Threads -> RequestType]
        /\ outcome \in [Threads -> Outcomes]
    BY <2>2 DEF Outcomes
  <2> QED BY <2>1, <2>3 DEF TypeOK
<1>2. Serving /\ Choosing /\ FallingBack /\ Counting /\ Probing /\ SeenRows
  BY DEF Serving, Choosing, FallingBack, Counting, Probing, SeenRows
<1>3. ProvedRows
  BY DEF ProvedRows, Proved
<1>4. Embedding /\ StrictOnlyVerified /\ VectorsOfTheirTexts
  BY DEF Embedding, StrictOnlyVerified, VectorsOfTheirTexts
<1> QED
  BY <1>1, <1>2, <1>3, <1>4 DEF InferenceInv

\* The invariant the theorems below rest on.
LEMMA InferenceInvariant == Spec => []InferenceInv
  BY InferenceInit, InferenceNext, PTL DEF Spec

\* A strict request is posted only to an endpoint, model and configuration whose
\* chain of routes has answered a strict probe, or to a part of such a chain when
\* it is forced to the next route: the provider's check of the row
\* (_require_strict_capability) cannot be passed with a row that another profile,
\* another mode, an older release or the record of a fallback left.
THEOREM StrictIsVerified == Spec => []StrictOnlyVerified
<1>1. InferenceInv => StrictOnlyVerified
  BY DEF InferenceInv
<1> QED
  BY <1>1, InferenceInvariant, PTL

\* What embed_many returns for a text is a vector in its role and of the model the
\* runtime was started with, of this text or of another that Core named the same
\* cache key for, through any restarts with other models and damaged rows.
THEOREM VectorsAreOfTheirTexts == Spec => []VectorsOfTheirTexts
<1>1. InferenceInv => VectorsOfTheirTexts
  BY DEF InferenceInv
<1> QED
  BY <1>1, InferenceInvariant, PTL

\* The requests of generate_json go out in the mode the task asked for, those of a
\* semantic task in strict mode or in that of a response_format that came without
\* a requirement, and not more often than max_retries allows in each phase.
THEOREM RequestsGoOutAsAsked == Spec => []RequestsAsAsked
<1>1. InferenceInv => RequestsAsAsked
  <2> SUFFICES ASSUME InferenceInv PROVE RequestsAsAsked
    OBVIOUS
  <2> USE DEF InferenceInv
  <2>1. ASSUME NEW t \in Gens, pc[t] = "post"
        PROVE  /\ Requested(req[t]) # "auto" => Sent(t) = Requested(req[t])
               /\ Preference[cfg[t]] # "auto" => Sent(t) = mode[t]
               /\ Decodes(task[t]) /\ Serves(req[t], task[t]) /\ task[t] \in Tasks
               /\ req[t] \in RequestType /\ Requested(req[t]) # "invalid"
    <3>1. /\ Decodes(task[t]) /\ Serves(req[t], task[t]) /\ task[t] \in Tasks
          /\ Requested(req[t]) # "invalid"
      BY <2>1 DEF Serving, TypeOK
    <3>2. req[t] \in RequestType /\ Requested(req[t]) # "none"
      BY <3>1, ConvertedRequest, RequestedMode DEF Serves
    <3>3. CASE phase[t] = "fallback"
      <4>1. FallbackMode(req[t], cfg[t], mode[t]) # "none"
        BY <2>1, <3>3 DEF FallingBack
      <4>2. Requested(req[t]) = "auto" /\ Preference[cfg[t]] = "auto"
        BY <3>2, <4>1, FallbackModes
      <4> QED BY <3>1, <3>2, <4>2
    <3>4. CASE phase[t] # "fallback"
      BY <2>1, <3>1, <3>2, <3>4 DEF Choosing, Sent
    <3> QED BY <3>3, <3>4
  <2>2. ChoiceKept
    BY <2>1 DEF ChoiceKept
  <2>3. SemanticIsStrict
    <3> SUFFICES ASSUME NEW t \in Gens, pc[t] = "post", task[t].operation = "semantic"
                 PROVE  \/ Sent(t) = "strict"
                        \/ /\ req[t].format # "none" /\ req[t].requirement = "none"
                           /\ Sent(t) = req[t].format
      BY DEF SemanticIsStrict
    <3>1. PICK force \in {"yes", "no"} : req[t] = Converted(task[t], force)
      BY <2>1 DEF Serves
    <3>2. CASE req[t].format = "none" \/ req[t].requirement # "none"
      <4>1. IsStrict(req[t])
        BY <2>1, <3>1, <3>2, SemanticRequest
      <4>2. Requested(req[t]) = "strict"
        BY <2>1, <4>1, RequestedMode
      <4> QED BY <2>1, <4>2
    <3>3. CASE req[t].format # "none" /\ req[t].requirement = "none"
      <4>1. Requested(req[t]) = req[t].format /\ req[t].format # "auto"
        BY <2>1, <3>3 DEF Requested, Normalized, IsStrict, RequestType
      <4> QED BY <2>1, <3>3, <4>1
    <3> QED BY <3>2, <3>3
  <2>4. BoundedPosts
    <3> SUFFICES ASSUME NEW t \in Threads
                 PROVE  posts[t] <= (Retries + 1) *
                            (IF t \in Gens /\ phase[t] = "fallback" THEN 2 ELSE 1)
      BY DEF BoundedPosts
    <3>1. Retries \in Nat /\ posts[t] \in Nat
      BY InferenceAssumption DEF TypeOK
    <3>2. CASE t \in Gens
      <4>1. posts[t] <= (Retries + 1) + (IF phase[t] = "fallback" THEN Retries + 1 ELSE 0)
        BY <3>2 DEF Counting
      <4> QED BY <3>1, <3>2, <4>1
    <3>3. CASE t \notin Gens
      <4>1. posts[t] <= 1
        BY <3>3 DEF Threads, Probing, Embedding
      <4> QED BY <3>1, <3>3, <4>1
    <3> QED BY <3>2, <3>3
  <2> QED BY <2>2, <2>3, <2>4 DEF RequestsAsAsked
<1> QED
  BY <1>1, InferenceInvariant, PTL

\* A step that keeps the row and the profile keeps what is verified.
LEMMA SameRow ==
    ASSUME Verified, row' = row, profile' = profile
    PROVE  Verified'
  BY DEF Verified, Fresh, Supports

\* What a probe has established for the profile is lost only to a change of the
\* profile, a probe for another mode, the record of a fallback or a probe that
\* had read an older row: no outage, missing secret, failed generation, restart
\* or concurrent embedding takes it away.
THEOREM ProbesAreKept == Spec => VerificationKept
<1> DEFINE Kept == /\ Verified /\ profile' = profile
                   /\ \A t \in Probers : OfRow(t)
                   /\ ~(\E t \in Gens : pc[t] = "write" /\ pc'[t] = "idle")
                   => Verified'
<1>1. ASSUME InferenceInv, [Next]_vars
      PROVE  [Kept]_vars
  <2> SUFFICES ASSUME Verified, profile' = profile, \A t \in Probers : OfRow(t),
                      ~(\E t \in Gens : pc[t] = "write" /\ pc'[t] = "idle")
               PROVE  Verified'
    OBVIOUS
  <2>1. CASE row' = row
    BY <2>1, SameRow
  <2>2. ASSUME NEW t \in Gens, RecordWrite(t)
        PROVE  FALSE
    BY <1>1, <2>2, ThreadsApart DEF RecordWrite, End, Goto, InferenceInv, TypeOK
  <2>3. ASSUME NEW t \in Probers, pc[t] \in {"secret", "post"}, pc'[t] = "idle"
        PROVE  /\ ProbedFor(t) = row.fp /\ saw[t] = row
               /\ row # NoRow /\ row.status = "passed" /\ "strict" \in row.modes
               /\ row.fp = Fingerprint(profile, "strict")
               /\ cfg[t] \in Configs /\ req[t] \in RequestType
               /\ mode[t] = IF req[t].mode \in Modes THEN req[t].mode ELSE "strict"
    <3>1. ProbedFor(t) = row.fp /\ saw[t] = row
      BY <2>3 DEF OfRow
    <3>2. /\ cfg[t] \in Configs /\ req[t] \in RequestType
          /\ mode[t] = IF req[t].mode \in Modes THEN req[t].mode ELSE "strict"
      BY <1>1, <2>3, ThreadsApart DEF InferenceInv, Probing, TypeOK
    <3>3. /\ row # NoRow /\ row.status = "passed" /\ "strict" \in row.modes
          /\ row.fp \in {Fingerprint(profile, "strict"), AnyFingerprint}
      BY DEF Verified, Fresh, Supports
    <3>4. row.fp # AnyFingerprint
      BY <1>1, <3>3 DEF InferenceInv, ProvedRows, Proved
    <3> QED BY <3>1, <3>2, <3>3, <3>4
  <2>4. ASSUME NEW t \in Probers, ProbeSecret(t), row' # row
        PROVE  FALSE
    <3>1. pc[t] = "secret" /\ pc'[t] = "idle"
      BY <1>1, <2>4, ThreadsApart DEF ProbeSecret, End, Goto, InferenceInv, TypeOK
    <3> QED BY <2>3, <2>4, <3>1 DEF ProbeSecret
  <2>5. ASSUME NEW t \in Probers, ProbeFails(t), row' # row
        PROVE  FALSE
    <3>1. pc[t] = "post" /\ pc'[t] = "idle"
      BY <1>1, <2>5, ThreadsApart DEF ProbeFails, End, Goto, InferenceInv, TypeOK
    <3> QED BY <2>3, <2>5, <3>1 DEF ProbeFails, Fresh
  <2>6. ASSUME NEW t \in Probers, ProbePasses(t), row' # row
        PROVE  Verified'
    <3>1. pc[t] = "post" /\ pc'[t] = "idle"
      BY <1>1, <2>6, ThreadsApart DEF ProbePasses, End, Goto, InferenceInv, TypeOK
    <3>2. ProbedFor(t) = Fingerprint(profile, "strict")
      BY <2>3, <3>1
    <3>3. mode[t] = "strict"
      BY <2>3, <3>1, <3>2 DEF ProbedFor, Fingerprint, Modes
    <3>4. row' = [fp |-> ProbedFor(t), status |-> "passed", modes |-> {"strict", "json_schema"}]
      BY <2>6, <3>3 DEF ProbePasses, Persist
    <3>5. row' # NoRow
      BY <3>4 DEF NoRow
    <3> QED BY <3>2, <3>4, <3>5 DEF Verified, Fresh, Supports, Fingerprint
  <2>7. CASE row' # row
    <3>1. \/ \E t \in Gens : RecordWrite(t)
          \/ \E t \in Probers : ProbeSecret(t) \/ ProbePasses(t) \/ ProbeFails(t)
      <4> USE <2>7
      <4>1. ASSUME NEW t \in Gens, GenerateStep(t)
            PROVE  RecordWrite(t)
        BY <4>1 DEF GenerateStep, Resolve, SelectMode, GetSecret, Verify, PostRetry,
                    PostFails, Cancel,
                    PostUnusable, PostAnswered, RecordRead, store
      <4>2. ASSUME NEW t \in Probers, ProbeStep(t)
            PROVE  ProbeSecret(t) \/ ProbePasses(t) \/ ProbeFails(t)
        BY <4>2 DEF ProbeStep, ProbeResolve, ProbeCached, store
      <4>3. ASSUME NEW t \in Embedders, EmbedStep(t)
            PROVE  FALSE
        BY <4>3 DEF EmbedStep, LookUp, Encode, EncodeFails, PutVector, store
      <4>4. /\ \A t \in Gens, w \in Tasks, force \in {"yes", "no"} : ~Generate(t, w, force)
            /\ \A t \in Probers, o \in Overrides : ~Probe(t, o)
            /\ \A t \in Embedders, texts \in Batches, w \in EmbedTasks : ~Embed(t, texts, w)
        BY DEF Generate, Probe, Embed, store
      <4>5. /\ \A c \in Configs : ~SetProfile(c)
            /\ ~RemoveProfile /\ ~UNCHANGED vars
            /\ \A x \in {"present", "absent"} : ~SetSecret(x)
            /\ \A e \in cache : ~Damage(e)
            /\ \A m \in Models : ~Restart(m)
        BY DEF SetProfile, RemoveProfile, SetSecret, Damage, Restart, vars, store
      <4> QED BY <1>1, <4>1, <4>2, <4>3, <4>4, <4>5 DEF Next
    <3> QED BY <2>2, <2>4, <2>5, <2>6, <2>7, <3>1
  <2> QED BY <2>1, <2>7
<1>2. VerificationKept <=> [][Kept]_vars
  BY PTL DEF VerificationKept
<1> QED
  BY <1>1, <1>2, InferenceInvariant, PTL DEF Spec
=============================================================================
