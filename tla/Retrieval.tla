----------------------------- MODULE Retrieval -----------------------------
(***************************************************************************)
(* POST /context/retrieve (api/context.py): the query's embeddings, Core's *)
(* candidates, the optional reranker (inference/retrieval_reranker.py),    *)
(* the packing of items into the injection, and the record of what was     *)
(* delivered.                                                              *)
(*                                                                         *)
(* Requests are threads of the HTTP server.  They share the reranker:      *)
(* either a service behind HTTP or one child process with a pipe, under a  *)
(* lock.  The child may fail to start, hang, answer with an error or die.  *)
(* Core is external: it answers with candidates or fails.                  *)
(***************************************************************************)
EXTENDS Naturals, Sequences, FiniteSets, SequencesExt

CONSTANTS
    Requests,
    Items, Facet, Size,  \* candidates, their facets and their lengths in tokens
    Pools,       \* what Core may answer: sequences of items
    Scores,      \* scores of the reranker
    Modes,       \* reranker modes of an installation
    Embedders,   \* what the application has for query vectors
    Limit,       \* items the caller asks for
    MinK, Budget, Heading,
    MaxChanges   \* bound: changes of the embedding profile

Nobody == "none"

ASSUME RetrievalAssumption ==
    /\ Facet \in [Items -> STRING] /\ Size \in [Items -> Nat] /\ Pools \subseteq Seq(Items)
    /\ Scores \subseteq Nat /\ Modes \subseteq {"off", "api", "local"}
    /\ Embedders \subseteq {"runtime", "plain", "none"}
    /\ MinK \in Nat \ {0} /\ Budget \in Nat \ {0} /\ Heading \in Nat /\ Limit \in Nat \ {0}
    /\ MaxChanges \in Nat /\ Nobody \notin Requests

VARIABLES
    mode,      \* of the reranker
    embedder,  \* the runtime, one that names no model, or none: the caller's vectors
    profile,   \* the embedding profile's model; a change gives another one
    pc,        \* per request: its next step
    embedded,  \* the models its two vectors come from
    pool,      \* Core's candidates
    legend,    \* whether Core's injection explains every facet
    ranked,    \* the candidates as they are packed
    packed,    \* how many of them pack_items has looked at
    chosen,    \* the items of the response
    status,    \* selection_diagnostics.status
    recorded,  \* what Core was told of it
    answer,    \* the response's kind
    lock,      \* of the child process
    child,     \* the process
    inbox,     \* the request it works on
    pipe,      \* its answers
    given,     \* history: scores computed for each request
    broken     \* history: whether anything but the reranker failed

request == <<embedded, pool, legend, ranked, packed, chosen, status, recorded, answer>>
worker == <<child, inbox, pipe>>
vars == <<mode, embedder, profile, pc, request, lock, worker, given, broken>>

Answers == {"none", "ok", "failed"}
Models == 0..MaxChanges
NoModels == [value |-> 0, object |-> 0]
NoRecord == [candidates |-> {}, delivered |-> {}]

TypeOK ==
    /\ mode \in Modes /\ embedder \in Embedders /\ profile \in Models
    /\ pc \in [Requests -> {"idle", "embed", "object", "retrieve", "rank", "lock", "start", "send",
                            "receive", "pack", "fill", "record", "done"}]
    /\ embedded \in [Requests -> [value : Models, object : Models]]
    /\ pool \in [Requests -> Pools \cup {<<>>}] /\ legend \in [Requests -> {"complete", "gaps"}]
    /\ ranked \in [Requests -> Seq(Items)] /\ chosen \in [Requests -> Seq(Items)]
    /\ packed \in [Requests -> Nat]
    /\ status \in [Requests -> {"none", "reranked", "core_fallback"}]
    /\ recorded \in [Requests -> [candidates : SUBSET Items, delivered : SUBSET Items]]
    /\ answer \in [Requests -> Answers]
    /\ lock \in Requests \cup {Nobody}
    /\ child \in {"absent", "starting", "ready", "dead"} /\ inbox \in Requests \cup {Nobody}
    /\ pipe \in Seq([kind : {"scores", "error"}, scores : Seq(Scores)])
    /\ given \in [Requests -> Seq(Scores)] /\ broken \in [Requests -> {"no", "yes"}]

Init ==
    /\ mode \in Modes /\ embedder \in Embedders /\ profile = 0
    /\ pc = [r \in Requests |-> "idle"] /\ embedded = [r \in Requests |-> NoModels]
    /\ pool = [r \in Requests |-> <<>>] /\ legend = [r \in Requests |-> "complete"]
    /\ ranked = [r \in Requests |-> <<>>] /\ chosen = [r \in Requests |-> <<>>]
    /\ packed = [r \in Requests |-> 0]
    /\ status = [r \in Requests |-> "none"] /\ recorded = [r \in Requests |-> NoRecord]
    /\ answer = [r \in Requests |-> "none"]
    /\ lock = Nobody /\ child = "absent" /\ inbox = Nobody /\ pipe = <<>>
    /\ given = [r \in Requests |-> <<>>] /\ broken = [r \in Requests |-> "no"]

Goto(r, label) == pc' = [pc EXCEPT ![r] = label]

\* The response; what it was made from is dropped.
Reply(r, how) ==
    /\ Goto(r, "done") /\ answer' = [answer EXCEPT ![r] = how]
    /\ ranked' = [ranked EXCEPT ![r] = <<>>] /\ packed' = [packed EXCEPT ![r] = 0]
    /\ given' = [given EXCEPT ![r] = <<>>]
    /\ embedded' = [embedded EXCEPT ![r] = NoModels]
    /\ legend' = [legend EXCEPT ![r] = "complete"] /\ status' = [status EXCEPT ![r] = "none"]

-----------------------------------------------------------------------------
(* Ranking and packing                                                      *)

Unique(items) == Cardinality(ToSet(items)) = Len(items)

\* rank_items: by score, the highest first, equal ones in Core's order.
Better(scores, a, b) == scores[a] > scores[b] \/ (scores[a] = scores[b] /\ a < b)
RankOf(scores, a) == 1 + Cardinality({b \in DOMAIN scores : Better(scores, b, a)})
RankItems(items, scores) ==
    [i \in DOMAIN items |-> items[CHOOSE a \in DOMAIN items : RankOf(scores, a) = i]]

\* The length of render_injection's text: heading, legend of the facets, one line
\* for each item.
Tokens(items) ==
    Heading + Cardinality({Facet[items[i]] : i \in DOMAIN items})
        + FoldLeft(LAMBDA sum, item : sum + Size[item], 0, items)

Fits(items) == Tokens(items) <= Budget

\* Rows of a service's answer, an index and a score each: in any order, all of one
\* index, or none.
Rows(n) ==
    {<<>>} \cup {rows \in [1..n -> [index : 1..n, score : Scores]] :
                   Cardinality({rows[k].index : k \in 1..n}) \in {1, n}}

RowsValid(rows, n) ==
    /\ \A i, j \in DOMAIN rows : rows[i].index = rows[j].index => i = j
    /\ {rows[i].index : i \in DOMAIN rows} = 1..n

\* ApiReranker.score: the score at each document's index.
ApiScores(rows) ==
    [k \in DOMAIN rows |-> rows[CHOOSE i \in DOMAIN rows : rows[i].index = k].score]

-----------------------------------------------------------------------------
(* The request up to Core's answer                                          *)

Begin(r) ==
    /\ pc[r] = "idle"
    /\ Goto(r, "embed")
    /\ UNCHANGED <<mode, embedder, profile, request, lock, worker, given, broken>>

\* embed_query_with_metadata resolves the profile anew, and so does the next one;
\* an embedder without metadata gives no object vector.
EmbedValue(r) ==
    /\ pc[r] = "embed" /\ embedder # "none"
    /\ embedded' = [embedded EXCEPT ![r].value = profile]
    /\ Goto(r, IF embedder = "runtime" THEN "object" ELSE "retrieve")
    /\ UNCHANGED <<mode, embedder, profile, pool, legend, ranked, packed, chosen, status, recorded,
                   answer, lock, worker, given, broken>>

\* Without an embedder the vectors are the caller's; a request without is one that
\* Fails.
Supplied(r) ==
    /\ pc[r] = "embed" /\ embedder = "none"
    /\ Goto(r, "retrieve")
    /\ UNCHANGED <<mode, embedder, profile, request, lock, worker, given, broken>>

\* Vectors of different models are refused.
Agree(value, object) == value = object

EmbedObject(r) ==
    /\ pc[r] = "object"
    /\ IF Agree(embedded[r].value, profile)
       THEN /\ Goto(r, "retrieve") /\ embedded' = [embedded EXCEPT ![r].object = profile]
            /\ UNCHANGED <<answer, broken, ranked, packed, given, legend, status>>
       ELSE Reply(r, "failed") /\ broken' = [broken EXCEPT ![r] = "yes"]
    /\ UNCHANGED <<mode, embedder, profile, pool, chosen, recorded, lock, worker>>

\* With a reranker the caller's limit is not Core's.
Candidates == {p \in Pools : mode = "off" => Len(p) <= Limit}

Retrieve(r, items, explained) ==
    /\ pc[r] = "retrieve" /\ items \in Candidates
    /\ pool' = [pool EXCEPT ![r] = items] /\ legend' = [legend EXCEPT ![r] = explained]
    /\ chosen' = [chosen EXCEPT ![r] = items]
    /\ Goto(r, IF mode # "off" /\ items # <<>> THEN "rank" ELSE "record")
    /\ UNCHANGED <<mode, embedder, profile, embedded, ranked, packed, status, recorded, answer,
                   lock, worker, given, broken>>

\* An embedding provider, Core or its transport fails, or Core rejects.
Fails(r) ==
    /\ pc[r] \in {"embed", "object", "retrieve", "record"}
    /\ pc[r] = "record" => pool[r] # <<>> /\ Unique(pool[r])
    /\ broken' = [broken EXCEPT ![r] = "yes"]
    /\ Reply(r, "failed")
    /\ UNCHANGED <<mode, embedder, profile, pool, chosen, recorded, lock, worker>>

-----------------------------------------------------------------------------
(* The reranker                                                             *)

\* Mutant: Core's response is dropped with a dead process.
Fallback_Dropped(r) ==
    /\ ranked' = [ranked EXCEPT ![r] = IF child = "dead" THEN <<>> ELSE pool[r]]
    /\ status' = [status EXCEPT ![r] = "core_fallback"]
    /\ Goto(r, "pack") /\ UNCHANGED answer

\* Core's order, and the diagnostics say so.
Fallback(r) ==
    /\ ranked' = [ranked EXCEPT ![r] = pool[r]]
    /\ status' = [status EXCEPT ![r] = "core_fallback"]
    /\ Goto(r, "pack") /\ UNCHANGED answer

\* The scores of a request: a list of the wrong length is refused.
Rank(r, scores) ==
    IF Len(scores) # Len(pool[r]) THEN Fallback(r)
    ELSE /\ ranked' = [ranked EXCEPT ![r] = RankItems(pool[r], scores)]
         /\ status' = [status EXCEPT ![r] = "reranked"]
         /\ Goto(r, "pack") /\ UNCHANGED answer

\* Candidates that are not unique are not ranked.
Duplicates(r) ==
    /\ pc[r] = "rank" /\ ~Unique(pool[r])
    /\ Fallback(r)
    /\ UNCHANGED <<mode, embedder, profile, embedded, pool, legend, packed, chosen, recorded, lock,
                   worker, given, broken>>

\* The service answers.
ApiAnswers(r) ==
    /\ pc[r] = "rank" /\ Unique(pool[r]) /\ mode = "api"
    /\ \E rows \in Rows(Len(pool[r])) :
          IF RowsValid(rows, Len(pool[r]))
          THEN /\ given' = [given EXCEPT ![r] = [k \in DOMAIN rows |->
                               (CHOOSE row \in ToSet(rows) : row.index = k).score]]
               /\ Rank(r, ApiScores(rows))
          ELSE Fallback(r) /\ UNCHANGED given
    /\ UNCHANGED <<mode, embedder, profile, embedded, pool, legend, packed, chosen, recorded, lock,
                   worker, broken>>

\* It does not, or not within its time.
ApiFails(r) ==
    /\ pc[r] = "rank" /\ Unique(pool[r]) /\ mode = "api"
    /\ Fallback(r)
    /\ UNCHANGED <<mode, embedder, profile, embedded, pool, legend, packed, chosen, recorded, lock,
                   worker, given, broken>>

Queue(r) ==
    /\ pc[r] = "rank" /\ Unique(pool[r]) /\ mode = "local"
    /\ Goto(r, "lock")
    /\ UNCHANGED <<mode, embedder, profile, request, lock, worker, given, broken>>

Alive == child \in {"starting", "ready"}

\* _ensure_started: a live process is used, any other is removed and a new one
\* is started.
Acquire(r) ==
    /\ pc[r] = "lock" /\ lock = Nobody /\ lock' = r
    /\ IF Alive THEN Goto(r, "send") /\ UNCHANGED worker
       ELSE Goto(r, "start") /\ child' = "starting" /\ inbox' = Nobody /\ pipe' = <<>>
    /\ UNCHANGED <<mode, embedder, profile, request, given, broken>>

Started(r) ==
    /\ pc[r] = "start" /\ child = "ready"
    /\ Goto(r, "send")
    /\ UNCHANGED <<mode, embedder, profile, request, lock, worker, given, broken>>

\* _stop: the process is terminated and its pipe closed.
StopChild == child' = "absent" /\ inbox' = Nobody /\ pipe' = <<>>

\* Mutant: the process goes on with what it was asked.
GiveUp_Keeps(r) == lock' = Nobody /\ Fallback(r) /\ UNCHANGED worker

\* The process is stopped before the lock is released.
GiveUp(r) == lock' = Nobody /\ Fallback(r) /\ StopChild

\* It did not start: an error, an exit, or startup_timeout.
StartFails(r) ==
    /\ pc[r] = "start" /\ child # "ready"
    /\ GiveUp(r)
    /\ UNCHANGED <<mode, embedder, profile, embedded, pool, legend, packed, chosen, recorded, given,
                   broken>>

\* To a dead process: OSError.
Send(r) ==
    /\ pc[r] = "send"
    /\ IF Alive THEN inbox' = r /\ Goto(r, "receive")
                     /\ UNCHANGED <<lock, child, pipe, ranked, status, answer>>
       ELSE GiveUp(r)
    /\ UNCHANGED <<mode, embedder, profile, embedded, pool, legend, packed, chosen, recorded, given,
                   broken>>

\* An answer of the process, read by whoever holds the lock.
Receive(r) ==
    /\ pc[r] = "receive" /\ pipe # <<>>
    /\ pipe' = Tail(pipe) /\ lock' = Nobody
    /\ IF Head(pipe).kind = "scores" THEN Rank(r, Head(pipe).scores) ELSE Fallback(r)
    /\ UNCHANGED <<mode, embedder, profile, embedded, pool, legend, packed, chosen, recorded, child,
                   inbox, given, broken>>

\* Mutant: it is waited for without a limit.
GivesUpWaiting_Never(r) == pc[r] = "receive" /\ pipe = <<>> /\ child = "dead"

\* The process has exited, or score_timeout has passed.
GivesUpWaiting(r) == pc[r] = "receive" /\ pipe = <<>>

NoAnswer(r) ==
    /\ GivesUpWaiting(r)
    /\ GiveUp(r)
    /\ UNCHANGED <<mode, embedder, profile, embedded, pool, legend, packed, chosen, recorded, given,
                   broken>>

\* _worker_main: the model is loaded ...
Load ==
    /\ child = "starting"
    /\ child' = "ready"
    /\ UNCHANGED <<mode, embedder, profile, pc, request, lock, inbox, pipe, given, broken>>

\* ... and scores each document, or reports an error.
Score ==
    /\ child = "ready" /\ inbox # Nobody /\ inbox' = Nobody
    /\ \E scores \in [DOMAIN pool[inbox] -> Scores] :
          /\ pipe' = Append(pipe, [kind |-> "scores", scores |-> scores])
          /\ given' = [given EXCEPT ![inbox] = scores]
    /\ UNCHANGED <<mode, embedder, profile, pc, request, lock, child, broken>>

ScoreError ==
    /\ child = "ready" /\ inbox # Nobody
    /\ pipe' = Append(pipe, [kind |-> "error", scores |-> <<>>]) /\ inbox' = Nobody
    /\ UNCHANGED <<mode, embedder, profile, pc, request, lock, child, given, broken>>

\* What it has sent can still be read.
Die ==
    /\ Alive
    /\ child' = "dead" /\ inbox' = Nobody
    /\ UNCHANGED <<mode, embedder, profile, pc, request, lock, pipe, given, broken>>

\* close, when the runtime stops; nothing keeps a later request from starting
\* the process again.
Close ==
    /\ lock = Nobody /\ child # "absent"
    /\ StopChild
    /\ UNCHANGED <<mode, embedder, profile, pc, request, lock, given, broken>>

-----------------------------------------------------------------------------
(* The response                                                             *)

First(items, k) == SubSeq(items, 1, IF Len(items) < k THEN Len(items) ELSE k)

\* pack_items begins with the first MinK items; Core's own response stays if its
\* legend does not cover the items.
Pack(r) ==
    /\ pc[r] = "pack"
    /\ IF legend[r] = "complete"
       THEN /\ chosen' = [chosen EXCEPT ![r] = First(ranked[r], MinK)]
            /\ packed' = [packed EXCEPT ![r] = Len(First(ranked[r], MinK))]
            /\ Goto(r, "fill") /\ UNCHANGED status
       ELSE /\ status' = [status EXCEPT ![r] = "core_fallback"]
            /\ Goto(r, "record") /\ UNCHANGED <<chosen, packed>>
    /\ UNCHANGED <<mode, embedder, profile, embedded, pool, legend, ranked, recorded, answer, lock,
                   worker, given, broken>>

\* Mutant: packing ends at the first item that does not fit.
PackItem_Stops(r) ==
    /\ pc[r] = "fill" /\ packed[r] < Len(ranked[r])
    /\ LET trial == Append(chosen[r], ranked[r][packed[r] + 1]) IN
       /\ chosen' = [chosen EXCEPT ![r] = IF Fits(trial) THEN trial ELSE @]
       /\ packed' = [packed EXCEPT ![r] = IF Fits(trial) THEN @ + 1 ELSE Len(ranked[r])]
    /\ UNCHANGED <<mode, embedder, profile, pc, embedded, pool, legend, ranked, status, recorded,
                   answer, lock, worker, given, broken>>

\* Then every later item that still fits.
PackItem(r) ==
    /\ pc[r] = "fill" /\ packed[r] < Len(ranked[r])
    /\ LET trial == Append(chosen[r], ranked[r][packed[r] + 1]) IN
       chosen' = [chosen EXCEPT ![r] = IF Fits(trial) THEN trial ELSE @]
    /\ packed' = [packed EXCEPT ![r] = @ + 1]
    /\ UNCHANGED <<mode, embedder, profile, pc, embedded, pool, legend, ranked, status, recorded,
                   answer, lock, worker, given, broken>>

Packed(r) ==
    /\ pc[r] = "fill" /\ packed[r] = Len(ranked[r])
    /\ Goto(r, "record")
    /\ UNCHANGED <<mode, embedder, profile, request, lock, worker, given, broken>>

\* RecordRetrievalOutcomeCommand.
Outcome(r) == [candidates |-> ToSet(pool[r]), delivered |-> ToSet(chosen[r])]

\* record_retrieval_outcome, unless there is nothing to record, then the response;
\* ids that are not unique are refused.
Record(r) ==
    /\ pc[r] = "record"
    /\ IF Unique(pool[r])
       THEN Reply(r, "ok") /\ recorded' = [recorded EXCEPT ![r] = Outcome(r)]
       ELSE Reply(r, "failed") /\ UNCHANGED recorded
    /\ UNCHANGED <<mode, embedder, profile, pool, chosen, lock, worker, broken>>

\* The embedding profile is changed.
Change ==
    /\ profile < MaxChanges
    /\ profile' = profile + 1
    /\ UNCHANGED <<mode, embedder, pc, request, lock, worker, given, broken>>

-----------------------------------------------------------------------------
\* What a request's thread does by itself, or when a time limit has passed.
Ends(r) ==
    \/ EmbedValue(r) \/ Supplied(r) \/ EmbedObject(r) \/ Duplicates(r) \/ ApiFails(r) \/ Queue(r)
    \/ Acquire(r) \/ Started(r) \/ StartFails(r) \/ Send(r) \/ Receive(r) \/ NoAnswer(r) \/ Pack(r)
    \/ PackItem(r) \/ Packed(r) \/ Record(r) \/ Fails(r)

Proceed(r) ==
    \/ Ends(r) \/ ApiAnswers(r)
    \/ \E items \in Pools, explained \in {"complete", "gaps"} : Retrieve(r, items, explained)

Worker == Load \/ Score \/ ScoreError \/ Die

Next ==
    \/ \E r \in Requests : Begin(r) \/ Proceed(r)
    \/ Worker \/ Close \/ Change

\* Every wait of a request has a time limit; the child promises nothing.
Spec == Init /\ [][Next]_vars /\ \A r \in Requests : WF_vars(Ends(r))

-----------------------------------------------------------------------------
(* Properties                                                               *)

\* "A failed or timed-out reranker falls back to Core order": a reranked response
\* is ordered by the scores computed for this very request, equal ones in Core's
\* order, never by a late answer to another request; any other keeps Core's order.
OwnOrder ==
    \A r \in Requests : pc[r] = "record" /\ Unique(pool[r]) =>
        LET at(item) == CHOOSE i \in DOMAIN pool[r] : pool[r][i] = item
            first(a, b) == IF status[r] # "reranked" THEN a < b
                           ELSE given[r][a] > given[r][b] \/ (given[r][a] = given[r][b] /\ a < b)
        IN  /\ status[r] = "reranked" => Len(given[r]) = Len(pool[r])
            /\ \A i, j \in DOMAIN chosen[r] : i < j => first(at(chosen[r][i]), at(chosen[r][j]))

\* The injection: the first MinK items are there whatever their length, the text
\* fits the budget if there are more, the items are in the order they were ranked,
\* and one is left out only if it would not have fitted after the ones before it
\* ("A long seventh item can be skipped for a shorter eighth").
WellPacked ==
    \A r \in Requests : pc[r] = "record" /\ status[r] # "none" /\ legend[r] = "complete"
                        /\ Unique(pool[r]) =>
        LET all == ranked[r]
            kept == ToSet(chosen[r])
            upTo(i) == Cardinality({k \in 1..i : all[k] \in kept})
        IN  /\ \A i \in DOMAIN all : i <= MinK => all[i] \in kept
            /\ Len(chosen[r]) > MinK => Fits(chosen[r])
            /\ \A i \in DOMAIN all :
                  IF all[i] \in kept THEN chosen[r][upTo(i)] = all[i]
                  ELSE ~Fits(Append(SubSeq(chosen[r], 1, upTo(i)), all[i]))

\* A reranker never suppresses recall: when Core has answered with distinct
\* candidates and nothing but the reranker fails, the response is theirs.
FailOpen ==
    \A r \in Requests : pc[r] = "done" /\ broken[r] = "no" /\ Unique(pool[r]) =>
        answer[r] = "ok" /\ (pool[r] # <<>> => chosen[r] # <<>>)

\* Core knows before the client does what the client gets, and of which
\* candidates.
DeliveredAsRecorded ==
    \A r \in Requests : answer[r] = "ok" =>
        recorded[r] = [candidates |-> ToSet(pool[r]), delivered |-> ToSet(chosen[r])]

\* Core compares vectors of one model only, whatever happens to the profile
\* between the two embeddings of the runtime; a caller's vectors are taken as given.
OneModel ==
    embedder = "runtime" =>
        \A r \in Requests : pc[r] \in {"retrieve", "rank", "pack", "fill", "record"} =>
            embedded[r].value = embedded[r].object

\* What becomes of Core's candidates: they reach the client although the
\* reranker fails, Core knows which of them did, and they were compared with
\* vectors of one model.
ResponseStands == TypeOK /\ FailOpen /\ DeliveredAsRecorded /\ OneModel

\* Every request is answered, even if the child hangs.
EveryRequestAnswered ==
    \A r \in Requests : pc[r] = "embed" ~> answer[r] # "none"
=============================================================================
