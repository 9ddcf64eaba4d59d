-------------------------------- MODULE Search --------------------------------
(* A kb_search request, from the match to the response, against an index that *)
(* is rebuilt meanwhile: every stage opens its own connection and sees the    *)
(* build in place at that moment. index.py (search and its stages),           *)
(* search_shortcut.py, embeddings.py, tools_read.py.                          *)
(*                                                                           *)
(* What a query matches is data: a Query record names the documents each pass *)
(* finds. bm25, the status prior and the cosine blend decide only the order   *)
(* within a rank class, which is left open.                                   *)
EXTENDS Index

CONSTANTS
    Readers,
    Queries,        \* what a search may ask
    Limit,          \* the caller's limit
    CandidateLimit, \* rows a pass may return
    DenseLimit,     \* dense_candidate_count; 0 without embeddings
    TrigramThreshold,
    ReviewAfter     \* review_due_after_days; 0: off

ASSUME SearchAssumption ==
    /\ {Limit, CandidateLimit} \subseteq Nat \ {0}
    /\ {DenseLimit, TrigramThreshold, ReviewAfter} \subseteq Nat
    /\ \A q \in Queries :
        /\ {q.primary, q.expansion, q.trigram, q.dense, q.tagged} \subseteq SUBSET Ids
        /\ q.exact \in Ids \cup {Nil} /\ {q.in_force, q.include_expired} \subseteq BOOLEAN
    /\ \A c \in Corpora : \A p \in DOMAIN c : {c[p].recheck, c[p].verified} \subseteq Nat \cup {Nil}

VARIABLES
    pc,
    req,            \* [query, today, since: the build in place when it began]
    hits,           \* the pool: [id, class, via, of the build it was read from]
    key,            \* the index file stat'ed by _load_vectors
    matrix,         \* the build whose vectors the request ranks with
    stamp,          \* health(): the build in place when its clock was read
    seen,           \* health(): the commit read from the database
    response        \* per hit [id, in_force, superseded_by], or Nil

readerVars == <<pc, req, hits, key, matrix, stamp, seen, response>>
vars == <<indexVars, readerVars>>

Stages == {"idle", "match", "vectors", "load", "store", "dense", "rank",
           "health", "read", "cache", "flags", "done"}

\* Rank classes: what the query names, the match and its neighbours, the
\* backfills.
NAMED == 0
PRIMARY == 1
BACKFILL == 2
Hit == [id : Ids, class : NAMED..BACKFILL, via : {"row", "name"}, of : 1..MaxTrunk]

Idle == [r \in Readers |-> "idle"]
Empty == [r \in Readers |-> {}]
None == [r \in Readers |-> Nil]

SearchInit ==
    /\ Init
    /\ pc = Idle /\ req = None /\ hits = Empty /\ key = None /\ matrix = None
    /\ stamp = None /\ seen = None /\ response = None

Goto(r, stage) == pc' = [pc EXCEPT ![r] = stage]

----------------------------------------------------------------------------
(* The pool.                                                                 *)

\* The in-force predicate as SQL, written apart from is_in_force: the filter's.
in_force_sql_fragment(f, today) ==
    /\ f.from = Nil \/ f.from <= today
    /\ f.until = Nil \/ f.until >= today

not_inbox_sql_fragment(f) == ~f.inbox

not_expired_sql_fragment(f, today) == f.until = Nil \/ f.until >= today

\* Mutant of Eligible: a filtered search looks at the document alone, not at what
\* supersedes it.
EligibleAlone(b, q, today) ==
    {i \in IdsOf(b) :
        /\ q.in_force => /\ IndexedStatus(Doc(b, i)) \in IN_FORCE_STATUSES
                         /\ in_force_sql_fragment(Doc(b, i), today)
                         /\ not_inbox_sql_fragment(Doc(b, i))
        /\ q.include_expired \/ not_expired_sql_fragment(Doc(b, i), today)}

\* The facet filters of a query on a build, shared by every pass.
Eligible(b, q, today) ==
    {i \in IdsOf(b) :
        /\ q.in_force => /\ IndexedStatus(Doc(b, i)) \in IN_FORCE_STATUSES
                         /\ in_force_sql_fragment(Doc(b, i), today)
                         /\ not_inbox_sql_fragment(Doc(b, i))
                         /\ i \notin graph_excluded_ids(b, today)
        /\ q.include_expired \/ not_expired_sql_fragment(Doc(b, i), today)}

Most(n, limit) == IF n < limit THEN n ELSE limit

\* The rows of one pass: as many of what matches as it may return.
Rows(b, matching, class) ==
    {[id |-> i, class |-> class, via |-> "row", of |-> b] : i \in matching}

Pass(b, matching, limit, class) ==
    {Rows(b, s, class) :
        s \in {x \in SUBSET matching : Cardinality(x) = Most(Cardinality(matching), limit)}}

IdsIn(pool) == {h.id : h \in pool}

\* A later pass adds what the pool does not have.
Backfill(pool, new) == pool \cup {h \in new : h.id \notin IdsIn(pool)}

\* The expansion of the query, matched apart and added behind the primary hits.
_expansion_backfill(b, q, today, pool) ==
    {Backfill(pool, x) : x \in Pass(b, q.expansion \cap Eligible(b, q, today), CandidateLimit, BACKFILL)}

\* Fuzzy matches, when the passes before found little.
_trigram_backfill(b, q, today, pool) ==
    IF Cardinality(pool) > TrigramThreshold THEN {pool}
    ELSE {Backfill(pool, x) :
              x \in Pass(b, q.trigram \cap Eligible(b, q, today), CandidateLimit, BACKFILL)}

\* The pools of the three passes, all on one connection.
FtsPools(b, q, today) ==
    UNION {UNION {_trigram_backfill(b, q, today, p) : p \in _expansion_backfill(b, q, today, x)} :
               x \in Pass(b, q.primary \cap Eligible(b, q, today), CandidateLimit, PRIMARY)}

\* The semantic neighbours: documents of build b that have a vector in matrix m.
DensePools(b, m, q, today, pool) ==
    {Backfill(pool, x) :
        x \in Pass(b, q.dense \cap Eligible(b, q, today) \cap IdsOf(m), DenseLimit, PRIMARY)}

ids_with_exact_tag(b, q) == q.tagged \cap IdsOf(b)

\* The short-circuit: the document a query names goes first, whether the filters
\* let it into the pool or not; else the hits it names by their tag.
Shortcut(b, q, pool) ==
    LET named == IF q.exact \in IdsOf(b) THEN {q.exact} ELSE ids_with_exact_tag(b, q)
        found == {h \in pool : h.id \in named}
    IN  (pool \ found) \cup {[h EXCEPT !.class = NAMED] : h \in found}
            \cup {[id |-> i, class |-> NAMED, via |-> "name", of |-> b] :
                       i \in ({q.exact} \cap IdsOf(b)) \ IdsIn(found)}

\* The order every reranker keeps: the class first; within one, any.
NotAfter(h, g) == h.class <= g.class

\* The reranked pool cut at the caller's limit.
Truncations(pool) ==
    {s \in SUBSET pool :
        /\ Cardinality(s) = Most(Cardinality(pool), Limit)
        /\ \A h \in s, g \in pool \ s : NotAfter(h, g)}

\* The in_force field of a hit: the row the hit was made from, against the
\* exclusions of the build in place now. The short-circuit's own hit carries
\* the status and neither validity nor inbox.
in_force(h, excluded, today) ==
    /\ h.id \notin excluded
    /\ IF h.via = "name" THEN IndexedStatus(Doc(h.of, h.id)) \in IN_FORCE_STATUSES
                       ELSE is_in_force(Doc(h.of, h.id), today)

----------------------------------------------------------------------------
(* The request.                                                              *)

Begin(r) ==
    /\ up /\ pc[r] = "idle"
    /\ \E q \in Queries : req' = [req EXCEPT ![r] = [query |-> q, today |-> day, since |-> db]]
    /\ Goto(r, "match")
    /\ UNCHANGED <<indexVars, hits, key, matrix, stamp, seen, response>>

Match(r) ==
    /\ pc[r] = "match"
    /\ \E p \in FtsPools(db, req[r].query, req[r].today) : hits' = [hits EXCEPT ![r] = p]
    /\ Goto(r, IF DenseLimit > 0 THEN "vectors" ELSE "rank")
    /\ UNCHANGED <<indexVars, req, key, matrix, stamp, seen, response>>

\* _load_vectors: the file is stat'ed first, and the matrix is cached under that.
Filed == vectorCache # Nil /\ vectorCache.key = db

VectorsCached(r) ==
    /\ pc[r] = "vectors" /\ Filed
    /\ matrix' = [matrix EXCEPT ![r] = vectorCache.of]
    /\ Goto(r, "dense")
    /\ UNCHANGED <<indexVars, req, hits, key, stamp, seen, response>>

VectorsMissing(r) ==
    /\ pc[r] = "vectors" /\ ~Filed
    /\ key' = [key EXCEPT ![r] = db]
    /\ Goto(r, "load")
    /\ UNCHANGED <<indexVars, req, hits, matrix, stamp, seen, response>>

\* The blobs of the embeddings table, decoded: the vectors of the build in place.
LoadVectors(r) ==
    /\ pc[r] = "load"
    /\ matrix' = [matrix EXCEPT ![r] = db]
    /\ Goto(r, "store")
    /\ UNCHANGED <<indexVars, req, hits, key, stamp, seen, response>>

\* Mutant of VectorEntry: the file is stat'ed when the matrix is filed.
LateVectorEntry(r) == [key |-> db, of |-> matrix[r]]

\* What a request files under the key it looked up.
VectorEntry(r) == [key |-> key[r], of |-> matrix[r]]

StoreVectors(r) ==
    /\ pc[r] = "store"
    /\ vectorCache' = VectorEntry(r)
    /\ key' = [key EXCEPT ![r] = Nil]
    /\ Goto(r, "dense")
    /\ UNCHANGED <<trunk, checkout, day, up, rpc, db, buildStatus, maint, healthCache, missed,
                   faults, req, hits, matrix, stamp, seen, response>>

Dense(r) ==
    /\ pc[r] = "dense"
    /\ \E p \in DensePools(db, matrix[r], req[r].query, req[r].today, hits[r]) :
           hits' = [hits EXCEPT ![r] = p]
    /\ Goto(r, "rank")
    /\ UNCHANGED <<indexVars, req, key, matrix, stamp, seen, response>>

\* What the response says of a hit; in_force comes last. (superseded_by has a
\* connection of its own; no property looks at it.)
_attach_superseded_by(pool) ==
    {[id |-> h.id, in_force |-> FALSE,
      superseded_by |-> IF h.id \in IdsOf(db) THEN superseded_by(db, h.id) ELSE {}] : h \in pool}

Rank(r) ==
    /\ pc[r] = "rank"
    /\ \E p \in Truncations(Shortcut(db, req[r].query, hits[r])) :
           /\ hits' = [hits EXCEPT ![r] = p]
           /\ response' = [response EXCEPT ![r] = _attach_superseded_by(p)]
    /\ matrix' = [matrix EXCEPT ![r] = Nil]
    /\ Goto(r, "health")
    /\ UNCHANGED <<indexVars, req, key, stamp, seen>>

\* Index.health: within the TTL the cached snapshot, else the clock is read, then
\* the database, then the snapshot is cached under the clock's reading.
HealthCached(r) ==
    /\ pc[r] = "health" /\ healthCache # Nil
    /\ seen' = [seen EXCEPT ![r] = healthCache.commit]
    /\ Goto(r, "flags")
    /\ UNCHANGED <<indexVars, req, hits, key, matrix, stamp, response>>

HealthMissing(r) ==
    /\ pc[r] = "health" /\ healthCache = Nil
    /\ stamp' = [stamp EXCEPT ![r] = db]
    /\ Goto(r, "read")
    /\ UNCHANGED <<indexVars, req, hits, key, matrix, seen, response>>

ReadHealth(r) ==
    /\ pc[r] = "read"
    /\ seen' = [seen EXCEPT ![r] = db]
    /\ Goto(r, "cache")
    /\ UNCHANGED <<indexVars, req, hits, key, matrix, stamp, response>>

\* Mutant of HealthEntry: the clock is read after the database.
LateHealthEntry(r) == [at |-> db, commit |-> seen[r]]

HealthEntry(r) == [at |-> stamp[r], commit |-> seen[r]]

CacheHealth(r) ==
    /\ pc[r] = "cache"
    /\ healthCache' = HealthEntry(r)
    /\ Goto(r, "flags")
    /\ UNCHANGED <<trunk, checkout, day, up, rpc, db, buildStatus, maint, vectorCache, missed,
                   faults, req, hits, key, matrix, stamp, seen, response>>

Respond(r) ==
    /\ pc[r] = "flags"
    /\ response' = [response EXCEPT ![r] =
           {[x EXCEPT !.in_force =
                \E h \in hits[r] : h.id = x.id /\
                    in_force(h, graph_excluded_ids(db, req[r].today), req[r].today)] : x \in @}]
    /\ stamp' = [stamp EXCEPT ![r] = Nil] /\ seen' = [seen EXCEPT ![r] = Nil]
    /\ Goto(r, "done")
    /\ UNCHANGED <<indexVars, req, hits, key, matrix>>

\* The response leaves, and nothing of the request is kept.
Return(r) ==
    /\ pc[r] = "done"
    /\ req' = [req EXCEPT ![r] = Nil] /\ response' = [response EXCEPT ![r] = Nil]
    /\ hits' = [hits EXCEPT ![r] = {}]
    /\ Goto(r, "idle")
    /\ UNCHANGED <<indexVars, key, matrix, stamp, seen>>

\* The TTL of the health snapshot runs out.
ExpireHealth ==
    /\ healthCache # Nil /\ healthCache' = Nil
    /\ UNCHANGED <<trunk, checkout, day, up, rpc, db, buildStatus, maint, vectorCache, missed,
                   faults, readerVars>>

\* The pull loop, or the end of the process, which takes the requests with it.
Refresh ==
    /\ IndexNext
    /\ IF up' THEN UNCHANGED readerVars
       ELSE /\ pc' = Idle /\ req' = None /\ hits' = Empty /\ key' = None /\ matrix' = None
            /\ stamp' = None /\ seen' = None /\ response' = None

Next ==
    \/ Refresh \/ ExpireHealth
    \/ \E r \in Readers :
        \/ Begin(r) \/ Match(r)
        \/ VectorsCached(r) \/ VectorsMissing(r) \/ LoadVectors(r) \/ StoreVectors(r) \/ Dense(r)
        \/ Rank(r)
        \/ HealthCached(r) \/ HealthMissing(r) \/ ReadHealth(r) \/ CacheHealth(r)
        \/ Respond(r) \/ Return(r)

Spec == SearchInit /\ [][Next]_vars

----------------------------------------------------------------------------
(* kb_get and kb_curate, on one build. A document has a day to be rechecked by *)
(* and one of its last verification, or Nil.                                  *)

\* The neighbours that have a row.
lifecycle_states(b, ids) == ids \cap IdsOf(b)

\* Mutant of dependents_to_review: of an expired source, nothing.
dependents_of_status(b, i, today) ==
    IF IndexedStatus(Doc(b, i)) \in RETIRED_STATUSES
    THEN {d \in lifecycle_states(b, {e[1] : e \in {x \in Edges(b, "derived_from") : x[2] = i}}) :
              Governs(b, d, today)}
    ELSE {}

\* _derivation_review: what a retired document leaves to look at again, and the
\* retired sources of one in force.
dependents_to_review(b, i, today) ==
    IF is_retired(b, i, today)
    THEN {d \in lifecycle_states(b, {e[1] : e \in {x \in Edges(b, "derived_from") : x[2] = i}}) :
              Governs(b, d, today)}
    ELSE {}

derived_from_retired(b, i, today) ==
    IF Governs(b, i, today)
    THEN {s \in lifecycle_states(b, Doc(b, i).derived_from) : is_retired(b, s, today)}
    ELSE {}

\* A date to recheck by, if there is one, overrides the age of the verification.
compute_freshness(f, today) ==
    IF is_expired(f, today) THEN "expired"
    ELSE IF is_upcoming(f, today) THEN "upcoming"
    ELSE IF \/ f.recheck # Nil /\ f.recheck < today
            \/ /\ f.recheck = Nil /\ ReviewAfter > 0
               /\ f.verified = Nil \/ today - f.verified > ReviewAfter
    THEN "stale" ELSE ""

\* What a caller is told of a document.
kb_get_fn(b, i, today) ==
    [in_force |-> Governs(b, i, today),
     freshness |-> compute_freshness(Doc(b, i), today),
     superseded_by |-> superseded_by(b, i),
     derived_from_retired |-> derived_from_retired(b, i, today),
     dependents_to_review |-> dependents_to_review(b, i, today)]

\* The documents kb_curate looks through, by the filter of a search.
curate_candidates(b, today) == Eligible(b, [in_force |-> TRUE, include_expired |-> FALSE], today)

\* How urgent a stale document is; above every number of days when it was never
\* verified.
_overdue_days(f, today) ==
    IF f.recheck # Nil /\ f.recheck < today THEN today - f.recheck
    ELSE IF f.verified = Nil THEN MaxDay + 1 ELSE today - f.verified - ReviewAfter

\* The lists kb_curate may return: the most overdue, as many as the limit lets.
kb_curate_fn(b, today) ==
    LET due == {i \in curate_candidates(b, today) : compute_freshness(Doc(b, i), today) = "stale"}
    IN  {s \in SUBSET due :
            /\ Cardinality(s) = Most(Cardinality(due), Limit)
            /\ \A i \in s, j \in due \ s :
                    _overdue_days(Doc(b, i), today) >= _overdue_days(Doc(b, j), today)}

----------------------------------------------------------------------------
(* Properties.                                                               *)

TypeOK ==
    /\ IndexTypeOK
    /\ \A r \in Readers :
        /\ pc[r] \in Stages
        /\ hits[r] \subseteq Hit /\ Cardinality(hits[r]) = Cardinality(IdsIn(hits[r]))
        /\ {key[r], matrix[r], stamp[r], seen[r]} \subseteq (1..Len(trunk)) \cup {Nil}

\* Whatever builds came and went under a request, each row of its answer is of a
\* build that was in place meanwhile and is what the query asks of that build: in
\* force and not expired as it wants them. There are never more than the limit.
\* And through every pass, the union, the reranking and the truncation, an answer
\* no swap came into has no fewer than matched, no backfill in the place of a
\* match, and shows each as governing exactly when it governs. (The document named
\* by its id is a case of its own.)
AnswersTheQuery ==
    \A r \in Readers : pc[r] = "done" =>
        LET q == req[r].query
            today == req[r].today
            asked(b, i) == /\ q.in_force => Governs(b, i, today)
                           /\ q.include_expired \/ ~is_expired(Doc(b, i), today)
            first == {i \in q.primary \cap IdsOf(db) : asked(db, i)}
            rows == {h \in hits[r] : h.via = "row"}
        IN  /\ Cardinality(hits[r]) <= Limit
            /\ \A h \in rows : h.of \in req[r].since..db /\ h.id \in IdsOf(h.of) /\ asked(h.of, h.id)
            /\ req[r].since = db =>
                /\ Most(Cardinality(first), Most(Limit, CandidateLimit)) <= Cardinality(hits[r])
                /\ (\E i \in IdsIn(rows) : i \notin q.primary \cup q.dense \cup q.tagged \cup {q.exact})
                       /\ Cardinality(first) <= CandidateLimit => first \subseteq IdsIn(hits[r])
                /\ \A x \in response[r] :
                        x.id \in IdsIn(rows) => x.in_force = Governs(db, x.id, today)

\* A request never ranks with vectors older than the build in place when it
\* began, although the matrix is cached across requests and loaded unlocked.
RanksWithCurrentVectors ==
    \A r \in Readers : matrix[r] # Nil => req[r].since <= matrix[r]

\* The cached health snapshot is of a build that is gone, and its rebuild is over.
SnapshotBehind == healthCache # Nil /\ healthCache.commit # db /\ rpc # "publish"

\* What health reports was true within the last TTL: a snapshot is of a build no
\* older than the one in place when its timestamp was taken. And after a rebuild
\* health reports it at once: a snapshot is of the build in place or of the one
\* just swapped out, unless the request that files it missed the cache before the
\* swap and files it after the cache was emptied, and then only for as long as that
\* entry stays.
HealthSnapshotCurrent ==
    [][/\ healthCache' # Nil => healthCache'.at <= healthCache'.commit
       /\ SnapshotBehind' =>
            \/ SnapshotBehind /\ UNCHANGED healthCache
            \/ \E r \in Readers : pc[r] = "cache" /\ pc'[r] # "cache" /\ stamp[r] < db]_vars

\* kb_get's two cues are one relation seen from both ends: a document in force is
\* told of a retired source exactly when the source names it. What kb_get calls in
\* force is what the filter of a search lets through, and what it calls stale as
\* well is on every list of kb_curate but for others that fill it. (Asked while
\* no search is under way, on which none of this depends.)
ReviewCuesAgree ==
    (\A r \in Readers : pc[r] = "idle") =>
    LET answers == {[id |-> i, is |-> kb_get_fn(db, i, day)] : i \in IdsOf(db)}
        candidates == curate_candidates(db, day)
        stale == {x.id : x \in {y \in answers : y.is.in_force /\ y.is.freshness = "stale"}}
    IN  /\ \A x \in answers :
            /\ x.is.in_force <=> x.id \in candidates
            /\ \A y \in answers : y.id \in x.is.derived_from_retired
                                     <=> x.id \in y.is.dependents_to_review
        /\ kb_curate_fn(db, day) # {}
        /\ \A listed \in kb_curate_fn(db, day) :
            listed \subseteq stale /\ (listed = stale \/ Cardinality(listed) = Limit)
=============================================================================
