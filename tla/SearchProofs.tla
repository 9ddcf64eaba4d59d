----------------------------- MODULE SearchProofs -----------------------------
(* Proofs about Search, for every set of readers, queries and corpora and any  *)
(* limit: where a request stands against the builds, what its pool and its     *)
(* answer hold of the build it began with, and that kb_get and kb_curate agree.*)
(* And about MaintenanceLedger: what it remembers as committed is published.   *)
EXTENDS Search, MaintenanceLedger, FiniteSetTheorems, SequenceTheorems, TLAPS

----------------------------------------------------------------------------
(* Positions: a request, its caches and the build in place.                   *)

Request == [query : Queries, today : Nat, since : Nat]

TrunkCommit == [files : Corpora, ledger : LedgerState \cup {Nil}]

IndexOK ==
    /\ trunk \in Seq(TrunkCommit)
    /\ db \in Nat /\ checkout \in Nat /\ day \in Nat
    /\ 1 <= db /\ db <= checkout /\ checkout <= Len(trunk)

RequestsOK ==
    /\ pc \in [Readers -> Stages]
    /\ DOMAIN req = Readers /\ DOMAIN hits = Readers /\ DOMAIN key = Readers
    /\ DOMAIN matrix = Readers /\ DOMAIN stamp = Readers /\ DOMAIN seen = Readers
    /\ DOMAIN response = Readers
    /\ \A r \in Readers : pc[r] # "idle" => req[r] \in Request /\ req[r].since <= db

\* A cached matrix is of the build whose file it is filed under or of a later one.
VectorsOK ==
    /\ vectorCache # Nil => /\ vectorCache.key \in Nat /\ vectorCache.of \in Nat
                            /\ vectorCache.key <= vectorCache.of
    /\ \A r \in Readers :
        /\ pc[r] = "load" => key[r] \in Nat /\ req[r].since <= key[r] /\ key[r] <= db
        /\ pc[r] = "store" => /\ key[r] \in Nat /\ matrix[r] \in Nat
                              /\ req[r].since <= key[r] /\ key[r] <= matrix[r]
        /\ matrix[r] # Nil => pc[r] \in {"store", "dense", "rank"} /\ req[r].since <= matrix[r]

\* A health snapshot is of the build at its stamp or of a later one, and so is what
\* a request is about to file. A process that is down has neither.
HealthOK ==
    /\ healthCache # Nil => healthCache.at <= healthCache.commit
    /\ ~up => healthCache = Nil /\ \A r \in Readers : pc[r] = "idle"
    /\ \A r \in Readers :
        /\ pc[r] = "read" => stamp[r] \in Nat /\ stamp[r] <= db
        /\ pc[r] = "cache" => /\ stamp[r] \in Nat /\ seen[r] \in Nat
                              /\ stamp[r] <= seen[r] /\ seen[r] <= db

Positions == IndexOK /\ RequestsOK /\ VectorsOK /\ HealthOK

\* What the pull loop does to them: builds only go forward.
LEMMA IndexForward ==
    ASSUME IndexOK, IndexNext
    PROVE  /\ IndexOK' /\ db <= db'
           /\ Len(trunk) <= Len(trunk') /\ \A b \in 1..Len(trunk) : trunk'[b] = trunk[b]
           /\ healthCache' \in {healthCache, Nil} /\ vectorCache' \in {vectorCache, Nil}
           /\ ~up' => healthCache' = Nil \/ ~up
<1> USE DEF IndexOK
<1>1. CASE PushTrunk
  <2>1. PICK c \in Corpora :
            trunk' = Append(trunk, [files |-> c, ledger |-> trunk[Len(trunk)].ledger])
    BY <1>1 DEF PushTrunk
  <2>2. trunk[Len(trunk)] \in TrunkCommit
    <3>1. Len(trunk) \in 1..Len(trunk)
      OBVIOUS
    <3>2. QED BY <3>1
  <2>3. [files |-> c, ledger |-> trunk[Len(trunk)].ledger] \in TrunkCommit
    BY <2>2 DEF TrunkCommit
  <2>4. TrunkCommit' = TrunkCommit
    BY DEF TrunkCommit, LedgerState
  <2>5. QED BY <1>1, <2>1, <2>3, <2>4 DEF PushTrunk, cacheVars
<1>2. CASE NextDay
  BY <1>2 DEF NextDay, cacheVars, TrunkCommit, LedgerState
<1>3. CASE FastForward \/ NoChange \/ FastForwardCutOff
  BY <1>3 DEF FastForward, NoChange, FastForwardCutOff, cacheVars, TrunkCommit, LedgerState
<1>4. CASE Swap \/ BuildFails \/ Publish
  BY <1>4 DEF Swap, BuildFails, Publish, cacheVars, TrunkCommit, LedgerState
<1>5. CASE Crash \/ Restart
  BY <1>5 DEF Crash, Restart, cacheVars, TrunkCommit, LedgerState
<1>6. QED BY <1>1, <1>2, <1>3, <1>4, <1>5 DEF IndexNext

LEMMA RefreshPositions ==
    ASSUME Positions, Refresh
    PROVE  Positions'
<1>1. /\ IndexOK' /\ db \in Nat /\ db' \in Nat /\ db <= db'
      /\ healthCache' \in {healthCache, Nil} /\ vectorCache' \in {vectorCache, Nil}
      /\ ~up' => healthCache' = Nil
  BY IndexForward DEF Positions, Refresh, IndexOK, HealthOK
<1>2. CASE up' /\ UNCHANGED readerVars
  <2>1. UNCHANGED <<pc, req, hits, key, matrix, stamp, seen, response>>
    BY <1>2 DEF readerVars
  <2>2. RequestsOK'
    BY <1>1, <2>1 DEF Positions, RequestsOK, Request
  <2>3. VectorsOK'
    BY <1>1, <2>1 DEF Positions, VectorsOK, RequestsOK, Request
  <2>4. HealthOK'
    BY <1>1, <1>2, <2>1 DEF Positions, HealthOK, IndexOK
  <2>5. QED BY <1>1, <2>2, <2>3, <2>4 DEF Positions
<1>3. CASE /\ pc' = Idle /\ req' = None /\ hits' = Empty /\ key' = None /\ matrix' = None
           /\ stamp' = None /\ seen' = None /\ response' = None
  BY <1>1, <1>3 DEF Positions, RequestsOK, VectorsOK, HealthOK, Idle,
                    None, Empty, Stages
<1>4. QED BY <1>2, <1>3 DEF Refresh

LEMMA NextPositions == Positions /\ [Next]_vars => Positions'
<1> SUFFICES ASSUME Positions, [Next]_vars PROVE Positions'
  OBVIOUS
<1> USE DEF Positions, IndexOK, RequestsOK, VectorsOK, HealthOK
<1>1. CASE Refresh
  BY <1>1, RefreshPositions
<1>2. CASE ExpireHealth
  BY <1>2 DEF ExpireHealth, readerVars, TrunkCommit, LedgerState, Request
<1>3. ASSUME NEW r \in Readers, Begin(r) PROVE Positions'
  <2>1. PICK q \in Queries : req' = [req EXCEPT ![r] = [query |-> q, today |-> day, since |-> db]]
    BY <1>3 DEF Begin
  <2>2. [query |-> q, today |-> day, since |-> db] \in Request
    BY DEF Request
  <2>3. matrix[r] = Nil
    BY <1>3 DEF Begin
  <2>4. QED BY <1>3, <2>1, <2>2, <2>3 DEF Begin, Goto, Stages, indexVars, TrunkCommit, LedgerState, Request
<1>4. ASSUME NEW r \in Readers, Match(r) \/ Dense(r) PROVE Positions'
  <2>1. CASE Match(r)
    BY <2>1 DEF Match, Goto, Stages, indexVars, TrunkCommit, LedgerState, Request
  <2>2. CASE Dense(r)
    BY <2>2 DEF Dense, Goto, Stages, indexVars, TrunkCommit, LedgerState, Request
  <2>3. QED BY <1>4, <2>1, <2>2
<1>5. ASSUME NEW r \in Readers, VectorsCached(r) \/ VectorsMissing(r) \/ LoadVectors(r) \/ StoreVectors(r) PROVE Positions'
  <2>1. CASE VectorsCached(r)
    BY <2>1 DEF VectorsCached, VectorEntry, Filed, Goto, Stages, indexVars, TrunkCommit, LedgerState, Request
  <2>2. CASE VectorsMissing(r)
    BY <2>2 DEF VectorsMissing, VectorEntry, Filed, Goto, Stages, indexVars, TrunkCommit, LedgerState, Request
  <2>3. CASE LoadVectors(r)
    BY <2>3 DEF LoadVectors, VectorEntry, Filed, Goto, Stages, indexVars, TrunkCommit, LedgerState, Request
  <2>4. CASE StoreVectors(r)
    BY <2>4 DEF StoreVectors, VectorEntry, Filed, Goto, Stages, indexVars, TrunkCommit, LedgerState, Request
  <2>5. QED BY <1>5, <2>1, <2>2, <2>3, <2>4
<1>6. ASSUME NEW r \in Readers, Rank(r) PROVE Positions'
  <2>1. CASE Rank(r)
    BY <2>1 DEF Rank, Goto, Stages, indexVars, TrunkCommit, LedgerState, Request
  <2>2. QED BY <1>6, <2>1
<1>7. ASSUME NEW r \in Readers, HealthCached(r) \/ HealthMissing(r) \/ ReadHealth(r) \/ CacheHealth(r) PROVE Positions'
  <2>1. CASE HealthCached(r)
    BY <2>1 DEF HealthCached, HealthEntry, Goto, Stages, indexVars, TrunkCommit, LedgerState, Request
  <2>2. CASE HealthMissing(r)
    BY <2>2 DEF HealthMissing, HealthEntry, Goto, Stages, indexVars, TrunkCommit, LedgerState, Request
  <2>3. CASE ReadHealth(r)
    BY <2>3 DEF ReadHealth, HealthEntry, Goto, Stages, indexVars, TrunkCommit, LedgerState, Request
  <2>4. CASE CacheHealth(r)
    BY <2>4 DEF CacheHealth, HealthEntry, Goto, Stages, indexVars, TrunkCommit, LedgerState, Request
  <2>5. QED BY <1>7, <2>1, <2>2, <2>3, <2>4
<1>8. ASSUME NEW r \in Readers, Respond(r) \/ Return(r) PROVE Positions'
  <2>1. CASE Respond(r)
    BY <2>1 DEF Respond, Goto, Stages, indexVars, TrunkCommit, LedgerState, Request
  <2>2. CASE Return(r)
    BY <2>2 DEF Return, Goto, Stages, indexVars, TrunkCommit, LedgerState, Request
  <2>3. QED BY <1>8, <2>1, <2>2
<1>9. CASE UNCHANGED vars
  BY <1>9 DEF vars, indexVars, readerVars, TrunkCommit, LedgerState, Request
<1>10. QED BY <1>1, <1>2, <1>3, <1>4, <1>5, <1>6, <1>7, <1>8, <1>9 DEF Next

LEMMA InitPositions == SearchInit => Positions
<1> SUFFICES ASSUME SearchInit PROVE Positions
  OBVIOUS
<1>1. PICK c \in Corpora : trunk = <<[files |-> c, ledger |-> Nil]>>
  BY DEF SearchInit, Init
<1>2. trunk \in Seq(TrunkCommit) /\ Len(trunk) = 1
  BY <1>1 DEF TrunkCommit
<1>3. IndexOK
  BY <1>2 DEF SearchInit, Init, IndexOK
<1>4. QED
  BY <1>3 DEF SearchInit, Init, Positions, RequestsOK, VectorsOK, HealthOK,
              Idle, None, Empty, Stages

LEMMA PositionsHold == Spec => []Positions
BY InitPositions, NextPositions, PTL DEF Spec

\* No request ranks with vectors older than the build it began with, whoever filled
\* the cache and however the builds were swapped meanwhile.
THEOREM VectorsCurrent == Spec => []RanksWithCurrentVectors
<1>1. Positions => RanksWithCurrentVectors
  BY DEF Positions, VectorsOK, RanksWithCurrentVectors
<1>2. QED BY <1>1, PositionsHold, PTL

\* No step of the pull loop leaves a snapshot of a build that is gone behind: a
\* rebuild ends with the cache empty.
LEMMA RefreshLeavesNothing ==
    ASSUME Positions, Refresh, SnapshotBehind'
    PROVE  SnapshotBehind /\ UNCHANGED healthCache
<1>1. healthCache' # Nil /\ healthCache'.commit # db' /\ rpc' # "publish"
  BY DEF SnapshotBehind
<1>2. CASE PushTrunk \/ NextDay \/ FastForward \/ NoChange \/ FastForwardCutOff \/ BuildFails
  <2>1. UNCHANGED <<healthCache, db>> /\ rpc # "publish"
    BY <1>1, <1>2 DEF PushTrunk, NextDay, FastForward, NoChange, FastForwardCutOff, BuildFails, cacheVars
  <2>2. QED BY <1>1, <2>1 DEF SnapshotBehind
<1>3. CASE Swap \/ Publish \/ Crash
  BY <1>1, <1>3 DEF Swap, Publish, Crash
<1>4. CASE Restart
  BY <1>1, <1>4 DEF Restart, cacheVars, Positions, HealthOK
<1>5. QED BY <1>2, <1>3, <1>4 DEF Refresh, IndexNext

\* What health reports was true within the last TTL, whoever cached it; and a rebuild
\* is seen at once, but for a request that missed the cache before the swap.
THEOREM HealthCurrent == Spec => HealthSnapshotCurrent
<1> DEFINE Step ==
        /\ healthCache' # Nil => healthCache'.at <= healthCache'.commit
        /\ SnapshotBehind' =>
             \/ SnapshotBehind /\ UNCHANGED healthCache
             \/ \E r \in Readers : pc[r] = "cache" /\ pc'[r] # "cache" /\ stamp[r] < db
<1>1. Positions /\ Positions' /\ [Next]_vars => [Step]_vars
  <2> SUFFICES ASSUME Positions, Positions', Next PROVE Step
    OBVIOUS
  <2>1. healthCache' # Nil => healthCache'.at <= healthCache'.commit
    BY DEF Positions, HealthOK
  <2>2. ASSUME SnapshotBehind'
        PROVE  \/ SnapshotBehind /\ UNCHANGED healthCache
               \/ \E r \in Readers : pc[r] = "cache" /\ pc'[r] # "cache" /\ stamp[r] < db
    <3>1. CASE Refresh
      BY <2>2, <3>1, RefreshLeavesNothing
    <3>2. CASE ExpireHealth
      BY <2>2, <3>2 DEF ExpireHealth, SnapshotBehind
    <3>3. ASSUME NEW r \in Readers, CacheHealth(r)
          PROVE  pc[r] = "cache" /\ pc'[r] # "cache" /\ stamp[r] < db
      <4>1. /\ pc[r] = "cache" /\ pc' = [pc EXCEPT ![r] = "flags"] /\ db' = db
            /\ healthCache' = [at |-> stamp[r], commit |-> seen[r]]
        BY <3>3 DEF CacheHealth, HealthEntry, Goto
      <4>2. seen[r] # db
        BY <2>2, <4>1 DEF SnapshotBehind
      <4>3. stamp[r] \in Nat /\ seen[r] \in Nat /\ stamp[r] <= seen[r] /\ seen[r] <= db /\ db \in Nat
        BY <4>1 DEF Positions, HealthOK, IndexOK
      <4>4. pc'[r] # "cache"
        BY <4>1 DEF Positions, RequestsOK
      <4>5. QED BY <4>1, <4>2, <4>3, <4>4
    <3>4. ASSUME NEW r \in Readers,
                 \/ Begin(r) \/ Match(r) \/ VectorsCached(r) \/ VectorsMissing(r) \/ LoadVectors(r)
                 \/ StoreVectors(r) \/ Dense(r) \/ Rank(r) \/ HealthCached(r) \/ HealthMissing(r)
                 \/ ReadHealth(r) \/ Respond(r) \/ Return(r)
          PROVE  SnapshotBehind /\ UNCHANGED healthCache
      <4>1. UNCHANGED <<healthCache, db, rpc>>
        BY <3>4 DEF Begin, Match, VectorsCached, VectorsMissing, LoadVectors, StoreVectors, Dense, Rank,
                    HealthCached, HealthMissing, ReadHealth, Respond, Return, indexVars
      <4>2. QED BY <2>2, <4>1 DEF SnapshotBehind
    <3>5. QED BY <3>1, <3>2, <3>3, <3>4 DEF Next
  <2>3. QED BY <2>1, <2>2
<1>2. QED BY <1>1, PositionsHold, PTL DEF Spec, HealthSnapshotCurrent

----------------------------------------------------------------------------
(* The documents of a build.                                                  *)

LEMMA BuildTyped ==
    ASSUME IndexOK, NEW b \in 1..Len(trunk)
    PROVE  /\ Corpus(b) \in Corpora /\ IsFiniteSet(IdsOf(b)) /\ IdsOf(b) \subseteq Ids
           /\ \A i \in IdsOf(b) :
                /\ {Doc(b, i).from, Doc(b, i).until} \subseteq Nat \cup {Nil}
                /\ {Doc(b, i).recheck, Doc(b, i).verified} \subseteq Nat \cup {Nil}
<1>1. Corpus(b) \in Corpora
  <2>1. trunk[b] \in TrunkCommit
    BY DEF IndexOK
  <2>2. QED BY <2>1 DEF Corpus, TrunkCommit
<1>2. /\ DOMAIN Corpus(b) \subseteq Paths /\ IsFiniteSet(DOMAIN Corpus(b))
      /\ \A p \in DOMAIN Corpus(b) : Corpus(b)[p].id \in Ids
  <2>1. DOMAIN Corpus(b) \subseteq Paths /\ \A p \in DOMAIN Corpus(b) : Corpus(b)[p].id \in Ids
    BY <1>1, CorporaAssumption
  <2>2. QED BY <2>1, CorporaAssumption, FS_Subset
<1>3. IsFiniteSet(IdsOf(b))
  <2> DEFINE f == [p \in DOMAIN Corpus(b) |-> Corpus(b)[p].id]
  <2>1. f \in Surjection(DOMAIN Corpus(b), IdsOf(b))
    BY DEF Surjection, IdsOf
  <2>2. QED BY <1>2, <2>1, FS_Surjection
<1>4. ASSUME NEW i \in IdsOf(b)
      PROVE  \E p \in DOMAIN Corpus(b) : Doc(b, i) = Corpus(b)[p]
  BY DEF IdsOf, Doc
<1>5. QED BY <1>1, <1>2, <1>3, <1>4, CorporaAssumption, SearchAssumption DEF IdsOf

\* What a query asks of a document.
Asked(b, q, today, i) ==
    /\ q.in_force => Governs(b, i, today)
    /\ q.include_expired \/ ~is_expired(Doc(b, i), today)

\* The filter in SQL lets through what the predicate in Python says.
LEMMA EligibleAsked ==
    ASSUME IndexOK, NEW b \in 1..Len(trunk), NEW q, NEW today \in Nat
    PROVE  Eligible(b, q, today) = {i \in IdsOf(b) : Asked(b, q, today, i)}
<1> SUFFICES ASSUME NEW i \in IdsOf(b)
             PROVE  i \in Eligible(b, q, today) <=> Asked(b, q, today, i)
  BY DEF Eligible
<1> DEFINE d == Doc(b, i)
<1>1. {d.from, d.until} \subseteq Nat \cup {Nil}
  BY BuildTyped
<1> HIDE DEF d
<1>2. not_expired_sql_fragment(d, today) <=> ~is_expired(d, today)
  BY <1>1 DEF not_expired_sql_fragment, is_expired
<1>3. in_force_sql_fragment(d, today) <=> ~is_expired(d, today) /\ ~is_upcoming(d, today)
  BY <1>1 DEF in_force_sql_fragment, is_expired, is_upcoming
<1>4. Asked(b, q, today, i) <=>
        /\ q.in_force => is_in_force(d, today) /\ i \notin graph_excluded_ids(b, today)
        /\ q.include_expired \/ ~is_expired(d, today)
  BY DEF Asked, Governs, d
<1>5. i \in Eligible(b, q, today) <=>
        /\ q.in_force => /\ IndexedStatus(d) \in IN_FORCE_STATUSES
                         /\ in_force_sql_fragment(d, today)
                         /\ not_inbox_sql_fragment(d)
                         /\ i \notin graph_excluded_ids(b, today)
        /\ q.include_expired \/ not_expired_sql_fragment(d, today)
  BY DEF Eligible, d
<1>6. QED BY <1>2, <1>3, <1>4, <1>5 DEF is_in_force, not_inbox_sql_fragment

\* The two cues of kb_get are one relation seen from both ends.
LEMMA CuesAgree ==
    ASSUME NEW b, NEW today, NEW i \in IdsOf(b), NEW j \in IdsOf(b)
    PROVE  j \in derived_from_retired(b, i, today) <=> i \in dependents_to_review(b, j, today)
<1> DEFINE edge == <<i, j>>
<1>1. j \in derived_from_retired(b, i, today) <=>
        Governs(b, i, today) /\ j \in Doc(b, i).derived_from /\ is_retired(b, j, today)
  BY DEF derived_from_retired, lifecycle_states
<1>2. (\E e \in Edges(b, "derived_from") : e[2] = j /\ e[1] = i) <=> j \in Doc(b, i).derived_from
  <2>1. Doc(b, i)["derived_from"] = Doc(b, i).derived_from
    OBVIOUS
  <2>2. ASSUME j \in Doc(b, i).derived_from
        PROVE  \E e \in Edges(b, "derived_from") : e[2] = j /\ e[1] = i
    <3>1. edge \in IdsOf(b) \X IdsOf(b) /\ edge[1] = i /\ edge[2] = j
      OBVIOUS
    <3> HIDE DEF edge
    <3>2. QED BY <2>2, <3>1 DEF Edges
  <2>3. QED BY <2>2 DEF Edges
<1>3. i \in dependents_to_review(b, j, today) <=>
        /\ is_retired(b, j, today) /\ Governs(b, i, today)
        /\ \E e \in Edges(b, "derived_from") : e[2] = j /\ e[1] = i
  BY DEF dependents_to_review, lifecycle_states
<1>4. QED BY <1>1, <1>2, <1>3

----------------------------------------------------------------------------
(* The first so many of a finite set, by a number each member has.            *)

\* Induction over the naturals, for a set.
LEMMA SetInduction ==
    ASSUME NEW S, 0 \in S, \A n \in Nat : n \in S => n + 1 \in S
    PROVE  Nat \subseteq S
<1> DEFINE T == Nat \ S
           R == {ss \in Nat \X Nat : ss[1] < ss[2]}
<1>1. SUFFICES ASSUME T # {} PROVE FALSE
  OBVIOUS
<1>2. IsWellFoundedOn(R, Nat)
  BY NatLessThanWellFounded DEF OpToRel
<1>3. PICK x \in T : \A y \in T : ~(<<y, x>> \in R)
  <2> HIDE DEF R
  <2>1. QED BY <1>1, <1>2, WFMin
<1>4. x - 1 \in Nat /\ x - 1 < x /\ (x - 1) + 1 = x
  OBVIOUS
<1>5. x - 1 \notin T
  BY <1>3, <1>4
<1>6. QED BY <1>4, <1>5

LEMMA LargestExists ==
    ASSUME NEW S, IsFiniteSet(S), NEW f \in [S -> Nat], S # {}
    PROVE  \E x \in S : \A y \in S : f[y] <= f[x]
<1> DEFINE N == {n \in Nat : \A R \in SUBSET S : R # {} /\ Cardinality(R) = n =>
                     \E x \in R : \A y \in R : f[y] <= f[x]}
<1>1. 0 \in N
  <2>1. ASSUME NEW R \in SUBSET S, Cardinality(R) = 0 PROVE R = {}
    BY <2>1, FS_Subset, FS_EmptySet
  <2>2. QED BY <2>1
<1>2. ASSUME NEW n \in Nat, n \in N PROVE n + 1 \in N
  <2> SUFFICES ASSUME NEW R \in SUBSET S, R # {}, Cardinality(R) = n + 1
               PROVE  \E x \in R : \A y \in R : f[y] <= f[x]
    OBVIOUS
  <2>1. PICK z \in R : TRUE
    OBVIOUS
  <2>2. R \ {z} \in SUBSET S /\ Cardinality(R \ {z}) = n
    <3>1. IsFiniteSet(R)
      BY FS_Subset
    <3>2. Cardinality(R \ {z}) = Cardinality(R) - 1
      BY <3>1, FS_RemoveElement
    <3>3. QED BY <3>2
  <2>3. CASE R \ {z} = {}
    BY <2>3
  <2>4. CASE R \ {z} # {}
    <3>1. PICK x \in R \ {z} : \A y \in R \ {z} : f[y] <= f[x]
      BY <1>2, <2>2, <2>4
    <3>2. f[x] \in Nat /\ f[z] \in Nat /\ \A y \in R : f[y] \in Nat
      OBVIOUS
    <3>3. CASE f[z] <= f[x]
      BY <3>1, <3>3
    <3>4. CASE f[x] <= f[z]
      <4>1. \A y \in R : f[y] <= f[z]
        BY <3>1, <3>2, <3>4
      <4>2. QED BY <4>1
    <3>5. QED BY <3>2, <3>3, <3>4
  <2>5. QED BY <2>3, <2>4
<1>3. Nat \subseteq N
  <2> HIDE DEF N
  <2>1. QED BY <1>1, <1>2, SetInduction
<1>4. Cardinality(S) \in N
  BY <1>3, FS_CardinalityType
<1>5. QED BY <1>4

LEMMA FirstExist ==
    ASSUME NEW S, IsFiniteSet(S), NEW f \in [S -> Nat], NEW k \in Nat, k <= Cardinality(S)
    PROVE  \E s \in SUBSET S : Cardinality(s) = k /\ \A x \in s, y \in S \ s : f[x] >= f[y]
<1> DEFINE N == {n \in Nat : n <= Cardinality(S) =>
                     \E s \in SUBSET S :
                        Cardinality(s) = n /\ \A x \in s, y \in S \ s : f[x] >= f[y]}
<1>1. 0 \in N
  <2>1. {} \in SUBSET S /\ Cardinality({}) = 0
    BY FS_EmptySet
  <2>2. QED BY <2>1
<1>2. ASSUME NEW n \in Nat, n \in N PROVE n + 1 \in N
  <2> SUFFICES ASSUME n + 1 <= Cardinality(S)
               PROVE  \E s \in SUBSET S :
                        Cardinality(s) = n + 1 /\ \A x \in s, y \in S \ s : f[x] >= f[y]
    OBVIOUS
  <2>1. Cardinality(S) \in Nat
    BY FS_CardinalityType
  <2>2. PICK s \in SUBSET S : Cardinality(s) = n /\ \A x \in s, y \in S \ s : f[x] >= f[y]
    BY <1>2, <2>1
  <2>3. IsFiniteSet(s) /\ IsFiniteSet(S \ s)
    BY FS_Subset
  <2>4. S \ s # {}
    BY <2>1, <2>2
  <2> DEFINE g == [y \in S \ s |-> f[y]]
  <2>5. g \in [S \ s -> Nat]
    OBVIOUS
  <2>6. PICK z \in S \ s : \A y \in S \ s : g[y] <= g[z]
    <3> HIDE DEF g
    <3>1. QED BY <2>3, <2>4, <2>5, LargestExists
  <2>7. Cardinality(s \cup {z}) = n + 1
    BY <2>2, <2>3, FS_AddElement
  <2>8. ASSUME NEW x \in s \cup {z}, NEW y \in S \ (s \cup {z}) PROVE f[x] >= f[y]
    BY <2>2, <2>6
  <2>9. QED BY <2>7, <2>8
<1>3. Nat \subseteq N
  <2> HIDE DEF N
  <2>1. QED BY <1>1, <1>2, SetInduction
<1>4. QED BY <1>3

\* The most overdue are a list that kb_curate may return.
LEMMA CurateReturns ==
    ASSUME IndexOK, NEW b \in 1..Len(trunk), NEW today \in Nat
    PROVE  LET due == {i \in curate_candidates(b, today) : compute_freshness(Doc(b, i), today) = "stale"}
           IN  /\ kb_curate_fn(b, today) # {}
               /\ \A listed \in kb_curate_fn(b, today) :
                    listed \subseteq due /\ (listed = due \/ Cardinality(listed) = Limit)
<1> DEFINE due == {i \in curate_candidates(b, today) : compute_freshness(Doc(b, i), today) = "stale"}
           n == Most(Cardinality(due), Limit)
           f == [i \in due |-> _overdue_days(Doc(b, i), today)]
<1>1. due \subseteq IdsOf(b) /\ IsFiniteSet(due) /\ Cardinality(due) \in Nat /\ Limit \in Nat
  <2>1. due \subseteq IdsOf(b)
    BY DEF curate_candidates, Eligible
  <2>2. IsFiniteSet(due)
    BY <2>1, BuildTyped, FS_Subset
  <2>3. QED BY <2>1, <2>2, FS_CardinalityType, SearchAssumption
<1>2. n \in Nat /\ n <= Cardinality(due) /\ (n = Cardinality(due) \/ n = Limit)
  BY <1>1 DEF Most
<1>3. f \in [due -> Nat]
  <2> SUFFICES ASSUME NEW i \in due PROVE _overdue_days(Doc(b, i), today) \in Nat
    OBVIOUS
  <2> DEFINE d == Doc(b, i)
  <2>1. {d.recheck, d.verified} \subseteq Nat \cup {Nil}
    BY <1>1, BuildTyped
  <2>2. compute_freshness(d, today) = "stale"
    OBVIOUS
  <2> HIDE DEF d
  <2>3. \/ d.recheck # Nil /\ d.recheck < today
        \/ d.recheck = Nil /\ (d.verified = Nil \/ today - d.verified > ReviewAfter)
    BY <2>2 DEF compute_freshness
  <2>4. MaxDay \in Nat /\ ReviewAfter \in Nat
    BY IndexAssumption, SearchAssumption
  <2>5. QED BY <2>1, <2>3, <2>4 DEF _overdue_days, d
<1>4. kb_curate_fn(b, today) =
        {s \in SUBSET due : Cardinality(s) = n /\ \A x \in s, y \in due \ s : f[x] >= f[y]}
  BY DEF kb_curate_fn
<1> HIDE DEF f, n, due
<1>5. PICK s \in SUBSET due : Cardinality(s) = n /\ \A x \in s, y \in due \ s : f[x] >= f[y]
  BY <1>1, <1>2, <1>3, FirstExist
<1>6. ASSUME NEW listed \in SUBSET due, Cardinality(listed) = Cardinality(due) PROVE listed = due
  BY <1>1, <1>6, FS_Subset
<1>7. QED BY <1>2, <1>4, <1>5, <1>6 DEF due

LEMMA CuesOfBuild == IndexOK => ReviewCuesAgree
<1> SUFFICES ASSUME IndexOK PROVE ReviewCuesAgree
  OBVIOUS
<1> DEFINE answers == {[id |-> i, is |-> kb_get_fn(db, i, day)] : i \in IdsOf(db)}
           candidates == curate_candidates(db, day)
           stale == {x.id : x \in {y \in answers : y.is.in_force /\ y.is.freshness = "stale"}}
           due == {i \in candidates : compute_freshness(Doc(db, i), day) = "stale"}
<1>1. db \in 1..Len(trunk) /\ day \in Nat
  BY DEF IndexOK
<1>2. candidates = {i \in IdsOf(db) : Governs(db, i, day)}
  <2> DEFINE q == [in_force |-> TRUE, include_expired |-> FALSE]
  <2>1. Eligible(db, q, day) = {i \in IdsOf(db) : Asked(db, q, day, i)}
    <3> HIDE DEF q
    <3>1. QED BY <1>1, EligibleAsked
  <2>2. ASSUME NEW i \in IdsOf(db)
        PROVE  Asked(db, q, day, i) <=> Governs(db, i, day)
    BY DEF Asked, Governs, is_in_force
  <2>3. QED BY <2>1, <2>2 DEF curate_candidates
<1>3. ASSUME NEW i \in IdsOf(db)
      PROVE  LET g == kb_get_fn(db, i, day) IN
             /\ g.in_force = Governs(db, i, day)
             /\ g.freshness = compute_freshness(Doc(db, i), day)
             /\ g.derived_from_retired = derived_from_retired(db, i, day)
             /\ g.dependents_to_review = dependents_to_review(db, i, day)
  BY DEF kb_get_fn
<1>4. ASSUME NEW x \in answers
      PROVE  /\ x.is.in_force <=> x.id \in candidates
             /\ \A y \in answers : y.id \in x.is.derived_from_retired
                                      <=> x.id \in y.is.dependents_to_review
  <2>1. PICK i \in IdsOf(db) : x = [id |-> i, is |-> kb_get_fn(db, i, day)]
    OBVIOUS
  <2> HIDE DEF candidates
  <2>2. x.is.in_force <=> x.id \in candidates
    BY <1>2, <1>3, <2>1
  <2>3. ASSUME NEW y \in answers
        PROVE  y.id \in x.is.derived_from_retired <=> x.id \in y.is.dependents_to_review
    <3>1. PICK j \in IdsOf(db) : y = [id |-> j, is |-> kb_get_fn(db, j, day)]
      OBVIOUS
    <3>2. QED BY <1>3, <2>1, <3>1, CuesAgree
  <2>4. QED BY <2>2, <2>3
<1>5. stale = due
  <2> HIDE DEF candidates
  <2>1. ASSUME NEW i PROVE i \in stale <=> i \in due
    <3>1. i \in stale <=> /\ i \in IdsOf(db)
                          /\ kb_get_fn(db, i, day).in_force
                          /\ kb_get_fn(db, i, day).freshness = "stale"
      <4>1. ASSUME i \in stale
            PROVE  /\ i \in IdsOf(db)
                   /\ kb_get_fn(db, i, day).in_force
                   /\ kb_get_fn(db, i, day).freshness = "stale"
        BY <4>1
      <4>2. ASSUME i \in IdsOf(db), kb_get_fn(db, i, day).in_force,
                   kb_get_fn(db, i, day).freshness = "stale"
            PROVE  i \in stale
        <5> DEFINE x == [id |-> i, is |-> kb_get_fn(db, i, day)]
        <5>1. x \in answers /\ x.id = i /\ x.is = kb_get_fn(db, i, day)
          BY <4>2
        <5> HIDE DEF x
        <5>2. QED BY <4>2, <5>1
      <4>3. QED BY <4>1, <4>2
    <3>2. QED BY <1>2, <1>3, <3>1
  <2>2. QED BY <2>1
<1>6. /\ kb_curate_fn(db, day) # {}
      /\ \A listed \in kb_curate_fn(db, day) :
            listed \subseteq stale /\ (listed = stale \/ Cardinality(listed) = Limit)
  BY <1>1, <1>5, CurateReturns
<1>7. QED BY <1>4, <1>6 DEF ReviewCuesAgree

\* The two cues of kb_get agree, what it calls in force is what a search lets
\* through, and kb_curate lists what it calls stale, of any corpus on any day.
THEOREM CuesHold == Spec => []ReviewCuesAgree
<1>1. Positions => ReviewCuesAgree
  BY CuesOfBuild DEF Positions
<1>2. QED BY <1>1, PositionsHold, PTL

----------------------------------------------------------------------------
(* The pool of a request and its answer. E is what the query q lets through of *)
(* the build b.                                                                *)

Row(E, b, q, h) ==
    /\ h \in [id : Ids, class : {PRIMARY, BACKFILL}, via : {"row"}, of : {b}]
    /\ h.id \in E
    /\ h.class = PRIMARY => h.id \in q.primary \cup q.dense

IdsApart(pool) == \A g, h \in pool : g.id = h.id => g = h

\* As many matches as a pass may return are in the pool, before any backfill.
PoolOK(E, b, q, pool) ==
    /\ IsFiniteSet(pool) /\ IdsApart(pool)
    /\ \A h \in pool : Row(E, b, q, h)
    /\ \E m \in SUBSET (q.primary \cap E) :
        /\ Cardinality(m) = Most(Cardinality(q.primary \cap E), CandidateLimit)
        /\ \A i \in m : \E h \in pool : h.id = i /\ h.class = PRIMARY

AnswerOK(E, b, q, pool) ==
    LET first == q.primary \cap E IN
    /\ IsFiniteSet(pool) /\ IdsApart(pool)
    /\ Most(Cardinality(first), Most(Limit, CandidateLimit)) <= Cardinality(pool)
    /\ Cardinality(pool) <= Limit
    /\ \A h \in pool : h.id \in Ids /\ (h.via = "row" => h.id \in E /\ h.of = b)
    /\ (\E h \in pool : h.via = "row" /\ h.id \notin q.primary \cup q.dense \cup q.tagged \cup {q.exact})
           /\ Cardinality(first) <= CandidateLimit => first \subseteq IdsIn(pool)

LEMMA RowsFinite ==
    ASSUME NEW b, NEW s, IsFiniteSet(s), NEW class
    PROVE  IsFiniteSet(Rows(b, s, class)) /\ IdsIn(Rows(b, s, class)) = s /\ IdsApart(Rows(b, s, class))
<1> DEFINE f == [i \in s |-> [id |-> i, class |-> class, via |-> "row", of |-> b]]
<1>1. f \in Surjection(s, Rows(b, s, class))
  BY DEF Surjection, Rows
<1>2. IsFiniteSet(Rows(b, s, class))
  BY <1>1, FS_Surjection
<1>3. IdsIn(Rows(b, s, class)) = s /\ IdsApart(Rows(b, s, class))
  <2>1. ASSUME NEW i \in s PROVE \E h \in Rows(b, s, class) : h.id = i
    <3> DEFINE h == [id |-> i, class |-> class, via |-> "row", of |-> b]
    <3>1. h \in Rows(b, s, class) /\ h.id = i
      BY DEF Rows
    <3> HIDE DEF h
    <3>2. QED BY <3>1
  <2>2. \A h \in Rows(b, s, class) :
            h.id \in s /\ h = [id |-> h.id, class |-> class, via |-> "row", of |-> b]
    BY DEF Rows
  <2>3. QED BY <2>1, <2>2 DEF IdsIn, IdsApart
<1>4. QED BY <1>2, <1>3

\* The ids of a pool are as many as its hits at most.
LEMMA IdsInFinite ==
    ASSUME NEW pool, IsFiniteSet(pool)
    PROVE  /\ IsFiniteSet(IdsIn(pool)) /\ Cardinality(IdsIn(pool)) <= Cardinality(pool)
           /\ Cardinality(pool) \in Nat /\ Cardinality(IdsIn(pool)) \in Nat
<1> DEFINE f == [h \in pool |-> h.id]
<1>1. f \in Surjection(pool, IdsIn(pool))
  BY DEF Surjection, IdsIn
<1>2. QED BY <1>1, FS_Surjection, FS_CardinalityType

LEMMA MostIs ==
    ASSUME NEW n \in Nat, NEW limit \in Nat
    PROVE  /\ Most(n, limit) \in Nat /\ Most(n, limit) <= n /\ Most(n, limit) <= limit
           /\ Most(n, limit) = n \/ Most(n, limit) = limit
BY DEF Most

\* A pass of matches in E, in the pool of its own or behind another.
LEMMA PassFine ==
    ASSUME NEW E \in SUBSET Ids, IsFiniteSet(E), NEW b, NEW q, NEW matching \in SUBSET E,
           NEW limit \in Nat, NEW class \in {PRIMARY, BACKFILL},
           class = PRIMARY => matching \subseteq q.primary \cup q.dense,
           NEW x \in Pass(b, matching, limit, class)
    PROVE  /\ IsFiniteSet(x) /\ IdsApart(x) /\ \A h \in x : Row(E, b, q, h) /\ h.class = class
           /\ IdsIn(x) \in SUBSET matching
           /\ Cardinality(IdsIn(x)) = Most(Cardinality(matching), limit)
<1>1. PICK s \in SUBSET matching : /\ Cardinality(s) = Most(Cardinality(matching), limit)
                                   /\ x = Rows(b, s, class)
  BY DEF Pass
<1>2. IsFiniteSet(s)
  BY FS_Subset
<1>3. IsFiniteSet(x) /\ IdsApart(x) /\ IdsIn(x) = s
  BY <1>1, <1>2, RowsFinite
<1>4. ASSUME NEW h \in x PROVE Row(E, b, q, h) /\ h.class = class
  <2>1. PICK i \in s : h = [id |-> i, class |-> class, via |-> "row", of |-> b]
    BY <1>1 DEF Rows
  <2>2. QED BY <2>1 DEF Row
<1>5. QED BY <1>1, <1>3, <1>4

LEMMA BackfillFine ==
    ASSUME NEW E, NEW b, NEW q, NEW pool, PoolOK(E, b, q, pool),
           NEW x, IsFiniteSet(x), IdsApart(x), \A h \in x : Row(E, b, q, h)
    PROVE  PoolOK(E, b, q, Backfill(pool, x))
<1> DEFINE new == {h \in x : h.id \notin IdsIn(pool)}
<1>1. Backfill(pool, x) = pool \cup new
  BY DEF Backfill
<1>2. IsFiniteSet(pool \cup new)
  BY FS_Subset, FS_Union DEF PoolOK
<1>3. IdsApart(pool \cup new)
  BY DEF PoolOK, IdsApart, IdsIn
<1>4. PICK m \in SUBSET (q.primary \cap E) :
        /\ Cardinality(m) = Most(Cardinality(q.primary \cap E), CandidateLimit)
        /\ \A i \in m : \E h \in pool : h.id = i /\ h.class = PRIMARY
  BY DEF PoolOK
<1>5. QED BY <1>1, <1>2, <1>3, <1>4 DEF PoolOK

\* The three passes of the match.
LEMMA FtsPoolsFine ==
    ASSUME NEW b, NEW q, NEW today, Eligible(b, q, today) \in SUBSET Ids,
           IsFiniteSet(Eligible(b, q, today)), NEW pool \in FtsPools(b, q, today)
    PROVE  PoolOK(Eligible(b, q, today), b, q, pool)
<1> DEFINE E == Eligible(b, q, today)
<1>0. PICK x \in Pass(b, q.primary \cap E, CandidateLimit, PRIMARY) :
        \E p \in _expansion_backfill(b, q, today, x) : pool \in _trigram_backfill(b, q, today, p)
  BY DEF FtsPools
<1>1. PICK p \in _expansion_backfill(b, q, today, x) : pool \in _trigram_backfill(b, q, today, p)
  BY <1>0
<1>2. PICK e \in Pass(b, q.expansion \cap E, CandidateLimit, BACKFILL) : p = Backfill(x, e)
  BY <1>1 DEF _expansion_backfill
<1>3. E \in SUBSET Ids /\ IsFiniteSet(E) /\ CandidateLimit \in Nat
  BY SearchAssumption
<1> HIDE DEF E
<1>4. PoolOK(E, b, q, x)
  <2>1. /\ IsFiniteSet(x) /\ IdsApart(x) /\ \A h \in x : Row(E, b, q, h) /\ h.class = PRIMARY
        /\ IdsIn(x) \in SUBSET (q.primary \cap E)
        /\ Cardinality(IdsIn(x)) = Most(Cardinality(q.primary \cap E), CandidateLimit)
    <3> DEFINE matching == q.primary \cap E
    <3>1. matching \in SUBSET E /\ matching \subseteq q.primary \cup q.dense
          /\ x \in Pass(b, matching, CandidateLimit, PRIMARY)
      BY <1>0 DEF E
    <3> HIDE DEF matching
    <3>2. /\ IsFiniteSet(x) /\ IdsApart(x) /\ \A h \in x : Row(E, b, q, h) /\ h.class = PRIMARY
          /\ IdsIn(x) \in SUBSET matching
          /\ Cardinality(IdsIn(x)) = Most(Cardinality(matching), CandidateLimit)
      <4>1. IsFiniteSet(x) /\ IdsApart(x)
        BY <1>3, <3>1, PassFine
      <4>2. \A h \in x : Row(E, b, q, h)
        BY <1>3, <3>1, PassFine
      <4>3. \A h \in x : h.class = PRIMARY
        BY <3>1 DEF Pass, Rows
      <4>4. IdsIn(x) \in SUBSET matching
        BY <1>3, <3>1, PassFine
      <4>5. Cardinality(IdsIn(x)) = Most(Cardinality(matching), CandidateLimit)
        <5>1. PICK s \in SUBSET matching : /\ Cardinality(s) = Most(Cardinality(matching), CandidateLimit)
                                           /\ x = Rows(b, s, PRIMARY)
          BY <3>1 DEF Pass
        <5>2. IsFiniteSet(s)
          BY <1>3, <3>1, FS_Subset
        <5>3. IdsIn(x) = s
          BY <5>1, <5>2, RowsFinite
        <5>4. QED BY <5>1, <5>3
      <4>6. QED BY <4>1, <4>2, <4>3, <4>4, <4>5
    <3>3. QED BY <3>2 DEF matching
  <2>2. \A i \in IdsIn(x) : \E h \in x : h.id = i /\ h.class = PRIMARY
    BY <2>1 DEF IdsIn
  <2>3. QED BY <2>1, <2>2 DEF PoolOK
<1>5. PoolOK(E, b, q, p)
  <2>1. IsFiniteSet(e) /\ IdsApart(e) /\ \A h \in e : Row(E, b, q, h)
    BY <1>3, PassFine DEF PRIMARY, BACKFILL
  <2>2. QED BY <1>2, <1>4, <2>1, BackfillFine
<1>6. PoolOK(E, b, q, pool)
  <2>1. CASE pool = p
    BY <1>5, <2>1
  <2>2. CASE pool # p
    <3>1. PICK t \in Pass(b, q.trigram \cap E, CandidateLimit, BACKFILL) : pool = Backfill(p, t)
      BY <1>1, <2>2 DEF _trigram_backfill, E
    <3> DEFINE matching == q.trigram \cap E
    <3>2. matching \in SUBSET E /\ t \in Pass(b, matching, CandidateLimit, BACKFILL)
          /\ BACKFILL # PRIMARY
      BY <3>1 DEF PRIMARY, BACKFILL
    <3> HIDE DEF matching
    <3>3. IsFiniteSet(t) /\ IdsApart(t) /\ \A h \in t : Row(E, b, q, h)
      BY <1>3, <3>2, PassFine
    <3>4. QED BY <1>5, <3>1, <3>3, BackfillFine
  <2>3. QED BY <2>1, <2>2
<1>7. QED BY <1>6 DEF E

\* The semantic neighbours behind it.
LEMMA DensePoolsFine ==
    ASSUME NEW b, NEW m, NEW q, NEW today, Eligible(b, q, today) \in SUBSET Ids,
           IsFiniteSet(Eligible(b, q, today)), NEW pool, PoolOK(Eligible(b, q, today), b, q, pool),
           NEW new \in DensePools(b, m, q, today, pool)
    PROVE  PoolOK(Eligible(b, q, today), b, q, new)
<1> DEFINE E == Eligible(b, q, today)
<1>1. PICK x \in Pass(b, q.dense \cap E \cap IdsOf(m), DenseLimit, PRIMARY) : new = Backfill(pool, x)
  BY DEF DensePools
<1>2. E \in SUBSET Ids /\ IsFiniteSet(E) /\ DenseLimit \in Nat /\ PoolOK(E, b, q, pool)
  BY SearchAssumption
<1> HIDE DEF E
<1>3. IsFiniteSet(x) /\ IdsApart(x) /\ \A h \in x : Row(E, b, q, h)
  <2> DEFINE matching == q.dense \cap E \cap IdsOf(m)
  <2>1. matching \in SUBSET E /\ matching \subseteq q.primary \cup q.dense
        /\ x \in Pass(b, matching, DenseLimit, PRIMARY)
    BY <1>1
  <2> HIDE DEF matching
  <2>2. QED BY <1>2, <2>1, PassFine
<1>4. PoolOK(E, b, q, new)
  BY <1>1, <1>2, <1>3, BackfillFine
<1>5. QED BY <1>4 DEF E

\* The short-circuit: what is named goes first, and no hit is lost or doubled.
LEMMA ShortcutFine ==
    ASSUME NEW E, NEW b, IdsOf(b) \subseteq Ids, NEW q, NEW pool, PoolOK(E, b, q, pool)
    PROVE  LET p == Shortcut(b, q, pool) IN
           /\ IsFiniteSet(p) /\ IdsApart(p)
           /\ \A h \in p : /\ h.id \in Ids /\ h.class \in {NAMED, PRIMARY, BACKFILL}
                           /\ h.via = "row" =>
                                /\ h.id \in E /\ h.of = b
                                /\ h.class = PRIMARY => h.id \in q.primary \cup q.dense
                                /\ h.class = NAMED => h.id \in q.tagged \cup {q.exact}
           /\ \A g \in pool : \E h \in p : h.id = g.id /\ (h.class = g.class \/ h.class = NAMED)
<1> DEFINE named == IF q.exact \in IdsOf(b) THEN {q.exact} ELSE ids_with_exact_tag(b, q)
           found == {h \in pool : h.id \in named}
           lifted == {[h EXCEPT !.class = NAMED] : h \in found}
           extra == {[id |-> i, class |-> NAMED, via |-> "name", of |-> b] :
                        i \in ({q.exact} \cap IdsOf(b)) \ IdsIn(found)}
           p == (pool \ found) \cup lifted \cup extra
<1>1. Shortcut(b, q, pool) = p
  BY DEF Shortcut
<1>2. named \subseteq q.tagged \cup {q.exact} /\ (q.exact \in IdsOf(b) => named = {q.exact})
  BY DEF ids_with_exact_tag
<1> HIDE DEF named
<1>3. \A h \in pool : /\ h \in [id : Ids, class : {PRIMARY, BACKFILL}, via : {"row"}, of : {b}]
                      /\ h.id \in E
                      /\ h.class = PRIMARY => h.id \in q.primary \cup q.dense
  BY DEF PoolOK, Row
<1>4. \A h \in lifted : \E g \in found :
            h = [id |-> g.id, class |-> NAMED, via |-> "row", of |-> b]
  BY <1>3
<1>5. \A g \in found : [id |-> g.id, class |-> NAMED, via |-> "row", of |-> b] \in lifted
  BY <1>3
<1>6. IsFiniteSet(p)
  <2>1. IsFiniteSet(pool) /\ IsFiniteSet(found) /\ IsFiniteSet(pool \ found)
    BY FS_Subset DEF PoolOK
  <2> DEFINE f == [h \in found |-> [h EXCEPT !.class = NAMED]]
  <2>2. f \in Surjection(found, lifted)
    BY DEF Surjection
  <2>3. IsFiniteSet(lifted)
    BY <2>1, <2>2, FS_Surjection
  <2> DEFINE x == [id |-> q.exact, class |-> NAMED, via |-> "name", of |-> b]
  <2>4. extra \subseteq {x}
    OBVIOUS
  <2>5. IsFiniteSet({x})
    BY FS_Singleton
  <2>6. IsFiniteSet(extra)
    <3> HIDE DEF extra, x
    <3>1. QED BY <2>4, <2>5, FS_Subset
  <2>7. IsFiniteSet((pool \ found) \cup lifted)
    <3> HIDE DEF found, lifted
    <3>1. QED BY <2>1, <2>3, FS_Union
  <2>8. QED
    <3> HIDE DEF found, lifted, extra
    <3>1. QED BY <2>6, <2>7, FS_Union
<1>7. \A h \in extra : /\ h.id = q.exact /\ q.exact \in IdsOf(b) /\ h.class = NAMED /\ h.via = "name"
                       /\ h = [id |-> q.exact, class |-> NAMED, via |-> "name", of |-> b]
                       /\ \A g \in pool : g.id # q.exact
  <2> SUFFICES ASSUME NEW h \in extra
               PROVE  /\ h.id = q.exact /\ q.exact \in IdsOf(b) /\ h.class = NAMED /\ h.via = "name"
                      /\ h = [id |-> q.exact, class |-> NAMED, via |-> "name", of |-> b]
                      /\ \A g \in pool : g.id # q.exact
    OBVIOUS
  <2>1. q.exact \in IdsOf(b) /\ q.exact \notin IdsIn(found)
    OBVIOUS
  <2>2. \A g \in pool : g.id # q.exact
    BY <1>2, <2>1 DEF IdsIn
  <2>3. QED BY <2>1, <2>2
<1>8. ASSUME NEW h \in lifted
      PROVE  /\ h.id \in Ids /\ h.class = NAMED /\ h.via = "row" /\ h.id \in E /\ h.of = b
             /\ h.id \in named
  BY <1>3, <1>4
<1>9. IdsApart(p)
  <2> SUFFICES ASSUME NEW g \in p, NEW h \in p, g.id = h.id PROVE g = h
    BY DEF IdsApart
  <2>1. \A x, y \in pool : x.id = y.id => x = y
    BY DEF PoolOK, IdsApart
  <2>2. \A x \in lifted : \E y \in found :
            x.id = y.id /\ x = [id |-> y.id, class |-> NAMED, via |-> "row", of |-> b]
    BY <1>4
  <2>3. \A x \in pool \ found : x.id \notin named
    OBVIOUS
  <2> HIDE DEF lifted, extra
  <2>4. CASE g \in extra \/ h \in extra
    BY <1>7, <2>2, <2>4
  <2>5. CASE g \in lifted /\ h \in lifted
    BY <2>2, <2>5
  <2>6. CASE g \in pool \ found /\ h \in pool \ found
    BY <2>1, <2>6
  <2>7. CASE (g \in lifted /\ h \in pool \ found) \/ (g \in pool \ found /\ h \in lifted)
    BY <1>8, <2>3, <2>7
  <2>8. QED BY <2>4, <2>5, <2>6, <2>7
<1>10. ASSUME NEW h \in p
       PROVE  /\ h.id \in Ids /\ h.class \in {NAMED, PRIMARY, BACKFILL}
              /\ h.via = "row" =>
                    /\ h.id \in E /\ h.of = b
                    /\ h.class = PRIMARY => h.id \in q.primary \cup q.dense
                    /\ h.class = NAMED => h.id \in q.tagged \cup {q.exact}
  <2> HIDE DEF lifted, extra
  <2>1. CASE h \in pool \ found
    BY <1>3, <2>1 DEF NAMED, PRIMARY, BACKFILL
  <2>2. CASE h \in lifted
    BY <1>2, <1>8, <2>2 DEF NAMED, PRIMARY
  <2>3. CASE h \in extra
    BY <1>7, <2>3
  <2>4. QED BY <2>1, <2>2, <2>3
<1>11. ASSUME NEW g \in pool
       PROVE  \E h \in p : h.id = g.id /\ (h.class = g.class \/ h.class = NAMED)
  <2>1. CASE g \in found
    <3> DEFINE h == [id |-> g.id, class |-> NAMED, via |-> "row", of |-> b]
    <3>1. h \in p /\ h.id = g.id /\ h.class = NAMED
      BY <1>5, <2>1
    <3> HIDE DEF h, p
    <3>2. QED BY <3>1
  <2>2. CASE g \notin found
    BY <2>2
  <2>3. QED BY <2>1, <2>2
<1> HIDE DEF p
<1>12. QED BY <1>1, <1>6, <1>9, <1>10, <1>11

\* The answer cut from it.
LEMMA RankFine ==
    ASSUME NEW E, IsFiniteSet(E), NEW b, IdsOf(b) \subseteq Ids, NEW q, NEW pool,
           PoolOK(E, b, q, pool), NEW s \in Truncations(Shortcut(b, q, pool))
    PROVE  AnswerOK(E, b, q, s)
<1> DEFINE p == Shortcut(b, q, pool)
           first == q.primary \cap E
           n == Cardinality(first)
<1>1. /\ IsFiniteSet(p) /\ IdsApart(p)
      /\ \A h \in p : /\ h.id \in Ids /\ h.class \in {NAMED, PRIMARY, BACKFILL}
                      /\ h.via = "row" =>
                            /\ h.id \in E /\ h.of = b
                            /\ h.class = PRIMARY => h.id \in q.primary \cup q.dense
                            /\ h.class = NAMED => h.id \in q.tagged \cup {q.exact}
      /\ \A g \in pool : \E h \in p : h.id = g.id /\ (h.class = g.class \/ h.class = NAMED)
  BY ShortcutFine
<1>2. /\ s \in SUBSET p /\ Cardinality(s) = Most(Cardinality(p), Limit)
      /\ \A h \in s, g \in p \ s : h.class <= g.class
  BY DEF Truncations, NotAfter
<1> HIDE DEF p
<1>3. IsFiniteSet(s) /\ Cardinality(s) \in Nat /\ Cardinality(p) \in Nat
  BY <1>1, <1>2, FS_Subset, FS_CardinalityType
<1>4. IsFiniteSet(first) /\ n \in Nat
  BY FS_Subset, FS_CardinalityType
<1>5. PICK m \in SUBSET first :
        /\ Cardinality(m) = Most(n, CandidateLimit)
        /\ \A i \in m : \E h \in pool : h.id = i /\ h.class = PRIMARY
  BY DEF PoolOK
<1>6. \A i \in m : \E h \in p : h.id = i /\ h.class \in {NAMED, PRIMARY}
  BY <1>1, <1>5
<1>7. Limit \in Nat /\ CandidateLimit \in Nat
  BY SearchAssumption
<1>8. Most(n, CandidateLimit) <= Cardinality(p)
  <2>1. m \in SUBSET IdsIn(p)
    BY <1>6 DEF IdsIn
  <2>2. /\ IsFiniteSet(IdsIn(p)) /\ Cardinality(IdsIn(p)) <= Cardinality(p)
        /\ Cardinality(IdsIn(p)) \in Nat
    BY <1>1, IdsInFinite
  <2>3. Cardinality(m) <= Cardinality(IdsIn(p))
    BY <2>1, <2>2, FS_Subset
  <2>4. QED BY <1>3, <1>4, <1>5, <1>7, <2>2, <2>3 DEF Most
<1>9. Most(n, Most(Limit, CandidateLimit)) <= Cardinality(s) /\ Cardinality(s) <= Limit
  BY <1>2, <1>3, <1>4, <1>7, <1>8 DEF Most
<1>10. IdsApart(s)
  BY <1>1, <1>2 DEF IdsApart
<1>11. \A h \in s : h.id \in Ids /\ (h.via = "row" => h.id \in E /\ h.of = b)
  BY <1>1, <1>2
<1>12. ASSUME NEW h \in s, h.via = "row",
              h.id \notin q.primary \cup q.dense \cup q.tagged \cup {q.exact}, n <= CandidateLimit
       PROVE  first \subseteq IdsIn(s)
  <2>1. h.class = BACKFILL
    BY <1>1, <1>2, <1>12
  <2>2. m = first
    <3>1. Cardinality(m) = n
      BY <1>4, <1>5, <1>7, <1>12 DEF Most
    <3>2. QED BY <1>4, <1>5, <3>1, FS_Subset
  <2>3. ASSUME NEW g \in p, g.class \in {NAMED, PRIMARY} PROVE g \in s
    BY <1>2, <2>1, <2>3 DEF NAMED, PRIMARY, BACKFILL
  <2>4. QED BY <1>6, <2>2, <2>3 DEF IdsIn
<1>13. QED BY <1>3, <1>9, <1>10, <1>11, <1>12 DEF AnswerOK

----------------------------------------------------------------------------
(* A request from the match to the response. What it has found is right of the *)
(* build it began with, as long as that is in place.                           *)

Asks(r) == Eligible(db, req[r].query, req[r].today)
InForceOf(r) == {i \in IdsOf(db) : Governs(db, i, req[r].today)}

Matched == {"vectors", "load", "store", "dense", "rank"}
Ranked == {"health", "read", "cache", "flags"}

RightSoFar(r) ==
    /\ pc[r] \in Ranked =>
            \A x \in response[r] : DOMAIN x = {"id", "in_force", "superseded_by"}
    /\ req[r].since = db =>
        /\ pc[r] \in Matched => PoolOK(Asks(r), db, req[r].query, hits[r])
        /\ pc[r] \in Ranked \cup {"done"} => AnswerOK(Asks(r), db, req[r].query, hits[r])
        /\ pc[r] = "done" =>
            \A x \in response[r] : x.id \in IdsIn({h \in hits[r] : h.via = "row"})
                => x.in_force = (x.id \in InForceOf(r))

Answering == \A r \in Readers : RightSoFar(r)

IInv == Positions /\ Answering

\* A build is what it was, and so is what a request asks of it.
LEMMA SameBuild ==
    ASSUME NEW r \in Readers, db' = db, trunk'[db] = trunk[db], req'[r] = req[r]
    PROVE  Asks(r)' = Asks(r) /\ InForceOf(r)' = InForceOf(r)
<1>1. Corpus(db)' = Corpus(db)
  BY DEF Corpus
<1>2. IdsOf(db)' = IdsOf(db)
  BY <1>1 DEF IdsOf
<1>3. ASSUME NEW i PROVE Doc(db, i)' = Doc(db, i)
  <2> DEFINE F(c) == c[CHOOSE p \in DOMAIN c : c[p].id = i]
  <2>1. Doc(db, i)' = F(Corpus(db)') /\ Doc(db, i) = F(Corpus(db))
    BY DEF Doc
  <2> HIDE DEF F
  <2>2. QED BY <1>1, <2>1
<1>4. Edges(db, "supersedes")' = Edges(db, "supersedes")
  BY <1>2, <1>3 DEF Edges
<1>5. graph_excluded_ids(db, req[r].today)' = graph_excluded_ids(db, req[r].today)
  BY <1>3, <1>4 DEF graph_excluded_ids
<1>6. Asks(r)' = Asks(r)
  BY <1>2, <1>3, <1>5 DEF Asks, Eligible
<1>7. InForceOf(r)' = InForceOf(r)
  BY <1>2, <1>3, <1>5 DEF InForceOf, Governs
<1>8. QED BY <1>6, <1>7

\* A reader that stays where it is, while the builds go on.
LEMMA Undisturbed ==
    ASSUME Positions, NEW r \in Readers, RightSoFar(r), db' \in Nat, db <= db',
           db' = db => trunk'[db] = trunk[db],
           req'[r] = req[r], pc'[r] = pc[r], hits'[r] = hits[r], response'[r] = response[r]
    PROVE  RightSoFar(r)'
<1>1. CASE pc[r] = "idle"
  BY <1>1 DEF RightSoFar, Ranked, Matched
<1>2. CASE pc[r] # "idle" /\ db' # db
  <2>1. req'[r].since # db'
    BY <1>2 DEF Positions, IndexOK, RequestsOK, Request
  <2>2. QED BY <2>1 DEF RightSoFar, Ranked
<1>3. CASE db' = db
  <2>1. Asks(r)' = Asks(r) /\ InForceOf(r)' = InForceOf(r)
    BY <1>3, SameBuild
  <2>2. QED BY <1>3, <2>1 DEF RightSoFar, Ranked, Matched
<1>4. QED BY <1>1, <1>2, <1>3

\* A reader that moves on, with what it has.
LEMMA MovesOn ==
    ASSUME Positions, NEW r \in Readers, RightSoFar(r), UNCHANGED <<db, trunk>>,
           req'[r] = req[r], hits'[r] = hits[r], response'[r] = response[r],
           \/ pc[r] \in Matched /\ pc'[r] \in Matched
           \/ pc[r] \in Ranked /\ pc'[r] \in Ranked
    PROVE  RightSoFar(r)'
<1>1. Asks(r)' = Asks(r)
  BY SameBuild
<1>2. QED BY <1>1 DEF RightSoFar, Ranked, Matched

\* What a query asks of a build, and that the build has it.
LEMMA AsksFinite ==
    ASSUME Positions, NEW r \in Readers, pc[r] # "idle"
    PROVE  /\ Asks(r) \in SUBSET Ids /\ IsFiniteSet(Asks(r)) /\ IdsOf(db) \subseteq Ids
           /\ Asks(r) = {i \in IdsOf(db) : Asked(db, req[r].query, req[r].today, i)}
<1>1. IndexOK /\ db \in 1..Len(trunk) /\ req[r].today \in Nat
  BY DEF Positions, IndexOK, RequestsOK, Request
<1>2. Asks(r) = {i \in IdsOf(db) : Asked(db, req[r].query, req[r].today, i)}
  BY <1>1, EligibleAsked DEF Asks
<1>3. IsFiniteSet(IdsOf(db)) /\ IdsOf(db) \subseteq Ids
  BY <1>1, BuildTyped
<1>4. QED BY <1>2, <1>3, FS_Subset

LEMMA MatchAnswers ==
    ASSUME IInv, NEW r \in Readers, Match(r) PROVE RightSoFar(r)'
<1>1. PICK p \in FtsPools(db, req[r].query, req[r].today) : hits' = [hits EXCEPT ![r] = p]
  BY DEF Match
<1>2. PoolOK(Asks(r), db, req[r].query, p)
  BY <1>1, AsksFinite, FtsPoolsFine DEF IInv, Match, Asks
<1>3. /\ hits'[r] = p /\ pc'[r] \in Matched /\ db' = db /\ trunk' = trunk /\ req'[r] = req[r]
  BY <1>1 DEF Match, Goto, indexVars, IInv, Positions, RequestsOK, Matched
<1>4. Asks(r)' = Asks(r)
  BY <1>3, SameBuild
<1>5. QED BY <1>2, <1>3, <1>4 DEF RightSoFar, Ranked, Matched

LEMMA DenseAnswers ==
    ASSUME IInv, NEW r \in Readers, Dense(r) PROVE RightSoFar(r)'
<1> SUFFICES ASSUME req'[r].since = db' PROVE RightSoFar(r)'
  BY DEF RightSoFar, Ranked, Dense, Goto, IInv, Positions, RequestsOK
<1>1. PICK p \in DensePools(db, matrix[r], req[r].query, req[r].today, hits[r]) :
            hits' = [hits EXCEPT ![r] = p]
  BY DEF Dense
<1>2. /\ hits'[r] = p /\ pc'[r] = "rank" /\ pc[r] = "dense" /\ db' = db /\ trunk' = trunk
      /\ req'[r] = req[r]
  BY <1>1 DEF Dense, Goto, indexVars, IInv, Positions, RequestsOK
<1>3. PoolOK(Asks(r), db, req[r].query, hits[r])
  BY <1>2 DEF IInv, Answering, RightSoFar, Matched
<1>4. PoolOK(Asks(r), db, req[r].query, p)
  BY <1>1, <1>2, <1>3, AsksFinite, DensePoolsFine DEF IInv, Asks
<1>5. Asks(r)' = Asks(r)
  BY <1>2, SameBuild
<1>6. QED BY <1>2, <1>4, <1>5 DEF RightSoFar, Ranked

LEMMA RankAnswers ==
    ASSUME IInv, NEW r \in Readers, Rank(r) PROVE RightSoFar(r)'
<1>1. PICK p \in Truncations(Shortcut(db, req[r].query, hits[r])) :
            /\ hits' = [hits EXCEPT ![r] = p]
            /\ response' = [response EXCEPT ![r] = _attach_superseded_by(p)]
  BY DEF Rank
<1>2. /\ hits'[r] = p /\ pc'[r] = "health" /\ pc[r] = "rank" /\ db' = db /\ trunk' = trunk
      /\ req'[r] = req[r] /\ response'[r] = _attach_superseded_by(p)
  BY <1>1 DEF Rank, Goto, indexVars, IInv, Positions, RequestsOK
<1>3. \A x \in response'[r] : DOMAIN x = {"id", "in_force", "superseded_by"}
  BY <1>2 DEF _attach_superseded_by
<1>4. ASSUME req[r].since = db
      PROVE  AnswerOK(Asks(r), db, req[r].query, p)
  <2>1. PoolOK(Asks(r), db, req[r].query, hits[r])
    BY <1>2, <1>4 DEF IInv, Answering, RightSoFar, Matched
  <2>2. QED BY <1>1, <1>2, <2>1, AsksFinite, RankFine DEF IInv
<1>5. Asks(r)' = Asks(r)
  BY <1>2, SameBuild
<1>6. QED BY <1>2, <1>3, <1>4, <1>5 DEF RightSoFar, Ranked, Matched

LEMMA RespondAnswers ==
    ASSUME IInv, NEW r \in Readers, Respond(r) PROVE RightSoFar(r)'
<1> DEFINE told(x) == \E h \in hits[r] : h.id = x.id /\
                          in_force(h, graph_excluded_ids(db, req[r].today), req[r].today)
<1>1. /\ hits'[r] = hits[r] /\ pc'[r] = "done" /\ pc[r] = "flags" /\ db' = db /\ trunk' = trunk
      /\ req'[r] = req[r]
      /\ response'[r] = {[x EXCEPT !.in_force = told(x)] : x \in response[r]}
  BY DEF Respond, Goto, indexVars, IInv, Positions, RequestsOK
<1> SUFFICES ASSUME req[r].since = db PROVE RightSoFar(r)'
  BY <1>1 DEF RightSoFar, Ranked
<1>2. AnswerOK(Asks(r), db, req[r].query, hits[r])
  BY <1>1 DEF IInv, Answering, RightSoFar, Ranked
<1>3. Asks(r)' = Asks(r) /\ InForceOf(r)' = InForceOf(r)
  BY <1>1, SameBuild
<1>4. ASSUME NEW x \in response'[r], x.id \in IdsIn({h \in hits[r] : h.via = "row"})
      PROVE  x.in_force = (x.id \in InForceOf(r))
  <2>1. PICK y \in response[r] : x = [y EXCEPT !.in_force = told(y)]
    BY <1>1
  <2>2. DOMAIN y = {"id", "in_force", "superseded_by"}
    BY <1>1 DEF IInv, Answering, RightSoFar, Ranked
  <2>3. x.id = y.id /\ x.in_force = told(y)
    <3> HIDE DEF told
    <3>1. QED BY <2>1, <2>2
  <2>4. PICK g \in hits[r] : g.via = "row" /\ g.id = x.id
    BY <1>4 DEF IdsIn
  <2>5. told(y) <=> in_force(g, graph_excluded_ids(db, req[r].today), req[r].today)
    <3>1. \A h \in hits[r] : h.id = y.id => h = g
      BY <1>2, <2>3, <2>4 DEF AnswerOK, IdsApart
    <3>2. QED BY <2>3, <2>4, <3>1
  <2>6. g.of = db /\ g.id \in Asks(r)
    BY <1>2, <2>4 DEF AnswerOK
  <2>7. g.id \in IdsOf(db)
    BY <2>6 DEF Asks, Eligible
  <2>8. in_force(g, graph_excluded_ids(db, req[r].today), req[r].today) <=> g.id \in InForceOf(r)
    <3>1. g.via # "name"
      BY <2>4
    <3>2. in_force(g, graph_excluded_ids(db, req[r].today), req[r].today) <=>
            /\ g.id \notin graph_excluded_ids(db, req[r].today)
            /\ is_in_force(Doc(db, g.id), req[r].today)
      BY <2>6, <3>1 DEF in_force
    <3>3. QED BY <2>7, <3>2 DEF InForceOf, Governs
  <2>9. told(y) = (x.id \in InForceOf(r))
    <3>1. told(y) <=> x.id \in InForceOf(r)
      BY <2>4, <2>5, <2>8
    <3>2. told(y) \in BOOLEAN
      OBVIOUS
    <3> HIDE DEF told
    <3>3. CASE x.id \in InForceOf(r)
      <4>1. told(y) = TRUE /\ (x.id \in InForceOf(r)) = TRUE
        BY <3>1, <3>2, <3>3
      <4>2. QED BY <4>1, Zenon
    <3>4. CASE x.id \notin InForceOf(r)
      <4>1. told(y) = FALSE /\ (x.id \in InForceOf(r)) = FALSE
        BY <3>1, <3>2, <3>4
      <4>2. QED BY <4>1, Zenon
    <3>5. QED BY <3>3, <3>4
  <2>10. QED
    <3> HIDE DEF told
    <3>1. QED BY <2>3, <2>9
<1>5. QED BY <1>1, <1>2, <1>3, <1>4 DEF RightSoFar, Ranked, Matched

\* A step of one reader leaves the others where they are.
LEMMA OneReader ==
    ASSUME IInv, NEW r \in Readers, RightSoFar(r)', UNCHANGED <<db, trunk>>,
           \A z \in Readers \ {r} : /\ pc'[z] = pc[z] /\ req'[z] = req[z]
                                    /\ hits'[z] = hits[z] /\ response'[z] = response[z]
    PROVE  Answering'
<1>1. ASSUME NEW z \in Readers \ {r} PROVE RightSoFar(z)'
  <2>1. RightSoFar(z) /\ Positions /\ db \in Nat
    BY DEF IInv, Answering, Positions, IndexOK
  <2>2. QED BY <2>1, Undisturbed
<1>2. QED BY <1>1 DEF Answering

LEMMA NextAnswering == IInv /\ [Next]_vars => Answering'
<1> SUFFICES ASSUME IInv, [Next]_vars PROVE Answering'
  OBVIOUS
<1>a. Positions /\ RequestsOK /\ \A r \in Readers : RightSoFar(r)
  BY DEF IInv, Answering, Positions
<1>1. CASE Refresh
  <2>1. /\ db \in Nat /\ db' \in Nat /\ db <= db' /\ (db' = db => trunk'[db] = trunk[db])
    <3>1. IndexOK /\ db \in 1..Len(trunk)
      BY DEF IInv, Positions, IndexOK
    <3>2. QED BY <1>1, <3>1, IndexForward DEF Refresh, IndexOK
  <2>2. CASE UNCHANGED readerVars
    <3>1. ASSUME NEW r \in Readers PROVE RightSoFar(r)'
      BY <1>a, <2>1, <2>2, Undisturbed DEF readerVars
    <3>2. QED BY <3>1 DEF Answering
  <2>3. CASE pc' = Idle
    BY <2>3 DEF Answering, RightSoFar, Idle, Matched, Ranked
  <2>4. QED BY <1>1, <2>2, <2>3 DEF Refresh
<1>2. CASE ExpireHealth
  <2>1. ASSUME NEW r \in Readers PROVE RightSoFar(r)'
    <3>1. db \in Nat
      BY DEF IInv, Positions, IndexOK
    <3>2. QED BY <1>2, <1>a, <3>1, Undisturbed DEF ExpireHealth, readerVars
  <2>2. QED BY <2>1 DEF Answering
<1>3. ASSUME NEW r \in Readers, Begin(r) PROVE Answering'
  <2>1. RightSoFar(r)'
    BY <1>3, <1>a DEF Begin, Goto, RightSoFar, RequestsOK, Matched, Ranked
  <2>2. QED BY <1>3, <1>a, <2>1, OneReader DEF Begin, Goto, indexVars, RequestsOK
<1>4. ASSUME NEW r \in Readers, Match(r) PROVE Answering'
  BY <1>4, <1>a, MatchAnswers, OneReader DEF Match, Goto, indexVars, RequestsOK
<1>5. ASSUME NEW r \in Readers, VectorsCached(r) \/ VectorsMissing(r) \/ LoadVectors(r) \/ StoreVectors(r)
      PROVE  Answering'
  <2>1. /\ UNCHANGED <<db, trunk, req, hits, response>>
        /\ pc[r] \in Matched /\ pc'[r] \in Matched /\ \A z \in Readers \ {r} : pc'[z] = pc[z]
    BY <1>5, <1>a DEF VectorsCached, VectorsMissing, LoadVectors, StoreVectors, Goto, indexVars,
                      RequestsOK, Matched
  <2>2. RightSoFar(r)'
    BY <1>a, <2>1, MovesOn
  <2>3. QED BY <2>1, <2>2, OneReader
<1>6. ASSUME NEW r \in Readers, Dense(r) PROVE Answering'
  BY <1>6, <1>a, DenseAnswers, OneReader DEF Dense, Goto, indexVars, RequestsOK
<1>7. ASSUME NEW r \in Readers, Rank(r) PROVE Answering'
  BY <1>7, <1>a, RankAnswers, OneReader DEF Rank, Goto, indexVars, RequestsOK
<1>8. ASSUME NEW r \in Readers, HealthCached(r) \/ HealthMissing(r) \/ ReadHealth(r) \/ CacheHealth(r)
      PROVE  Answering'
  <2>1. /\ UNCHANGED <<db, trunk, req, hits, response>>
        /\ pc[r] \in Ranked /\ pc'[r] \in Ranked /\ \A z \in Readers \ {r} : pc'[z] = pc[z]
    BY <1>8, <1>a DEF HealthCached, HealthMissing, ReadHealth, CacheHealth, Goto, indexVars,
                      RequestsOK, Ranked
  <2>2. RightSoFar(r)'
    BY <1>a, <2>1, MovesOn
  <2>3. QED BY <2>1, <2>2, OneReader
<1>9. ASSUME NEW r \in Readers, Respond(r) PROVE Answering'
  BY <1>9, <1>a, RespondAnswers, OneReader DEF Respond, Goto, indexVars, RequestsOK
<1>10. ASSUME NEW r \in Readers, Return(r) PROVE Answering'
  <2>1. RightSoFar(r)'
    BY <1>10, <1>a DEF Return, Goto, RightSoFar, RequestsOK, Matched, Ranked
  <2>2. QED BY <1>10, <1>a, <2>1, OneReader DEF Return, Goto, indexVars, RequestsOK
<1>11. CASE UNCHANGED vars
  <2>1. ASSUME NEW r \in Readers PROVE RightSoFar(r)'
    <3>1. db \in Nat
      BY DEF IInv, Positions, IndexOK
    <3>2. QED BY <1>11, <1>a, <3>1, Undisturbed DEF vars, indexVars, readerVars
  <2>2. QED BY <2>1 DEF Answering
<1>12. QED BY <1>1, <1>2, <1>3, <1>4, <1>5, <1>6, <1>7, <1>8, <1>9, <1>10, <1>11 DEF Next

LEMMA Invariance == Spec => []IInv
<1>1. SearchInit => IInv
  BY InitPositions DEF IInv, Answering, RightSoFar, SearchInit, Idle, Matched, Ranked
<1>2. IInv /\ [Next]_vars => IInv'
  BY NextPositions, NextAnswering DEF IInv
<1>3. QED BY <1>1, <1>2, PTL DEF Spec

----------------------------------------------------------------------------
(* Whatever is swapped in meanwhile, what a request has found is of a build    *)
(* that was in place since it began.                                           *)

AHit == [id : Ids, class : {NAMED, PRIMARY, BACKFILL}, via : {"row", "name"}, of : Nat]

WasAsked(r, h) ==
    h.of \in 1..db /\ req[r].since <= h.of /\ h.id \in Eligible(h.of, req[r].query, req[r].today)

Found(r) ==
    /\ IsFiniteSet(hits[r]) /\ hits[r] \subseteq AHit
    /\ pc[r] \in {"idle", "match"} => hits[r] = {}
    /\ pc[r] \in Ranked \cup {"done"} => Cardinality(hits[r]) <= Limit
    /\ \A h \in hits[r] : h.via = "row" => WasAsked(r, h)

AllFound == \A r \in Readers : Found(r)

LEMMA SameEligible ==
    ASSUME NEW b, NEW q, NEW today, trunk'[b] = trunk[b]
    PROVE  Eligible(b, q, today)' = Eligible(b, q, today)
<1>1. Corpus(b)' = Corpus(b)
  BY DEF Corpus
<1>2. IdsOf(b)' = IdsOf(b)
  BY <1>1 DEF IdsOf
<1>3. ASSUME NEW i PROVE Doc(b, i)' = Doc(b, i)
  <2> DEFINE F(c) == c[CHOOSE p \in DOMAIN c : c[p].id = i]
  <2>1. Doc(b, i)' = F(Corpus(b)') /\ Doc(b, i) = F(Corpus(b))
    BY DEF Doc
  <2> HIDE DEF F
  <2>2. QED BY <1>1, <2>1
<1>4. Edges(b, "supersedes")' = Edges(b, "supersedes")
  BY <1>2, <1>3 DEF Edges
<1>5. graph_excluded_ids(b, today)' = graph_excluded_ids(b, today)
  BY <1>3, <1>4 DEF graph_excluded_ids
<1>6. QED BY <1>2, <1>3, <1>5 DEF Eligible

\* A hit stays what was asked, while the builds go on.
LEMMA StaysAsked ==
    ASSUME IndexOK, NEW r \in Readers, NEW h, WasAsked(r, h), req'[r] = req[r],
           db' \in Nat, db <= db', \A b \in 1..Len(trunk) : trunk'[b] = trunk[b]
    PROVE  WasAsked(r, h)'
<1>1. h.of \in 1..db /\ h.of \in 1..Len(trunk) /\ req[r].since <= h.of
  BY DEF WasAsked, IndexOK
<1>2. Eligible(h.of, req[r].query, req[r].today)' = Eligible(h.of, req[r].query, req[r].today)
  <2> DEFINE b == h.of
  <2>1. trunk'[b] = trunk[b]
    BY <1>1
  <2>2. \A q, today : Eligible(b, q, today)' = Eligible(b, q, today)
    BY <2>1, SameEligible
  <2>3. QED BY <2>2
<1>3. h.of \in 1..db'
  BY <1>1 DEF IndexOK
<1>4. QED BY <1>1, <1>2, <1>3 DEF WasAsked

\* A reader that finds nothing more.
LEMMA FindsNoMore ==
    ASSUME Positions, NEW r \in Readers, Found(r), db' \in Nat, db <= db',
           \A b \in 1..Len(trunk) : trunk'[b] = trunk[b],
           req'[r] = req[r], hits'[r] = hits[r],
           \/ pc'[r] = pc[r]
           \/ pc'[r] \in Matched
           \/ pc[r] \in Ranked /\ pc'[r] \in Ranked \cup {"done"}
    PROVE  Found(r)'
<1>1. \A h \in hits'[r] : h.via = "row" => WasAsked(r, h)'
  BY StaysAsked DEF Found, Positions
<1>2. /\ IsFiniteSet(hits'[r]) /\ hits'[r] \subseteq AHit
      /\ pc'[r] \in {"idle", "match"} => hits'[r] = {}
      /\ pc'[r] \in Ranked \cup {"done"} => Cardinality(hits'[r]) <= Limit
  BY DEF Found, Matched, Ranked
<1>3. AHit' = AHit
  BY DEF AHit
<1>4. QED BY <1>1, <1>2, <1>3 DEF Found, Ranked

\* What the match and the dense pass add is of the build in place.
LEMMA MatchFinds ==
    ASSUME Positions, AllFound, NEW r \in Readers, Match(r) \/ Dense(r)
    PROVE  Found(r)'
<1> DEFINE E == Asks(r)
           q == req[r].query
           today == req[r].today
<1>1. /\ UNCHANGED <<db, trunk>> /\ req' = req /\ pc'[r] \in Matched /\ pc[r] \in {"match", "dense"}
      /\ \A z \in Readers : Found(z)
  BY DEF AllFound, Match, Dense, indexVars, Goto, Matched, Positions, RequestsOK
<1>2. /\ E \in SUBSET Ids /\ IsFiniteSet(E)
      /\ db \in Nat /\ 1 <= db /\ req[r].since \in Nat /\ req[r].since <= db
  BY <1>1, AsksFinite DEF Positions, IndexOK, RequestsOK, Request
<1>3. ASSUME NEW x, NEW h \in x, Row(E, db, q, h)
      PROVE  h \in AHit /\ WasAsked(r, h)
  BY <1>2, <1>3 DEF Row, AHit, WasAsked, Asks
<1>4. PICK x : /\ IsFiniteSet(x) /\ \A h \in x : Row(E, db, q, h)
               /\ hits'[r] \subseteq hits[r] \cup x
  <2>1. CASE Match(r)
    <3>1. PICK p \in FtsPools(db, q, today) : hits' = [hits EXCEPT ![r] = p]
      BY <2>1 DEF Match
    <3>2. PoolOK(E, db, q, p)
      BY <1>2, <3>1, FtsPoolsFine DEF Asks
    <3>3. hits'[r] = p
      BY <3>1 DEF Positions, RequestsOK
    <3>4. QED BY <3>2, <3>3 DEF PoolOK
  <2>2. CASE Dense(r)
    <3>1. PICK p \in DensePools(db, matrix[r], q, today, hits[r]) : hits' = [hits EXCEPT ![r] = p]
      BY <2>2 DEF Dense
    <3> DEFINE matching == q.dense \cap E \cap IdsOf(matrix[r])
    <3>2. PICK x \in Pass(db, matching, DenseLimit, PRIMARY) : p = Backfill(hits[r], x)
      BY <3>1 DEF DensePools, Asks
    <3>3. matching \in SUBSET E /\ matching \subseteq q.primary \cup q.dense /\ DenseLimit \in Nat
      BY SearchAssumption
    <3> HIDE DEF matching, E, q
    <3>4. IsFiniteSet(x) /\ \A h \in x : Row(E, db, q, h)
      <4>1. E \in SUBSET Ids /\ IsFiniteSet(E)
        BY <1>2
      <4>2. PRIMARY \in {PRIMARY, BACKFILL}
        OBVIOUS
      <4>3. QED BY <3>2, <3>3, <4>1, <4>2, PassFine
    <3>5. hits'[r] \subseteq hits[r] \cup x
      BY <3>1, <3>2 DEF Backfill, Positions, RequestsOK
    <3>6. QED BY <3>4, <3>5
  <2>3. QED BY <2>1, <2>2
<1>5. IsFiniteSet(hits'[r]) /\ hits'[r] \subseteq AHit
  <2>1. IsFiniteSet(hits[r] \cup x)
    BY <1>1, <1>4, FS_Union DEF Found
  <2>2. QED BY <1>1, <1>3, <1>4, <2>1, FS_Subset DEF Found
<1>6. \A h \in hits'[r] : h.via = "row" => WasAsked(r, h)
  BY <1>1, <1>3, <1>4 DEF Found
<1>7. \A h \in hits'[r] : h.via = "row" => WasAsked(r, h)'
  BY <1>1, <1>2, <1>6, StaysAsked DEF Positions
<1>8. AHit' = AHit
  BY DEF AHit
<1>9. QED BY <1>1, <1>5, <1>7, <1>8 DEF Found, Matched, Ranked

\* The short-circuit adds no row of its own.
LEMMA ShortcutRows ==
    ASSUME NEW b \in Nat, IdsOf(b) \subseteq Ids, NEW q, NEW pool \in SUBSET AHit, IsFiniteSet(pool)
    PROVE  LET p == Shortcut(b, q, pool) IN
           /\ IsFiniteSet(p) /\ p \subseteq AHit
           /\ \A h \in p : h.via = "row" =>
                \E g \in pool : g.via = "row" /\ g.id = h.id /\ g.of = h.of
<1> DEFINE named == IF q.exact \in IdsOf(b) THEN {q.exact} ELSE ids_with_exact_tag(b, q)
           found == {h \in pool : h.id \in named}
           lifted == {[h EXCEPT !.class = NAMED] : h \in found}
           x == [id |-> q.exact, class |-> NAMED, via |-> "name", of |-> b]
           extra == {[id |-> i, class |-> NAMED, via |-> "name", of |-> b] :
                        i \in ({q.exact} \cap IdsOf(b)) \ IdsIn(found)}
           p == (pool \ found) \cup lifted \cup extra
<1>1. Shortcut(b, q, pool) = p
  BY DEF Shortcut
<1> HIDE DEF named
<1>2. \A h \in lifted : \E g \in pool :
            /\ h = [id |-> g.id, class |-> NAMED, via |-> g.via, of |-> g.of] /\ g \in AHit
  <2>1. \A g \in AHit :
            [g EXCEPT !.class = NAMED] = [id |-> g.id, class |-> NAMED, via |-> g.via, of |-> g.of]
    BY DEF AHit
  <2>2. \A g \in found : g \in pool /\ g \in AHit
    OBVIOUS
  <2>3. QED BY <2>1, <2>2
<1>3. extra \subseteq {x} /\ \A h \in extra : h.via = "name" /\ h \in AHit
  <2>1. extra \subseteq {x} /\ (extra # {} => q.exact \in Ids)
    OBVIOUS
  <2>2. x.via = "name" /\ (q.exact \in Ids => x \in AHit)
    BY DEF AHit
  <2> HIDE DEF extra, x
  <2>3. QED BY <2>1, <2>2
<1>4. IsFiniteSet(p)
  <2>1. IsFiniteSet(found) /\ IsFiniteSet(pool \ found)
    BY FS_Subset
  <2> DEFINE f == [h \in found |-> [h EXCEPT !.class = NAMED]]
  <2>2. f \in Surjection(found, lifted)
    BY DEF Surjection
  <2>3. IsFiniteSet(lifted)
    BY <2>1, <2>2, FS_Surjection
  <2>4. IsFiniteSet({x})
    BY FS_Singleton
  <2>5. IsFiniteSet(extra)
    <3> HIDE DEF extra, x
    <3>1. QED BY <1>3, <2>4, FS_Subset
  <2> HIDE DEF found, lifted, extra
  <2>6. IsFiniteSet((pool \ found) \cup lifted)
    BY <2>1, <2>3, FS_Union
  <2>7. QED BY <2>5, <2>6, FS_Union
<1>5. ASSUME NEW h \in lifted
      PROVE  h \in AHit /\ \E g \in pool : g.via = h.via /\ g.id = h.id /\ g.of = h.of
  <2>1. PICK g \in pool : /\ h = [id |-> g.id, class |-> NAMED, via |-> g.via, of |-> g.of]
                          /\ g \in AHit
    BY <1>2
  <2>2. QED BY <2>1 DEF AHit
<1>6. p \subseteq AHit
  <2> HIDE DEF lifted, extra
  <2>1. QED BY <1>3, <1>5
<1>7. ASSUME NEW h \in p, h.via = "row"
      PROVE  \E g \in pool : g.via = "row" /\ g.id = h.id /\ g.of = h.of
  <2> HIDE DEF lifted, extra
  <2>1. QED BY <1>3, <1>5, <1>7
<1> HIDE DEF p
<1>8. QED BY <1>1, <1>4, <1>6, <1>7

LEMMA RankFinds ==
    ASSUME Positions, AllFound, NEW r \in Readers, Rank(r)
    PROVE  Found(r)'
<1>1. PICK p \in Truncations(Shortcut(db, req[r].query, hits[r])) : hits' = [hits EXCEPT ![r] = p]
  BY DEF Rank
<1>2. /\ UNCHANGED <<db, trunk>> /\ req' = req /\ pc'[r] = "health" /\ pc[r] = "rank"
      /\ hits'[r] = p /\ Found(r)
  BY <1>1 DEF AllFound, Rank, indexVars, Goto, Positions, RequestsOK
<1> DEFINE all == Shortcut(db, req[r].query, hits[r])
<1>3. /\ IsFiniteSet(all) /\ all \subseteq AHit
      /\ \A h \in all : h.via = "row" =>
            \E g \in hits[r] : g.via = "row" /\ g.id = h.id /\ g.of = h.of
  <2>1. db \in Nat /\ IdsOf(db) \subseteq Ids
    BY <1>2, AsksFinite DEF Positions, IndexOK
  <2>2. hits[r] \in SUBSET AHit /\ IsFiniteSet(hits[r])
    BY <1>2 DEF Found
  <2>3. QED BY <2>1, <2>2, ShortcutRows
<1>4. p \in SUBSET all /\ Cardinality(p) = Most(Cardinality(all), Limit)
  BY <1>1 DEF Truncations
<1> HIDE DEF all
<1>5. /\ IsFiniteSet(p) /\ p \subseteq AHit /\ Cardinality(p) <= Limit
      /\ \A h \in p : h.via = "row" => WasAsked(r, h)
  <2>1. IsFiniteSet(p) /\ p \subseteq AHit
    BY <1>3, <1>4, FS_Subset
  <2>2. Cardinality(p) <= Limit
    <3>1. Cardinality(all) \in Nat /\ Limit \in Nat
      BY <1>3, FS_CardinalityType, SearchAssumption
    <3>2. QED BY <1>4, <3>1, MostIs
  <2>3. ASSUME NEW h \in p, h.via = "row" PROVE WasAsked(r, h)
    <3>1. PICK g \in hits[r] : g.via = "row" /\ g.id = h.id /\ g.of = h.of
      BY <1>3, <1>4, <2>3
    <3>2. WasAsked(r, g)
      BY <1>2, <3>1 DEF Found
    <3>3. QED BY <3>1, <3>2 DEF WasAsked
  <2>4. QED BY <2>1, <2>2, <2>3
<1>6. \A h \in p : h.via = "row" => WasAsked(r, h)'
  BY <1>2, <1>5, StaysAsked DEF Positions, IndexOK
<1>7. AHit' = AHit
  BY DEF AHit
<1>8. QED BY <1>2, <1>5, <1>6, <1>7 DEF Found, Ranked

LEMMA NextFound == Positions /\ AllFound /\ [Next]_vars => AllFound'
<1> SUFFICES ASSUME Positions, AllFound, [Next]_vars PROVE AllFound'
  OBVIOUS
<1>a. RequestsOK /\ IndexOK /\ db \in Nat /\ \A r \in Readers : Found(r)
  BY DEF AllFound, Positions, IndexOK
<1>1. CASE Refresh
  <2>1. db' \in Nat /\ db <= db' /\ \A b \in 1..Len(trunk) : trunk'[b] = trunk[b]
    BY <1>1, <1>a, IndexForward DEF Refresh, IndexOK
  <2>2. CASE UNCHANGED readerVars
    <3>1. ASSUME NEW r \in Readers PROVE Found(r)'
      BY <1>a, <2>1, <2>2, FindsNoMore DEF readerVars
    <3>2. QED BY <3>1 DEF AllFound
  <2>3. CASE pc' = Idle /\ hits' = Empty
    <3>1. ASSUME NEW r \in Readers PROVE Found(r)'
      <4>1. pc'[r] = "idle" /\ hits'[r] = {} /\ IsFiniteSet(hits'[r])
        BY <2>3, FS_EmptySet DEF Idle, Empty
      <4>2. QED BY <4>1 DEF Found, Ranked
    <3>2. QED BY <3>1 DEF AllFound
  <2>4. QED BY <1>1, <2>2, <2>3 DEF Refresh
<1>2. ASSUME UNCHANGED <<db, trunk>>, NEW r \in Readers, Found(r)',
             \A z \in Readers \ {r} : req'[z] = req[z] /\ hits'[z] = hits[z] /\ pc'[z] = pc[z]
      PROVE  AllFound'
  <2>1. ASSUME NEW z \in Readers \ {r} PROVE Found(z)'
    BY <1>a, <1>2, FindsNoMore
  <2>2. QED BY <1>2, <2>1 DEF AllFound
<1>3. CASE ExpireHealth \/ UNCHANGED vars
  <2>1. UNCHANGED <<db, trunk, req, hits, pc>>
    BY <1>3 DEF ExpireHealth, vars, indexVars, readerVars
  <2>2. ASSUME NEW r \in Readers PROVE Found(r)'
    BY <1>a, <2>1, FindsNoMore
  <2>3. QED BY <2>2 DEF AllFound
<1>4. ASSUME NEW r \in Readers, Begin(r) \/ Return(r) PROVE AllFound'
  <2>1. /\ UNCHANGED <<db, trunk>> /\ pc'[r] \in {"idle", "match"} /\ hits'[r] = {}
        /\ \A z \in Readers \ {r} : req'[z] = req[z] /\ hits'[z] = hits[z] /\ pc'[z] = pc[z]
    BY <1>4, <1>a DEF Begin, Return, Goto, indexVars, RequestsOK, Found
  <2>2. Found(r)'
    BY <2>1, FS_EmptySet DEF Found, Ranked
  <2>3. QED BY <1>2, <2>1, <2>2
<1>5. ASSUME NEW r \in Readers, Match(r) \/ Dense(r) \/ Rank(r) PROVE AllFound'
  <2>1. Found(r)'
    BY <1>5, MatchFinds, RankFinds
  <2>2. /\ UNCHANGED <<db, trunk>>
        /\ \A z \in Readers \ {r} : req'[z] = req[z] /\ hits'[z] = hits[z] /\ pc'[z] = pc[z]
    BY <1>5, <1>a DEF Match, Dense, Rank, Goto, indexVars, RequestsOK
  <2>3. QED BY <1>2, <2>1, <2>2
<1>6. ASSUME NEW r \in Readers,
             \/ VectorsCached(r) \/ VectorsMissing(r) \/ LoadVectors(r) \/ StoreVectors(r)
             \/ HealthCached(r) \/ HealthMissing(r) \/ ReadHealth(r) \/ CacheHealth(r) \/ Respond(r)
      PROVE  AllFound'
  <2>1. /\ UNCHANGED <<db, trunk, req, hits>>
        /\ \/ pc[r] \in Matched /\ pc'[r] \in Matched
           \/ pc[r] \in Ranked /\ pc'[r] \in Ranked \cup {"done"}
        /\ \A z \in Readers \ {r} : pc'[z] = pc[z]
    BY <1>6, <1>a DEF VectorsCached, VectorsMissing, LoadVectors, StoreVectors, HealthCached, HealthMissing,
                      ReadHealth, CacheHealth, Respond, Goto, indexVars, RequestsOK, Matched, Ranked
  <2>2. Found(r)'
    BY <1>a, <2>1, FindsNoMore
  <2>3. QED BY <1>2, <2>1, <2>2
<1>7. QED BY <1>1, <1>3, <1>4, <1>5, <1>6 DEF Next

LEMMA FoundHolds == Spec => []AllFound
<1>1. SearchInit => AllFound
  BY FS_EmptySet DEF SearchInit, AllFound, Found, Idle, Empty, Ranked
<1>2. QED BY <1>1, NextFound, PositionsHold, PTL DEF Spec

\* What the filter of a search lets through, in the terms of the property.
LEMMA RowsAsked ==
    ASSUME Positions, NEW r \in Readers, pc[r] # "idle", NEW h, WasAsked(r, h)
    PROVE  h.of \in req[r].since..db /\ h.id \in IdsOf(h.of) /\ Asked(h.of, req[r].query, req[r].today, h.id)
<1>1. h.of \in 1..db /\ h.of \in 1..Len(trunk) /\ IndexOK /\ req[r].today \in Nat /\ req[r].since \in Nat
  BY DEF WasAsked, Positions, IndexOK, RequestsOK, Request
<1>2. h.id \in {i \in IdsOf(h.of) : Asked(h.of, req[r].query, req[r].today, i)}
  BY <1>1, EligibleAsked DEF WasAsked
<1>3. QED BY <1>1, <1>2 DEF WasAsked

LEMMA AnswersAsked == IInv /\ AllFound => AnswersTheQuery
<1> SUFFICES ASSUME IInv, AllFound, NEW r \in Readers, pc[r] = "done"
             PROVE  LET q == req[r].query
                        today == req[r].today
                        asked(b, i) == /\ q.in_force => Governs(b, i, today)
                                       /\ q.include_expired \/ ~is_expired(Doc(b, i), today)
                        first == {i \in q.primary \cap IdsOf(db) : asked(db, i)}
                        rows == {h \in hits[r] : h.via = "row"}
                    IN  /\ Cardinality(hits[r]) <= Limit
                        /\ \A h \in rows : /\ h.of \in req[r].since..db /\ h.id \in IdsOf(h.of)
                                           /\ asked(h.of, h.id)
                        /\ req[r].since = db =>
                            /\ Most(Cardinality(first), Most(Limit, CandidateLimit)) <= Cardinality(hits[r])
                            /\ (\E i \in IdsIn(rows) : i \notin q.primary \cup q.dense \cup q.tagged \cup {q.exact})
                                   /\ Cardinality(first) <= CandidateLimit => first \subseteq IdsIn(hits[r])
                            /\ \A x \in response[r] :
                                    x.id \in IdsIn(rows) => x.in_force = Governs(db, x.id, today)
  BY DEF AnswersTheQuery
<1> DEFINE q == req[r].query
           today == req[r].today
           asked(b, i) == /\ q.in_force => Governs(b, i, today)
                          /\ q.include_expired \/ ~is_expired(Doc(b, i), today)
           first == {i \in q.primary \cap IdsOf(db) : asked(db, i)}
           kept == {h \in hits[r] : h.via = "row"}
           rows == IdsIn(kept)
<1>1. Positions /\ Found(r)
  BY DEF IInv, AllFound
<1>2. Cardinality(hits[r]) <= Limit
  BY <1>1 DEF Found
<1>3. ASSUME NEW h \in kept
      PROVE  h.of \in req[r].since..db /\ h.id \in IdsOf(h.of) /\ asked(h.of, h.id)
  <2>1. WasAsked(r, h)
    BY <1>1, <1>3 DEF Found
  <2>2. h.of \in req[r].since..db /\ h.id \in IdsOf(h.of) /\ Asked(h.of, q, today, h.id)
    BY <1>1, <2>1, RowsAsked
  <2>3. QED BY <2>2 DEF Asked
<1>4. ASSUME req[r].since = db
      PROVE  /\ Most(Cardinality(first), Most(Limit, CandidateLimit)) <= Cardinality(hits[r])
             /\ (\E i \in rows : i \notin q.primary \cup q.dense \cup q.tagged \cup {q.exact})
                    /\ Cardinality(first) <= CandidateLimit => first \subseteq IdsIn(hits[r])
             /\ \A x \in response[r] : x.id \in rows => x.in_force = Governs(db, x.id, today)
  <2>1. /\ AnswerOK(Asks(r), db, q, hits[r])
        /\ \A x \in response[r] : x.id \in rows => x.in_force = (x.id \in InForceOf(r))
    BY <1>4 DEF IInv, Answering, RightSoFar
  <2>2. Asks(r) = {i \in IdsOf(db) : asked(db, i)}
    BY <1>1, AsksFinite DEF Asked
  <2>3. first = q.primary \cap Asks(r)
    BY <2>2
  <2>4. ASSUME NEW i \in rows
        PROVE  i \in Asks(r) /\ \E h \in hits[r] : h.via = "row" /\ h.id = i
    BY <2>1 DEF AnswerOK, IdsIn
  <2>5. ASSUME NEW x \in response[r], x.id \in rows
        PROVE  x.in_force = Governs(db, x.id, today)
    <3>1. x.id \in IdsOf(db)
      BY <2>2, <2>4, <2>5
    <3>2. x.id \in InForceOf(r) <=> Governs(db, x.id, today)
      BY <3>1 DEF InForceOf
    <3>3. x.in_force = (x.id \in InForceOf(r))
      BY <2>1, <2>5
    <3>4. Governs(db, x.id, today) \in BOOLEAN
      BY DEF Governs
    <3>5. CASE x.id \in InForceOf(r)
      <4>1. (x.id \in InForceOf(r)) = TRUE /\ Governs(db, x.id, today) = TRUE
        BY <3>2, <3>4, <3>5
      <4>2. QED BY <3>3, <4>1, Zenon
    <3>6. CASE x.id \notin InForceOf(r)
      <4>1. (x.id \in InForceOf(r)) = FALSE /\ Governs(db, x.id, today) = FALSE
        BY <3>2, <3>4, <3>6
      <4>2. QED BY <3>3, <4>1, Zenon
    <3>7. QED BY <3>5, <3>6
  <2> HIDE DEF first, rows, asked, kept
  <2>6. Most(Cardinality(first), Most(Limit, CandidateLimit)) <= Cardinality(hits[r])
    BY <2>1, <2>3 DEF AnswerOK
  <2>7. ASSUME NEW i \in rows, i \notin q.primary \cup q.dense \cup q.tagged \cup {q.exact},
               Cardinality(first) <= CandidateLimit
        PROVE  first \subseteq IdsIn(hits[r])
    BY <2>1, <2>3, <2>4, <2>7 DEF AnswerOK
  <2>8. QED BY <2>5, <2>6, <2>7
<1> HIDE DEF first, asked
<1>5. QED BY <1>2, <1>3, <1>4 DEF first, asked

\* Each row of an answer is what the query asks of a build that was in place while the
\* request ran, whatever was swapped; and an answer no swap came into is what the query
\* asks of its build, through every pass: for any limits, queries and corpora.
THEOREM QueriesAnswered == Spec => []AnswersTheQuery
BY Invariance, FoundHolds, AnswersAsked, PTL

----------------------------------------------------------------------------
(* The maintenance ledger.                                                    *)

\* A server that runs has the state of its corpus, one that does not remembers
\* nothing, and the worktree is at the tip.
LedgerIInv ==
    /\ LedgerTypeOK
    /\ up => maint \in LedgerState
    /\ ~up => memo = Nil /\ ~overlooked
    /\ copy = Tip
    /\ RememberedLands

\* The type invariant of the index in three parts.
TrunkTyped == trunk \in Seq(TrunkCommit) /\ trunk # <<>>
LoopTyped ==
    /\ checkout \in 1..Len(trunk) /\ db \in 1..checkout /\ day \in 1..MaxDay
    /\ up \in BOOLEAN /\ missed \in BOOLEAN
    /\ rpc \in {"idle", "build", "publish", "ledger"}
    /\ buildStatus \in {"ok", "failed"}
    /\ maint \in LedgerState \cup {Nil}
    /\ faults \in 0..MaxFaults
CachesTyped ==
    /\ healthCache \in [at : 1..Len(trunk), commit : 1..Len(trunk)] \cup {Nil}
    /\ vectorCache \in [key : 1..Len(trunk), of : 1..Len(trunk)] \cup {Nil}

LEMMA IndexParts == IndexTypeOK <=> TrunkTyped /\ LoopTyped /\ CachesTyped
BY Zenon DEF IndexTypeOK, TrunkTyped, LoopTyped, CachesTyped, TrunkCommit

LEMMA TrunkNumbers ==
    ASSUME TrunkTyped
    PROVE  Len(trunk) \in Nat /\ Len(trunk) >= 1 /\ \A n \in 1..Len(trunk) : trunk[n] \in TrunkCommit
BY DEF TrunkTyped

LEMMA TrunkGrows ==
    ASSUME TrunkTyped, NEW x \in TrunkCommit, trunk' = Append(trunk, x)
    PROVE  /\ TrunkTyped' /\ trunk'[Len(trunk')] = x
           /\ Len(trunk') = Len(trunk) + 1 /\ 1..Len(trunk) \subseteq 1..Len(trunk')
<1>1. trunk \in Seq(TrunkCommit) /\ TrunkCommit' = TrunkCommit
  BY DEF TrunkTyped, TrunkCommit, LedgerState
<1>2. QED BY <1>1 DEF TrunkTyped

LEMMA StateTyped ==
    ASSUME TrunkTyped, NEW b \in 1..Len(trunk), NEW today
    PROVE  MaintenanceState(b, today) \in LedgerState
<1>1. Corpus(b) \in Corpora
  BY TrunkNumbers DEF TrunkCommit, Corpus
<1>2. DOMAIN Corpus(b) \subseteq Paths
  BY <1>1, CorporaAssumption
<1>3. QED BY <1>2 DEF MaintenanceState, LedgerState

LEMMA CachesGrow ==
    ASSUME CachesTyped, TrunkTyped, 1..Len(trunk) \subseteq 1..Len(trunk'),
           healthCache' \in {healthCache, Nil}, vectorCache' \in {vectorCache, Nil}
    PROVE  CachesTyped'
BY DEF CachesTyped

\* The pull loop keeps the types, the trunk's ledger and what a running server has.
LEMMA IndexTyped ==
    ASSUME IndexTypeOK, up => maint \in LedgerState, IndexNext
    PROVE  /\ IndexTypeOK' /\ (up' => maint' \in LedgerState)
           /\ trunk'[Len(trunk')].ledger = trunk[Len(trunk)].ledger
<1>1. TrunkTyped /\ LoopTyped /\ CachesTyped
  BY IndexParts
<1>2. Len(trunk) \in Nat /\ Len(trunk) >= 1 /\ trunk[Len(trunk)] \in TrunkCommit
  BY <1>1, TrunkNumbers
<1>3. LedgerState' = LedgerState /\ TrunkCommit' = TrunkCommit
  BY DEF LedgerState, TrunkCommit
<1>4. db \in 1..Len(trunk) /\ checkout \in 1..Len(trunk)
  BY <1>1, <1>2 DEF LoopTyped
<1>5. Fault => faults' \in 0..MaxFaults
  BY <1>1, IndexAssumption DEF LoopTyped, Fault
<1>6. AfterRefresh => rpc' \in {"idle", "ledger"}
  BY DEF AfterRefresh
<1>7. CASE PushTrunk
  <2>1. PICK c \in Corpora :
            trunk' = Append(trunk, [files |-> c, ledger |-> trunk[Len(trunk)].ledger])
    BY <1>7 DEF PushTrunk
  <2>2. [files |-> c, ledger |-> trunk[Len(trunk)].ledger] \in TrunkCommit
    BY <1>2 DEF TrunkCommit
  <2>3. /\ TrunkTyped' /\ trunk'[Len(trunk')] = [files |-> c, ledger |-> trunk[Len(trunk)].ledger]
        /\ Len(trunk') = Len(trunk) + 1 /\ 1..Len(trunk) \subseteq 1..Len(trunk')
    BY <1>1, <2>1, <2>2, TrunkGrows
  <2>4. /\ UNCHANGED <<checkout, day, up, rpc, db, buildStatus, maint, missed, faults>>
        /\ UNCHANGED <<healthCache, vectorCache>>
    BY <1>7 DEF PushTrunk, cacheVars
  <2>5. LoopTyped'
    BY <1>1, <1>2, <1>3, <2>3, <2>4 DEF LoopTyped
  <2>6. CachesTyped'
    BY <1>1, <2>3, <2>4, CachesGrow
  <2>7. IndexTypeOK'
    BY <2>3, <2>5, <2>6, IndexParts, PTL
  <2>8. QED BY <1>3, <2>3, <2>4, <2>7
<1>8. CASE ~PushTrunk
  <2>1. trunk' = trunk
    BY <1>8 DEF IndexNext, NextDay, FastForward, NoChange, FastForwardCutOff, Swap, BuildFails, Publish,
                Crash, Restart
  <2>2. healthCache' \in {healthCache, Nil} /\ vectorCache' \in {vectorCache, Nil}
    BY <1>8 DEF IndexNext, NextDay, FastForward, NoChange, FastForwardCutOff, Swap, BuildFails, Publish,
                Crash, Restart, cacheVars
  <2>3. TrunkTyped' /\ CachesTyped'
    <3>1. TrunkTyped'
      BY <1>1, <1>3, <2>1 DEF TrunkTyped
    <3>2. 1..Len(trunk) \subseteq 1..Len(trunk')
      BY <2>1
    <3>3. QED BY <1>1, <2>2, <3>1, <3>2, CachesGrow
  <2>4. LoopTyped' /\ (up' => maint' \in LedgerState)
    <3>1. CASE NextDay
      BY <1>1, <1>3, <2>1, <3>1, IndexAssumption DEF NextDay, LoopTyped
    <3>2. CASE FastForward
      BY <1>1, <1>2, <1>3, <2>1, <3>2 DEF FastForward, LoopTyped
    <3>3. CASE NoChange
      BY <1>1, <1>3, <1>6, <2>1, <3>3 DEF NoChange, LoopTyped
    <3>4. CASE FastForwardCutOff
      BY <1>1, <1>2, <1>3, <1>5, <2>1, <3>4 DEF FastForwardCutOff, LoopTyped
    <3>5. CASE Swap
      BY <1>1, <1>2, <1>3, <2>1, <3>5 DEF Swap, LoopTyped
    <3>6. CASE BuildFails
      BY <1>1, <1>3, <1>5, <1>6, <2>1, <3>6 DEF BuildFails, LoopTyped
    <3>7. CASE Publish
      <4>1. maint' \in LedgerState
        BY <1>1, <1>4, <3>7, StateTyped DEF Publish
      <4>2. QED BY <1>1, <1>3, <1>6, <2>1, <3>7, <4>1 DEF Publish, LoopTyped
    <3>8. CASE Crash
      BY <1>1, <1>3, <1>5, <2>1, <3>8 DEF Crash, LoopTyped
    <3>9. CASE Restart
      <4>1. maint' \in LedgerState
        BY <1>1, <1>4, <3>9, StateTyped DEF Restart
      <4>2. /\ up' = TRUE /\ db' = checkout /\ buildStatus' = "ok" /\ missed' = FALSE
            /\ UNCHANGED <<checkout, day, rpc, faults>>
        BY <3>9 DEF Restart
      <4>3. checkout \in 1..checkout
        BY <1>2, <1>4
      <4>4. QED BY <1>1, <1>3, <2>1, <4>1, <4>2, <4>3 DEF LoopTyped
    <3>10. QED BY <1>8, <3>1, <3>2, <3>3, <3>4, <3>5, <3>6, <3>7, <3>8, <3>9 DEF IndexNext
  <2>5. IndexTypeOK'
    BY <2>3, <2>4, IndexParts, PTL
  <2>6. QED BY <2>1, <2>4, <2>5
<1>9. QED BY <1>7, <1>8

Unpublished == [ledger : LedgerState, queued : BOOLEAN]

LEMMA RefreshIndexKeeps ==
    ASSUME LedgerIInv, RefreshIndex
    PROVE  LedgerIInv'
<1>1. /\ IndexTypeOK' /\ (up' => maint' \in LedgerState)
      /\ trunk'[Len(trunk')].ledger = trunk[Len(trunk)].ledger
  BY IndexTyped DEF LedgerIInv, LedgerTypeOK, RefreshIndex
<1>2. unpushed \in Seq(Unpublished) /\ LedgerState' = LedgerState /\ Unpublished' = Unpublished
  BY DEF LedgerIInv, LedgerTypeOK, Unpublished, LedgerState
<1>3. /\ Reconciled \in Seq(Unpublished) /\ Len(Reconciled) = Len(unpushed)
      /\ \A n \in 1..Len(unpushed) : Reconciled[n].ledger = unpushed[n].ledger
  <2>1. DOMAIN unpushed = 1..Len(unpushed) /\ Len(unpushed) \in Nat
    BY <1>2
  <2> DEFINE requeued(n) == [unpushed[n] EXCEPT !.queued = TRUE]
  <2>2. \A n \in 1..Len(unpushed) : requeued(n) \in Unpublished
                                    /\ requeued(n).ledger = unpushed[n].ledger
    <3> TAKE n \in 1..Len(unpushed)
    <3>1. unpushed[n] \in Unpublished
      BY <1>2
    <3>2. QED BY <3>1 DEF Unpublished
  <2>3. Reconciled = [n \in 1..Len(unpushed) |-> requeued(n)]
    BY <2>1 DEF Reconciled
  <2> HIDE DEF requeued
  <2>4. Reconciled \in [1..Len(unpushed) -> Unpublished]
    BY <2>2, <2>3
  <2>5. QED BY <2>1, <2>2, <2>3, <2>4
<1>4. /\ unpushed' \in Seq(Unpublished) /\ Len(unpushed') = Len(unpushed) /\ Len(unpushed) \in Nat
      /\ \A n \in 1..Len(unpushed) : unpushed'[n].ledger = unpushed[n].ledger
  BY <1>2, <1>3 DEF RefreshIndex
<1>5. Tip' = Tip
  <2>1. (unpushed' = <<>>) <=> (unpushed = <<>>)
    BY <1>2, <1>4
  <2>2. unpushed # <<>> => Len(unpushed) \in 1..Len(unpushed)
    BY <1>2
  <2>3. QED BY <1>1, <1>4, <2>1, <2>2 DEF Tip
<1>6. /\ copy' = copy /\ (~up' => memo' = Nil /\ ~overlooked')
      /\ memo' \in {memo, Nil} /\ overlooked' \in BOOLEAN
  BY DEF RefreshIndex, LedgerIInv, LedgerTypeOK
<1>7. LedgerTypeOK'
  BY <1>1, <1>2, <1>4, <1>6 DEF LedgerIInv, LedgerTypeOK, Unpublished
<1>8. RememberedLands'
  <2>1. SUFFICES ASSUME memo' # Nil, ~overlooked'
                 PROVE  memo' = Tip' \/ (unpushed' # <<>> /\ ~unpushed'[Len(unpushed')].queued)
    BY DEF RememberedLands
  <2>2. up' /\ memo' = memo /\ up
    BY <2>1 DEF RefreshIndex, LedgerIInv
  <2>3. unpushed' = unpushed /\ ~overlooked
    BY <2>1, <2>2 DEF RefreshIndex
  <2>4. QED BY <1>5, <2>1, <2>2, <2>3 DEF LedgerIInv, RememberedLands
<1>9. QED BY <1>1, <1>3, <1>5, <1>6, <1>7, <1>8 DEF LedgerIInv

\* The types stay when the tick comes to its end.
LEMMA TickEnds ==
    ASSUME LedgerIInv, LedgerDone, faults' \in 0..MaxFaults,
           UNCHANGED <<trunk, checkout, day, up, db, buildStatus, maint, cacheVars, missed>>
    PROVE  IndexTypeOK' /\ (up' => maint' \in LedgerState) /\ LedgerState' = LedgerState
BY DEF LedgerIInv, LedgerTypeOK, IndexTypeOK, LedgerDone, cacheVars, LedgerState

LEMMA CheckKeeps ==
    ASSUME LedgerIInv, Remembered \/ Indexed \/ InWorktree \/ CommitLedgerFails
    PROVE  LedgerIInv'
<1>1. /\ up /\ LedgerDone /\ faults' \in 0..MaxFaults
      /\ UNCHANGED <<trunk, checkout, day, up, db, buildStatus, maint, cacheVars, missed>>
      /\ UNCHANGED <<copy, unpushed>>
      /\ \/ memo' = memo /\ overlooked' = overlooked
         \/ memo' = maint /\ (overlooked' \/ copy = maint) /\ overlooked' \in BOOLEAN
         \/ memo' = maint /\ overlooked' = overlooked /\ copy = maint
  BY IndexAssumption DEF Remembered, Indexed, InWorktree, CommitLedgerFails, NewState, Fault, ledgerVars,
                         LedgerIInv, LedgerTypeOK, IndexTypeOK
<1>2. IndexTypeOK' /\ (up' => maint' \in LedgerState) /\ LedgerState' = LedgerState /\ maint \in LedgerState
  BY <1>1, TickEnds DEF LedgerIInv
<1>3. Tip' = Tip
  BY <1>1 DEF Tip
<1>4. LedgerTypeOK'
  BY <1>1, <1>2 DEF LedgerIInv, LedgerTypeOK
<1>5. RememberedLands'
  <2>1. CASE memo' = memo /\ overlooked' = overlooked
    BY <1>1, <1>3, <2>1 DEF LedgerIInv, RememberedLands
  <2>2. CASE memo' = maint /\ (overlooked' \/ copy = maint)
    BY <1>1, <1>3, <2>2 DEF LedgerIInv, RememberedLands
  <2>3. QED BY <1>1, <2>1, <2>2
<1>6. QED BY <1>1, <1>2, <1>3, <1>4, <1>5 DEF LedgerIInv

LEMMA CommitKeeps ==
    ASSUME LedgerIInv, CommitLedger \/ CommitLedgerCutOff
    PROVE  LedgerIInv'
<1>1. PICK q \in BOOLEAN : /\ up /\ Committed(q) /\ faults' \in 0..MaxFaults
      /\ UNCHANGED <<trunk, checkout, day, up, db, buildStatus, maint, cacheVars, missed>>
      /\ IF q THEN memo' = maint ELSE memo' = memo
  <2>1. faults \in 0..MaxFaults
    BY DEF LedgerIInv, LedgerTypeOK, IndexTypeOK
  <2>2. Fault => faults' \in 0..MaxFaults
    BY <2>1, IndexAssumption DEF Fault
  <2>3. CASE CommitLedger
    BY <2>1, <2>3 DEF CommitLedger, NewState
  <2>4. CASE CommitLedgerCutOff
    BY <2>2, <2>4 DEF CommitLedgerCutOff, NewState
  <2>5. QED BY <2>3, <2>4
<1>2. LedgerDone /\ maint \in LedgerState
  BY <1>1 DEF Committed, LedgerIInv
<1>3. IndexTypeOK' /\ (up' => maint' \in LedgerState) /\ LedgerState' = LedgerState
  BY <1>1, <1>2, TickEnds
<1> DEFINE x == [ledger |-> maint, queued |-> q]
<1>4. unpushed \in Seq(Unpublished) /\ x \in Unpublished /\ Unpublished' = Unpublished
  BY <1>2 DEF LedgerIInv, LedgerTypeOK, Unpublished, LedgerState
<1>5. unpushed' = Append(unpushed, x) /\ copy' = maint /\ overlooked' = FALSE
  BY <1>1 DEF Committed
<1>6. unpushed' \in Seq(Unpublished) /\ unpushed' # <<>> /\ unpushed'[Len(unpushed')] = x
  <2> HIDE DEF x
  <2>1. QED BY <1>4, <1>5
<1>7. Tip' = maint /\ unpushed'[Len(unpushed')].queued = q
  BY <1>6 DEF Tip
<1>8. LedgerTypeOK'
  BY <1>1, <1>2, <1>3, <1>4, <1>5, <1>6 DEF LedgerIInv, LedgerTypeOK, Unpublished
<1>9. RememberedLands'
  BY <1>1, <1>6, <1>7 DEF RememberedLands
<1>10. QED BY <1>1, <1>3, <1>5, <1>7, <1>8, <1>9 DEF LedgerIInv

LEMMA PushKeeps ==
    ASSUME LedgerIInv, PushLedger
    PROVE  LedgerIInv'
<1>1. /\ up
      /\ UNCHANGED <<checkout, day, up, rpc, db, buildStatus, maint, cacheVars, missed, faults,
                     memo, copy, overlooked>>
  BY DEF PushLedger
<1>2. PICK n \in DOMAIN unpushed :
        /\ unpushed[n].queued
        /\ trunk' = Append(trunk, [trunk[Len(trunk)] EXCEPT !.ledger = unpushed[n].ledger])
        /\ unpushed' = SubSeq(unpushed, n + 1, Len(unpushed))
  BY DEF PushLedger
<1>3. /\ unpushed \in Seq(Unpublished) /\ n \in 1..Len(unpushed) /\ Len(unpushed) \in Nat
      /\ unpushed[n].ledger \in LedgerState
  <2>1. unpushed \in Seq(Unpublished)
    BY DEF LedgerIInv, LedgerTypeOK, Unpublished
  <2>2. n \in 1..Len(unpushed) /\ unpushed[n] \in Unpublished
    BY <2>1
  <2>3. QED BY <2>1, <2>2 DEF Unpublished
<1>4. TrunkTyped /\ LoopTyped /\ CachesTyped /\ trunk[Len(trunk)] \in TrunkCommit
  BY IndexParts, TrunkNumbers DEF LedgerIInv, LedgerTypeOK
<1> DEFINE x == [trunk[Len(trunk)] EXCEPT !.ledger = unpushed[n].ledger]
<1>5. x \in TrunkCommit /\ x.ledger = unpushed[n].ledger
  BY <1>3, <1>4 DEF TrunkCommit
<1> HIDE DEF x
<1>6. /\ TrunkTyped' /\ trunk' # <<>> /\ trunk'[Len(trunk')] = x
      /\ 1..Len(trunk) \subseteq 1..Len(trunk') /\ Len(trunk') = Len(trunk) + 1
  BY <1>2, <1>4, <1>5, TrunkGrows DEF x, TrunkTyped
<1>7. LedgerState' = LedgerState
  BY DEF LedgerState
<1>8. IndexTypeOK'
  <2>1. UNCHANGED <<checkout, day, up, rpc, db, buildStatus, maint, missed, faults>>
        /\ UNCHANGED <<healthCache, vectorCache>>
    BY <1>1 DEF cacheVars
  <2>2. LoopTyped'
    BY <1>4, <1>6, <1>7, <2>1, TrunkNumbers DEF LoopTyped
  <2>3. CachesTyped'
    BY <1>4, <1>6, <2>1, CachesGrow
  <2>4. QED BY <1>6, <2>2, <2>3, IndexParts, PTL
<1>9. /\ unpushed' \in Seq(Unpublished) /\ Len(unpushed') = Len(unpushed) - n
      /\ \A i \in 1..(Len(unpushed) - n) : unpushed'[i] = unpushed[n + i]
  <2>1. n + 1 \in 1..(Len(unpushed) + 1) /\ Len(unpushed) \in n..Len(unpushed)
    BY <1>3
  <2>2. QED BY <1>2, <1>3, <2>1, SubSeqProperties
<1>10. CASE n = Len(unpushed)
  <2>1. unpushed' = <<>>
    BY <1>9, <1>3, <1>10
  <2>2. Tip' = Tip
    BY <1>3, <1>5, <1>6, <1>10, <2>1 DEF Tip
  <2>3. RememberedLands'
    BY <1>1, <1>2, <1>10, <2>2 DEF LedgerIInv, RememberedLands
  <2>4. LedgerTypeOK'
    BY <1>1, <1>7, <1>8, <1>9 DEF LedgerIInv, LedgerTypeOK, Unpublished
  <2>5. QED BY <1>1, <1>7, <2>2, <2>3, <2>4 DEF LedgerIInv
<1>11. CASE n # Len(unpushed)
  <2>1. /\ unpushed' # <<>> /\ unpushed # <<>>
        /\ unpushed'[Len(unpushed')] = unpushed[Len(unpushed)]
    <3>1. Len(unpushed) - n \in 1..(Len(unpushed) - n) /\ n + (Len(unpushed) - n) = Len(unpushed)
      <4>1. n \in Nat /\ n < Len(unpushed) /\ Len(unpushed) \in Nat
        BY <1>3, <1>11
      <4>2. QED BY <4>1
    <3>2. Len(unpushed') \in 1..(Len(unpushed) - n) /\ n + Len(unpushed') = Len(unpushed)
      BY <1>9, <3>1
    <3>3. unpushed'[Len(unpushed')] = unpushed[n + Len(unpushed')]
      BY <1>9, <3>2
    <3>4. unpushed' # <<>> /\ unpushed # <<>>
      BY <1>3, <1>9, <3>1
    <3>5. QED BY <3>2, <3>3, <3>4
  <2>2. Tip' = Tip
    BY <2>1 DEF Tip
  <2>3. RememberedLands'
    BY <1>1, <2>1, <2>2 DEF LedgerIInv, RememberedLands
  <2>4. LedgerTypeOK'
    BY <1>1, <1>7, <1>8, <1>9 DEF LedgerIInv, LedgerTypeOK, Unpublished
  <2>5. QED BY <1>1, <1>7, <2>2, <2>3, <2>4 DEF LedgerIInv
<1>12. QED BY <1>10, <1>11

LEMMA InitLedgerIInv == LedgerInit => LedgerIInv
<1> SUFFICES ASSUME LedgerInit PROVE LedgerIInv
  OBVIOUS
<1>1. PICK c \in Corpora : trunk = <<[files |-> c, ledger |-> Nil]>>
  BY DEF LedgerInit, Init
<1>2. TrunkTyped /\ Len(trunk) = 1 /\ trunk # <<>> /\ trunk[1].ledger = Nil
  BY <1>1 DEF TrunkTyped, TrunkCommit
<1>3. MaintenanceState(1, 1) \in LedgerState
  BY <1>2, StateTyped
<1>4. LoopTyped
  <2>1. /\ checkout = 1 /\ db = 1 /\ day = 1 /\ up = TRUE /\ rpc = "idle" /\ buildStatus = "ok"
        /\ maint = MaintenanceState(1, 1) /\ missed = FALSE /\ faults = 0
    BY DEF LedgerInit, Init
  <2>2. MaxDay \in Nat \ {0} /\ MaxFaults \in Nat
    BY IndexAssumption
  <2>3. checkout \in 1..Len(trunk) /\ db \in 1..checkout /\ day \in 1..MaxDay /\ faults \in 0..MaxFaults
    BY <1>2, <2>1, <2>2
  <2>4. QED BY <1>3, <2>1, <2>3 DEF LoopTyped
<1>5. CachesTyped
  BY DEF LedgerInit, Init, CachesTyped
<1>6. unpushed \in Seq(Unpublished)
  BY DEF LedgerInit
<1>7. IndexTypeOK
  BY <1>2, <1>4, <1>5, IndexParts
<1>8. QED BY <1>2, <1>3, <1>6, <1>7
          DEF LedgerInit, Init, LedgerIInv, LedgerTypeOK, Tip, RememberedLands, Unpublished

LEMMA StepLedgerIInv == LedgerIInv /\ [LedgerNext]_maintenanceVars => LedgerIInv'
<1> SUFFICES ASSUME LedgerIInv, [LedgerNext]_maintenanceVars PROVE LedgerIInv'
  OBVIOUS
<1>1. CASE RefreshIndex
  BY <1>1, RefreshIndexKeeps
<1>2. CASE Remembered \/ Indexed \/ InWorktree \/ CommitLedgerFails
  BY <1>2, CheckKeeps
<1>3. CASE CommitLedger \/ CommitLedgerCutOff
  BY <1>3, CommitKeeps
<1>4. CASE PushLedger
  BY <1>4, PushKeeps
<1>5. CASE UNCHANGED maintenanceVars
  BY <1>5 DEF maintenanceVars, indexVars, ledgerVars, LedgerIInv, LedgerTypeOK, IndexTypeOK, LedgerState,
              Tip, RememberedLands
<1>6. QED BY <1>1, <1>2, <1>3, <1>4, <1>5 DEF LedgerNext

\* maintenance.py maybe_update_ledger: what its first guard remembers as committed is
\* what the trunk is going to have, through any number of ticks, failed and cut-off
\* commits, pushes, crashes and restarts.
THEOREM LedgerLands == LedgerSpec => []RememberedLands
<1>1. LedgerIInv => RememberedLands
  BY DEF LedgerIInv
<1>2. QED BY <1>1, InitLedgerIInv, StepLedgerIInv, PTL DEF LedgerSpec

\* What the ledger and its commits are made of stays what it is.
THEOREM LedgerTypes == LedgerSpec => []LedgerTypeOK
<1>1. LedgerIInv => LedgerTypeOK
  BY DEF LedgerIInv
<1>2. QED BY <1>1, InitLedgerIInv, StepLedgerIInv, PTL DEF LedgerSpec
=============================================================================
