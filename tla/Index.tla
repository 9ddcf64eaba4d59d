-------------------------------- MODULE Index --------------------------------
(* The index of the knowledge base and what keeps it current: the pull loop  *)
(* fast-forwards the main checkout and rebuilds, a build is swapped in whole,*)
(* and the caches beside the database (health snapshot, vector matrix) are   *)
(* filled by concurrent requests. src/data_olympus/index.py, refresh.py,     *)
(* health.py, format/validate.py.                                            *)
(*                                                                           *)
(* A build is named by the trunk commit it was made from: its content is the *)
(* corpus of that commit, indexed.                                           *)
EXTENDS Naturals, Sequences, FiniteSets

CONSTANTS
    Paths,          \* files of the knowledge base
    Ids,            \* document ids
    Corpora,        \* the corpora the trunk may take: functions from some Paths
                    \* to File records
    Autofill,       \* KB_STATUS_AUTOFILL
    Writable,       \* the write pipeline is there: not a read-only replica
    RecentDays, SoonDays,   \* the windows of the maintenance state
    Nil,
    MaxTrunk,       \* bounds the commits of the trunk
    MaxDay,         \* bounds the calendar
    MaxFaults       \* bounds crashes, failed builds and cut-off git commands

ASSUME IndexAssumption ==
    /\ Autofill \in BOOLEAN /\ Writable \in BOOLEAN
    /\ {RecentDays, SoonDays} \subseteq Nat
    /\ Nil \notin Ids
    /\ {MaxTrunk, MaxDay} \subseteq Nat \ {0} /\ MaxFaults \in Nat

\* A corpus is finitely many files; the dates of a document are days or none.
ASSUME CorporaAssumption ==
    /\ IsFiniteSet(Paths)
    /\ \A c \in Corpora : \A p \in DOMAIN c :
        p \in Paths /\ c[p].id \in Ids /\ {c[p].from, c[p].until} \subseteq Nat \cup {Nil}

VARIABLES
    trunk,          \* origin: the commits, each [files, ledger]
    checkout,       \* the commit the main checkout is at
    day,            \* today
    up,             \* the server runs
    rpc,            \* where the pull loop is
    db,             \* the build in place of the index file
    buildStatus,    \* ServerState.last_index_build_status
    maint,          \* Index.maintenance_state
    healthCache,    \* Index._health_cache: [at, commit], or Nil
    vectorCache,    \* Index._vector_cache: [key, of], or Nil
    missed,         \* history: a refresh died after its fast-forward
    faults

indexVars == <<trunk, checkout, day, up, rpc, db, buildStatus, maint,
               healthCache, vectorCache, missed, faults>>
cacheVars == <<healthCache, vectorCache>>

----------------------------------------------------------------------------
(* Documents.                                                                *)

IN_FORCE_STATUSES == {"active", "accepted", "approved"}
RETIRED_STATUSES == {"superseded", "deprecated", "rejected"}

is_expired(f, today) == f.until # Nil /\ f.until < today
is_upcoming(f, today) == f.from # Nil /\ today < f.from

\* The status a document is indexed with.
IndexedStatus(f) ==
    IF Autofill /\ f.status = "" /\ ~f.reserved THEN "active" ELSE f.status

is_in_force(f, today) ==
    /\ ~f.inbox
    /\ IndexedStatus(f) \in IN_FORCE_STATUSES
    /\ ~is_expired(f, today) /\ ~is_upcoming(f, today)

Corpus(b) == trunk[b].files

IdsOf(b) == {Corpus(b)[p].id : p \in DOMAIN Corpus(b)}
Doc(b, i) == Corpus(b)[CHOOSE p \in DOMAIN Corpus(b) : Corpus(b)[p].id = i]

\* What a build refuses: two files with one id.
DuplicateIds(b) ==
    \E p, q \in DOMAIN Corpus(b) : p # q /\ Corpus(b)[p].id = Corpus(b)[q].id

\* The edges table: one row per declared relationship, both ends documents.
Edges(b, rel) ==
    {e \in IdsOf(b) \X IdsOf(b) : e[2] \in Doc(b, e[1])[rel]}

\* Out of force by the supersession graph: superseded by a document in force.
graph_excluded_ids(b, today) ==
    {e[2] : e \in {x \in Edges(b, "supersedes") : is_in_force(Doc(b, x[1]), today)}}

\* The full predicate, of the filter and of the in_force field of a response.
Governs(b, i, today) ==
    /\ i \in IdsOf(b)
    /\ is_in_force(Doc(b, i), today)
    /\ i \notin graph_excluded_ids(b, today)

superseded_by(b, i) ==
    {e[2] : e \in {x \in Edges(b, "superseded_by") : x[1] = i}}
        \cup {e[1] : e \in {x \in Edges(b, "supersedes") : x[2] = i}}

is_retired(b, i, today) ==
    \/ i \in graph_excluded_ids(b, today)
    \/ IndexedStatus(Doc(b, i)) \in RETIRED_STATUSES
    \/ is_expired(Doc(b, i), today)

\* What health says of the process: its last build failed.
degraded == buildStatus # "ok"

\* What is wrong with the documents of build b, as of today.
MaintenanceState(b, today) ==
    LET until(p) == Corpus(b)[p].until
        paths == DOMAIN Corpus(b)
    IN  [missing |-> {p \in paths : Corpus(b)[p].status = "" /\ ~Corpus(b)[p].reserved},
         expired |-> {p \in paths : is_expired(Corpus(b)[p], today)
                                        /\ today <= until(p) + RecentDays},
         soon    |-> {p \in paths : until(p) # Nil /\ ~is_expired(Corpus(b)[p], today)
                                        /\ until(p) <= today + SoonDays}]

----------------------------------------------------------------------------
(* The pull loop.                                                            *)

Init ==
    /\ trunk \in {<<[files |-> c, ledger |-> Nil]>> : c \in Corpora}
    /\ ~DuplicateIds(1)
    /\ checkout = 1 /\ db = 1 /\ day = 1
    /\ up = TRUE /\ rpc = "idle" /\ buildStatus = "ok"
    /\ maint = MaintenanceState(1, 1)
    /\ healthCache = Nil /\ vectorCache = Nil
    /\ missed = FALSE /\ faults = 0

Fault == faults < MaxFaults /\ faults' = faults + 1

\* What a tick does after its refresh, whatever came of that: the ledger.
AfterRefresh == rpc' = IF Writable THEN "ledger" ELSE "idle"

\* Another clone pushes documents to the trunk.
PushTrunk ==
    /\ Cardinality({n \in 2..Len(trunk) : Corpus(n) # Corpus(n - 1)}) < MaxTrunk - 1
    /\ \E c \in Corpora \ {Corpus(Len(trunk))} :
           trunk' = Append(trunk, [files |-> c, ledger |-> trunk[Len(trunk)].ledger])
    /\ UNCHANGED <<checkout, day, up, rpc, db, buildStatus, maint, cacheVars, missed, faults>>

NextDay ==
    /\ day < MaxDay /\ day' = day + 1
    /\ UNCHANGED <<trunk, checkout, up, rpc, db, buildStatus, maint, cacheVars, missed, faults>>

\* Mutant of FastForward: after a failed build the loop waits for an operator.
FastForwardUnlessFailed ==
    /\ up /\ rpc = "idle" /\ checkout < Len(trunk) /\ buildStatus = "ok"
    /\ checkout' = Len(trunk) /\ rpc' = "build"
    /\ UNCHANGED <<trunk, day, up, db, buildStatus, maint, cacheVars, missed, faults>>

\* Fetch and fast-forward moved the checkout: a rebuild follows. Without a move
\* nothing is built, whatever became of the build before.
FastForward ==
    /\ up /\ rpc = "idle" /\ checkout < Len(trunk)
    /\ checkout' = Len(trunk) /\ rpc' = "build"
    /\ UNCHANGED <<trunk, day, up, db, buildStatus, maint, cacheVars, missed, faults>>

NoChange ==
    /\ up /\ rpc = "idle" /\ checkout = Len(trunk) /\ Writable
    /\ AfterRefresh
    /\ UNCHANGED <<trunk, checkout, day, up, db, buildStatus, maint, cacheVars, missed, faults>>

\* The merge, or the rev-parse behind it, is cut off at its timeout although it
\* landed: the tick is given up, and the next one sees nothing to do.
FastForwardCutOff ==
    /\ up /\ rpc = "idle" /\ checkout < Len(trunk) /\ Fault
    /\ checkout' = Len(trunk) /\ missed' = TRUE
    /\ UNCHANGED <<trunk, day, up, rpc, db, buildStatus, maint, cacheVars>>

\* The build was made in a temporary file, checked, and takes the index's place.
Swap ==
    /\ up /\ rpc = "build" /\ ~DuplicateIds(checkout)
    /\ db' = checkout /\ rpc' = "publish"
    /\ UNCHANGED <<trunk, checkout, day, up, buildStatus, maint, cacheVars, missed, faults>>

\* The build fails (duplicate ids, disk, the integrity check): the index stays.
BuildFails ==
    /\ up /\ rpc = "build"
    /\ IF DuplicateIds(checkout) THEN UNCHANGED faults ELSE Fault
    /\ AfterRefresh /\ buildStatus' = "failed"
    /\ UNCHANGED <<trunk, checkout, day, up, db, maint, cacheVars, missed>>

\* What build() does after the swap, and the loop with its outcome.
Publish ==
    /\ up /\ rpc = "publish"
    /\ maint' = MaintenanceState(db, day)
    /\ healthCache' = Nil
    /\ AfterRefresh /\ buildStatus' = "ok" /\ missed' = FALSE
    /\ UNCHANGED <<trunk, checkout, day, up, db, vectorCache, faults>>

\* The process dies with its memory.
Crash ==
    /\ up /\ Fault
    /\ up' = FALSE /\ rpc' = "idle"
    /\ maint' = Nil /\ healthCache' = Nil /\ vectorCache' = Nil
    /\ UNCHANGED <<trunk, checkout, day, db, buildStatus, missed>>

\* Start-up builds from the checkout as it is, before any pull; a build that
\* fails ends the process.
Restart ==
    /\ ~up /\ ~DuplicateIds(checkout)
    /\ up' = TRUE /\ db' = checkout
    /\ maint' = MaintenanceState(checkout, day)
    /\ buildStatus' = "ok" /\ missed' = FALSE
    /\ UNCHANGED <<trunk, checkout, day, rpc, cacheVars, faults>>

IndexNext ==
    \/ PushTrunk \/ NextDay
    \/ FastForward \/ NoChange \/ FastForwardCutOff \/ Swap \/ BuildFails \/ Publish
    \/ Crash \/ Restart

----------------------------------------------------------------------------
(* Properties.                                                               *)

LedgerState == [missing : SUBSET Paths, expired : SUBSET Paths, soon : SUBSET Paths]

IndexTypeOK ==
    /\ trunk \in Seq([files : Corpora, ledger : LedgerState \cup {Nil}]) /\ trunk # <<>>
    /\ checkout \in 1..Len(trunk) /\ db \in 1..checkout
    /\ day \in 1..MaxDay
    /\ up \in BOOLEAN /\ missed \in BOOLEAN
    /\ rpc \in {"idle", "build", "publish", "ledger"}
    /\ buildStatus \in {"ok", "failed"}
    /\ maint \in LedgerState \cup {Nil}
    /\ healthCache \in [at : 1..Len(trunk), commit : 1..Len(trunk)] \cup {Nil}
    /\ vectorCache \in [key : 1..Len(trunk), of : 1..Len(trunk)] \cup {Nil}
    /\ faults \in 0..MaxFaults

\* The last commit of a trunk that comes to rest is served in the end, unless
\* its build failed and the server says so, its tick was cut off, or the server
\* was restarted on a checkout that does not build, from which only an operator
\* recovers: start-up builds before it pulls.
TrunkServed ==
    []<>(\/ up /\ db = Len(trunk)
         \/ up /\ checkout = Len(trunk) /\ (missed \/ degraded)
         \/ ~up /\ DuplicateIds(checkout))
=============================================================================
