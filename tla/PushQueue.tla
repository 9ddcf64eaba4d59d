------------------------------- MODULE PushQueue -------------------------------
(***************************************************************************)
(* Publication: the commits of the session worktrees, the durable queue of *)
(* commits awaiting `git push` (src/src/data_olympus/push_queue.py), the   *)
(* push loop that drains it (refresh.py), its non-fast-forward recovery    *)
(* and the rebase it shares with every write (git_ops.py, tools_write.py), *)
(* the demotion of a commit that cannot be published to a pending          *)
(* proposal, and the startup recovery of commits nothing queued.           *)
(*                                                                         *)
(* A commit is identified by its whole history, as a sha is: a history is  *)
(* the sequence of changes it contains, so a rebase gives the same change  *)
(* a new identity, and "fast-forward" is IsPrefix.                         *)
(*                                                                         *)
(* A change touches one file, and two changes of a file conflict.  The write *)
(* serializer is held by the writer outside "idle" and "down" and by the   *)
(* drain in "rebase"; `git push` runs without it.                          *)
(*                                                                         *)
(* Abstracted: the claims of the pending queue (module PendingClaims; here *)
(* a demoted entry is open until it is decided, and of a claim left        *)
(* uncertain there is only what it names, because it defers every rebase   *)
(* there), the worktree GC, which removes only worktrees whose commits are *)
(* all published, and file contents.                                       *)
(***************************************************************************)
EXTENDS SequencesExt

CONSTANTS
    Writes,       \* changes agents commit, each once
    Foreign,      \* changes other clones push to the trunk
    Approval,     \* the change an approval of a demoted write commits
    Sessions,     \* session worktrees, each on its kb-session/<safe_id> branch
    PushConflict, \* the session a demotion without metadata is attributed to
    SessionOf,    \* the session of each write
    Paths,        \* files
    PathOf,       \* the file each change touches
    MaxAttempts,  \* push_retry_loop's max_attempts
    DemoteAfter,  \* drain's non_ff_demote_after
    MaxFaults,    \* bound: crashes, deferrals and failures in a behaviour
    Nil

Approvals == {Approval[w] : w \in Writes}

Changes == Writes \cup Approvals \cup Foreign

Histories == Seq(Changes)

ASSUME ConstantsAssumption ==
    /\ Writes \cap Foreign = {}
    /\ Approvals \cap (Writes \cup Foreign) = {}
    /\ \A v, w \in Writes : Approval[v] = Approval[w] => v = w
    /\ PushConflict \in Sessions
    /\ SessionOf \in [Writes -> Sessions]
    /\ PathOf \in [Changes -> Paths]
    /\ MaxAttempts \in Nat \ {0}
    /\ DemoteAfter \in Nat \ {0}
    /\ MaxFaults \in Nat

VARIABLES
    trunk,     \* the history of the trunk on origin
    tracking,  \* origin/<branch> in the shared clone
    branch,    \* the branch of each session
    head,      \* HEAD of each session's worktree
    replay,    \* the rebase each worktree is in the middle of
    queue,     \* <sha>.json: the entry of each queued commit
    pending,   \* open pending entries made by demotions
    held,      \* what the claims of uncertain outcome name: sessions' branches, or Nil
               \* for "HEAD", the name a detached one has
    dpc,       \* where the drain is
    current,   \* the sha it works on
    entry,     \* the entry as it read it
    pushing,   \* HEAD as its `git push` resolved it
    failure,   \* what made it give up on the entry
    wpc,       \* where the writer inside the serializer is
    job,       \* what it writes
    used,      \* changes made so far
    faults,    \* faults so far
    committed, \* history: the changes committed on a session branch
    orphaned,  \* history: committed, but its enqueue never landed
    declined,  \* history: writes an operator rejected or dropped
    torn       \* history: sessions whose rebase was cut short or pushed half-done

git == <<trunk, tracking, branch, head, replay>>
drain == <<dpc, current, entry, pushing, failure>>
writer == <<wpc, job, used>>
history == <<committed, orphaned, declined, torn>>
vars == <<git, queue, pending, held, drain, writer, faults, history>>

Entry == [session : Sessions, known : BOOLEAN, attempts : Nat, nff : Nat, frozen : BOOLEAN]

Demoted == [sha : Histories, known : BOOLEAN]

Job == [change : Changes, session : Sessions, cas : BOOLEAN, fresh : BOOLEAN,
        for : Demoted \cup {Nil}]

Replay == [state : {"none", "clean", "conflict"}, to : Histories]

ASSUME NilAssumption == Nil \notin Changes \cup Entry \cup Demoted \cup Job

TypeOK ==
    /\ trunk \in Histories
    /\ tracking \in Histories
    /\ branch \in [Sessions -> Histories]
    /\ head \in [Sessions -> Histories]
    /\ replay \in [Sessions -> Replay]
    /\ DOMAIN queue \subseteq Histories \ {<<>>}
    /\ \A sha \in DOMAIN queue : queue[sha] \in Entry
    /\ pending \subseteq Demoted
    /\ held \subseteq Sessions \cup {Nil}
    /\ dpc \in {"idle", "down", "push", "refresh", "rebase", "resolve", "push_again",
                "demote", "remove", "retry"}
    /\ current \in Histories
    /\ entry \in Entry \cup {Nil}
    /\ pushing \in Histories
    /\ failure \in {"none", "conflict", "contention", "other"}
    /\ wpc \in {"idle", "down", "refresh", "rebase", "gates", "enqueue"}
    /\ job \in Job \cup {Nil}
    /\ used \subseteq Changes
    /\ faults \in Nat
    /\ committed \subseteq Changes
    /\ orphaned \subseteq Changes
    /\ declined \subseteq Changes
    /\ torn \subseteq Sessions

NoReplay == [state |-> "none", to |-> <<>>]

Init ==
    /\ trunk = <<>>
    /\ tracking = <<>>
    /\ branch = [s \in Sessions |-> <<>>]
    /\ head = [s \in Sessions |-> <<>>]
    /\ replay = [s \in Sessions |-> NoReplay]
    /\ queue = <<>>
    /\ pending = {}
    /\ held = {}
    /\ dpc = "idle"
    /\ current = <<>>
    /\ entry = Nil
    /\ pushing = <<>>
    /\ failure = "none"
    /\ wpc = "idle"
    /\ job = Nil
    /\ used = {}
    /\ faults = 0
    /\ committed = {}
    /\ orphaned = {}
    /\ declined = {}
    /\ torn = {}

-----------------------------------------------------------------------------
(* Git.                                                                    *)

\* The content a change carries: an approval re-applies the demoted write.
Content(x) == IF x \in Approvals THEN CHOOSE w \in Writes : Approval[w] = x ELSE x

\* The content of a file at a commit.
ContentAt(h, p) ==
    LET i == SelectLastInSeq(h, LAMBDA x : p = PathOf[x])
    IN  IF i = 0 THEN Nil ELSE Content(h[i])

\* What h has that u does not.
Since(u, h) ==
    LET fork == LongestCommonPrefix({u, h}) IN SubSeq(h, Len(fork) + 1, Len(h))

\* The changes a rebase of h onto u replays: those whose content upstream does
\* not already carry.
ToReplay(u, h) ==
    LET since == Since(u, h)
        picks[n \in 0..Len(since)] ==
            IF n = 0 THEN <<>>
            ELSE IF \A y \in ToSet(Since(h, u)) : Content(y) # Content(since[n])
            THEN Append(picks[n - 1], since[n])
            ELSE picks[n - 1]
    IN  picks[Len(since)]

\* Replaying x meets an upstream change of the same file.
Conflicts(x, u, h) == \E y \in ToSet(Since(h, u)) : PathOf[x] = PathOf[y]

\* `git rebase` moves HEAD to the upstream commit and replays one change after
\* the other; the branch follows only at the end.  HEAD is seen anywhere before
\* the first conflict.  A branch that contains upstream is left alone.
StartRebase(s, upstream) ==
    LET picks == ToReplay(upstream, head[s])
        clean == \A x \in ToSet(picks) : ~Conflicts(x, upstream, head[s])
    IN  IF IsPrefix(upstream, head[s])
        THEN /\ replay' = [replay EXCEPT ![s] = [state |-> "clean", to |-> head[s]]]
             /\ UNCHANGED head
        ELSE \E done \in Prefixes(picks) :
                /\ \A x \in ToSet(done) : ~Conflicts(x, upstream, head[s])
                /\ head' = [head EXCEPT ![s] = upstream \o done]
                /\ replay' = [replay EXCEPT ![s] =
                        [state |-> IF clean THEN "clean" ELSE "conflict",
                         to    |-> upstream \o picks]]

\* The rebase is done: HEAD and the branch are the rebased commits.
FinishRebase(s) ==
    /\ replay[s].state = "clean"
    /\ head' = [head EXCEPT ![s] = replay[s].to]
    /\ branch' = [branch EXCEPT ![s] = replay[s].to]
    /\ replay' = [replay EXCEPT ![s] = NoReplay]

\* `git rebase --abort`
AbortRebase(s) ==
    /\ head' = [head EXCEPT ![s] = branch[s]]
    /\ replay' = [replay EXCEPT ![s] = NoReplay]

\* What a push of history h does when it reaches origin.
Accepted(h) == IsPrefix(trunk, h)

\* The entries of the queue with one more, and with one less.
With(sha, e) == [h \in DOMAIN queue \cup {sha} |-> IF h = sha THEN e ELSE queue[h]]

Without(sha) == [h \in DOMAIN queue \ {sha} |-> queue[h]]

NewEntry(s, known) ==
    [session |-> s, known |-> known, attempts |-> 0, nff |-> 0, frozen |-> FALSE]

Serializing == wpc \notin {"idle", "down"} \/ dpc = "rebase"

UpTo(n, limit) == IF n <= limit THEN n ELSE limit

Fault == faults < MaxFaults /\ faults' = faults + 1

NoFault == UNCHANGED faults

\* _defer_if_claims_at_risk: a claim names what HEAD of the session's worktree is on.
Held(s) == (IF replay[s].state = "none" THEN s ELSE Nil) \in held

\* A resolve under way has claimed its entry.
Claimed(e) == IF job = Nil THEN FALSE ELSE job.for = e

\* A path is locked while a demoted entry for it is open.
Locked(p) == \E e \in pending : PathOf[Last(e.sha)] = p

-----------------------------------------------------------------------------
(* PushQueue.drain, one entry at a time, and push_with_rebase_recovery.    *)

\* The entry file is read and `git push` of its worktree's HEAD started; frozen
\* entries are skipped.
PushStart(sha) ==
    /\ dpc = "idle"
    /\ sha \in DOMAIN queue
    /\ ~queue[sha].frozen
    /\ current' = sha
    /\ entry' = queue[sha]
    /\ pushing' = head[queue[sha].session]
    /\ torn' = IF replay[queue[sha].session].state # "none"
               THEN torn \cup {queue[sha].session} ELSE torn
    /\ dpc' = "push"
    /\ UNCHANGED <<git, queue, pending, held, failure, writer, faults, committed, orphaned,
                   declined>>

\* The push, first or repeated, is accepted (or changes nothing): the tracking
\* ref follows and the entry is removed.
PushAccepted ==
    /\ dpc \in {"push", "push_again"}
    /\ Accepted(pushing)
    /\ trunk' = pushing
    /\ tracking' = pushing
    /\ pushing' = <<>>
    /\ dpc' = "remove"
    /\ UNCHANGED <<branch, head, replay, queue, pending, held, current, entry, failure, writer,
                   faults, history>>

\* The first push is not a fast-forward: refresh_base.
PushRejected ==
    /\ dpc = "push"
    /\ ~Accepted(pushing)
    /\ pushing' = <<>>
    /\ dpc' = "refresh"
    /\ UNCHANGED <<git, queue, pending, held, current, entry, failure, writer, faults, history>>

\* The drain turns to the next entry.
NextEntry ==
    /\ dpc' = "idle"
    /\ current' = <<>>
    /\ entry' = Nil
    /\ pushing' = <<>>
    /\ failure' = "none"

\* The drain gives up on the entry for now.
Fail(kind) == failure' = kind /\ dpc' = "retry"

\* NonFastForwardError: the trunk moved again.  The streak is counted in the
\* entry read before, and demotes it once it is long enough.
Contention ==
    /\ dpc = "push_again"
    /\ ~Accepted(pushing)
    /\ entry' = [entry EXCEPT !.nff = UpTo(@ + 1, DemoteAfter)]
    /\ failure' = "contention"
    /\ dpc' = IF entry.nff + 1 >= DemoteAfter THEN "demote" ELSE "retry"
    /\ pushing' = <<>>
    /\ UNCHANGED <<git, queue, pending, held, current, writer, faults, history>>

\* Network, authentication or a timeout; the last may come after the push landed.
PushFails ==
    /\ dpc \in {"push", "push_again"}
    /\ Fault
    /\ Fail("other")
    /\ (Accepted(pushing) /\ trunk' = pushing) \/ UNCHANGED trunk
    /\ pushing' = <<>>
    /\ UNCHANGED <<tracking, branch, head, replay, queue, pending, held, current, entry, writer,
                   history>>

\* ClaimEvidenceAtRiskError, because of a claim, or of a record or a ref that cannot
\* be read: the entry is left exactly as it is.
RefreshDeferred ==
    /\ dpc = "refresh"
    /\ ~Serializing
    /\ (Held(entry.session) /\ NoFault) \/ Fault
    /\ NextEntry
    /\ UNCHANGED <<git, queue, pending, held, writer, history>>

RefreshFetchFails ==
    /\ dpc = "refresh"
    /\ ~Serializing /\ ~Held(entry.session)
    /\ Fault
    /\ Fail("other")
    /\ UNCHANGED <<git, queue, pending, held, current, entry, pushing, writer, history>>


\* RebaseConflictError: the rebase is undone and the entry goes to the operator.
RebaseConflicted ==
    /\ AbortRebase(entry.session)
    /\ failure' = "conflict"
    /\ dpc' = "demote"
    /\ UNCHANGED branch

\* The fetch, and the start of the rebase.  A rebase cut short earlier makes
\* this one fail at once, and its abort takes the worktree back.
RefreshFetch ==
    /\ dpc = "refresh"
    /\ ~Serializing /\ ~Held(entry.session)
    /\ tracking' = trunk
    /\ IF replay[entry.session].state # "none"
       THEN RebaseConflicted
       ELSE StartRebase(entry.session, trunk) /\ dpc' = "rebase" /\ UNCHANGED <<branch, failure>>
    /\ UNCHANGED <<trunk, queue, pending, held, current, entry, pushing, writer, faults, history>>

RebaseEnds ==
    /\ dpc = "rebase"
    /\ \/ FinishRebase(entry.session) /\ dpc' = "resolve" /\ UNCHANGED failure
       \/ replay[entry.session].state = "conflict" /\ RebaseConflicted
    /\ UNCHANGED <<trunk, tracking, queue, pending, held, current, entry, pushing, writer, faults,
                   history>>

\* The rebase is killed at its timeout: nothing aborts it.
RebaseKilled ==
    /\ dpc = "rebase"
    /\ Fault
    /\ torn' = torn \cup {entry.session}
    /\ Fail("other")
    /\ UNCHANGED <<git, queue, pending, held, current, entry, pushing, writer, committed, orphaned,
                   declined>>

\* The repeated push resolves HEAD; the serializer is free again.
PushAgain ==
    /\ dpc = "resolve"
    /\ pushing' = head[entry.session]
    /\ torn' = IF replay[entry.session].state # "none" THEN torn \cup {entry.session} ELSE torn
    /\ dpc' = "push_again"
    /\ UNCHANGED <<git, queue, pending, held, current, entry, failure, writer, faults, committed,
                   orphaned, declined>>

\* demote_conflict_to_pending: the postimage is parked as a pending entry based
\* on the commit's parent.
Demote ==
    /\ dpc = "demote"
    /\ ~Serializing
    /\ ~Locked(PathOf[Last(current)])
    /\ pending' = pending \cup {[sha |-> current, known |-> entry.known]}
    /\ dpc' = "remove"
    /\ UNCHANGED <<git, queue, held, current, entry, pushing, failure, writer, faults, history>>

\* Mutant of DemoteFails: the entry is removed although nothing was parked.
DemoteDropped ==
    /\ dpc = "demote"
    /\ ~Serializing
    /\ \/ Locked(PathOf[Last(current)]) /\ UNCHANGED faults
       \/ Fault
    /\ dpc' = "remove"
    /\ UNCHANGED <<git, queue, pending, held, current, entry, pushing, failure, writer, history>>

\* The path is locked, the pending queue full, or the commit unreadable.
DemoteFails ==
    /\ dpc = "demote"
    /\ ~Serializing
    /\ \/ Locked(PathOf[Last(current)]) /\ UNCHANGED faults
       \/ Fault
    /\ dpc' = "retry"
    /\ UNCHANGED <<git, queue, pending, held, current, entry, pushing, failure, writer, history>>

\* The entry file is removed.
RemoveEntry ==
    /\ dpc = "remove"
    /\ queue' = Without(current)
    /\ NextEntry
    /\ UNCHANGED <<git, pending, held, writer, faults, history>>

\* _record_retry: the entry read before is written back with one more attempt.
\* A rebase conflict never freezes it.  Both counters stop where the code only
\* asks whether they have reached their limit.
Retried ==
    [entry EXCEPT
        !.attempts = UpTo(@ + 1, MaxAttempts),
        !.nff = IF failure = "contention" THEN @ ELSE 0,
        !.frozen = failure # "conflict" /\ entry.attempts + 1 >= MaxAttempts]

RecordRetry ==
    /\ dpc = "retry"
    /\ queue' = With(current, Retried)
    /\ NextEntry
    /\ UNCHANGED <<git, pending, held, writer, faults, history>>

\* Removing or rewriting the entry file fails: the pass ends, the file stays.
EntryFileFails ==
    /\ dpc \in {"remove", "retry"}
    /\ Fault
    /\ NextEntry
    /\ UNCHANGED <<git, queue, pending, held, writer, history>>

-----------------------------------------------------------------------------
(* _commit_in_worktree: an agent's auto-commit, or an operator's approval  *)
(* of a demoted entry, on a session's worktree.                            *)

\* An auto-commit, with or without an enforceable base marker.
Write(w, cas) ==
    /\ wpc = "idle"
    /\ ~Serializing
    /\ w \notin used
    /\ ~Locked(PathOf[w])                       \* else PathLockBusyError
    /\ used' = used \cup {w}
    /\ job' = [change |-> w, session |-> SessionOf[w], cas |-> cas, fresh |-> TRUE, for |-> Nil]
    /\ wpc' = "refresh"
    /\ UNCHANGED <<git, queue, pending, held, drain, faults, history>>

\* The session a demoted entry is attributed to.
SessionFor(e) == IF e.known THEN SessionOf[Content(Last(e.sha))] ELSE PushConflict

\* kb_resolve_pending_fn: the base marker is the parent of the demoted commit.
Approve(e) ==
    /\ wpc = "idle"
    /\ ~Serializing
    /\ e \in pending
    /\ job' = [change |-> Approval[Content(Last(e.sha))], session |-> SessionFor(e),
               cas |-> TRUE, fresh |-> TRUE, for |-> e]
    /\ wpc' = "refresh"
    /\ UNCHANGED <<git, queue, pending, held, drain, used, faults, history>>

\* refresh_base failed, or was deferred: the write goes on with what the worktree has.
NotRefreshed == job' = [job EXCEPT !.fresh = FALSE] /\ wpc' = "gates"

WriterRefreshFails ==
    /\ wpc = "refresh"
    /\ (Held(job.session) /\ NoFault) \/ Fault
    /\ NotRefreshed
    /\ UNCHANGED <<git, queue, pending, held, drain, used, history>>

WriterFetch ==
    /\ wpc = "refresh"
    /\ ~Held(job.session)
    /\ tracking' = trunk
    /\ IF replay[job.session].state # "none"
       THEN AbortRebase(job.session) /\ NotRefreshed /\ UNCHANGED branch
       ELSE StartRebase(job.session, trunk) /\ wpc' = "rebase" /\ UNCHANGED <<branch, job>>
    /\ UNCHANGED <<trunk, queue, pending, held, drain, used, faults, history>>

WriterRebaseEnds ==
    /\ wpc = "rebase"
    /\ \/ FinishRebase(job.session) /\ wpc' = "gates" /\ UNCHANGED job
       \/ /\ replay[job.session].state = "conflict"
          /\ AbortRebase(job.session)
          /\ NotRefreshed
          /\ UNCHANGED branch
    /\ UNCHANGED <<trunk, tracking, queue, pending, held, drain, used, faults, history>>

WriterRebaseKilled ==
    /\ wpc = "rebase"
    /\ Fault
    /\ torn' = torn \cup {job.session}
    /\ NotRefreshed
    /\ UNCHANGED <<git, queue, pending, held, drain, used, committed, orphaned, declined>>

\* check_cas for a demoted entry: the file is no longer what it was at the
\* parent of the demoted commit, or the base could not be refreshed.
StaleBase ==
    \/ ~job.fresh
    \/ ContentAt(head[job.session], PathOf[job.change])
         # ContentAt(Front(job.for.sha), PathOf[job.change])

\* The file of the write already has its content: git has nothing to commit.
NothingToCommit ==
    ContentAt(head[job.session], PathOf[job.change]) = Content(job.change)

Return == wpc' = "idle" /\ job' = Nil

\* rejected_stale_base of an approval: the entry is restored.
ApprovalStale ==
    /\ wpc = "gates"
    /\ job.for # Nil
    /\ StaleBase
    /\ Return
    /\ UNCHANGED <<git, queue, pending, held, drain, used, faults, history>>

\* Any other gate, or git, declines; an auto-commit's own base marker may be
\* stale, and is when the base could not be refreshed.
WriteDeclined ==
    /\ wpc = "gates"
    /\ Return
    /\ UNCHANGED <<git, queue, pending, held, drain, used, faults, history>>

\* The commit is made on HEAD; an approval consumes its entry with it.
GitCommit ==
    LET s == job.session
        c == Append(head[s], job.change)
    IN  /\ wpc = "gates"
        /\ job.cas => job.fresh
        /\ job.for # Nil => ~StaleBase
        /\ ~NothingToCommit
        /\ head' = [head EXCEPT ![s] = c]
        /\ branch' = IF replay[s].state = "none" THEN [branch EXCEPT ![s] = c] ELSE branch
        /\ pending' = pending \ {job.for}
        /\ used' = used \cup {job.change}
        /\ committed' = committed \cup {job.change}
        /\ orphaned' = orphaned \cup {job.change}
        /\ wpc' = "enqueue"
        /\ UNCHANGED <<trunk, tracking, replay, queue, held, drain, job, faults, declined, torn>>

\* PushQueue.enqueue by _enqueue_after_commit; a resolve passes no metadata.
Enqueue ==
    /\ wpc = "enqueue"
    /\ queue' = With(head[job.session], NewEntry(job.session, job.for = Nil))
    /\ orphaned' = orphaned \ {job.change}
    /\ Return
    /\ UNCHANGED <<git, pending, held, drain, used, faults, committed, declined, torn>>

\* Both tries fail: "enqueue_failed_recovery_pending".
EnqueueFails ==
    /\ wpc = "enqueue"
    /\ Fault
    /\ Return
    /\ UNCHANGED <<git, queue, pending, held, drain, used, history>>

-----------------------------------------------------------------------------
(* Everyone else.                                                          *)

\* Another clone pushes to the trunk.
ForeignPush(f) ==
    /\ f \notin used
    /\ used' = used \cup {f}
    /\ trunk' = Append(trunk, f)
    /\ UNCHANGED <<tracking, branch, head, replay, queue, pending, held, drain, wpc, job, faults,
                   history>>

\* git_pull_loop: the clone's tracking ref follows the trunk.
Pull ==
    /\ tracking # trunk
    /\ tracking' = trunk
    /\ UNCHANGED <<trunk, branch, head, replay, queue, pending, held, drain, writer, faults,
                   history>>

\* A resolve on the session's worktree ends, in an error or with the process, without
\* a record of its outcome: its claim is uncertain.
ClaimLeft(s) ==
    /\ ~Serializing
    /\ Fault
    /\ held' = held \cup {IF replay[s].state = "none" THEN s ELSE Nil}
    /\ UNCHANGED <<git, queue, pending, drain, writer, history>>

\* The last claim that names it is closed: reconcile_claims found the commit, or the
\* operator removed the files.
ClaimClosed(name) ==
    /\ held' = held \ {name}
    /\ UNCHANGED <<git, queue, pending, drain, writer, faults, history>>

\* The operator rejects a demoted entry "to abandon it".
RejectDemoted(e) ==
    /\ e \in pending
    /\ ~Claimed(e)
    /\ pending' = pending \ {e}
    /\ declined' = declined \cup {Content(Last(e.sha))}
    /\ UNCHANGED <<git, queue, held, drain, writer, faults, committed, orphaned, torn>>

\* The operator edits a frozen entry's file: requeue, or drop.
Requeue(sha) ==
    /\ sha \in DOMAIN queue
    /\ queue[sha].frozen
    /\ queue' = [queue EXCEPT ![sha].frozen = FALSE, ![sha].attempts = 0]
    /\ UNCHANGED <<git, pending, held, drain, writer, faults, history>>

Drop(sha) ==
    /\ sha \in DOMAIN queue
    /\ queue[sha].frozen
    /\ queue' = Without(sha)
    /\ declined' = declined \cup {Content(Last(sha))}
    /\ UNCHANGED <<git, pending, held, drain, writer, faults, committed, orphaned, torn>>

\* The process dies.  A push under way may still land, and a rebase under way
\* stays as it is.
Crash ==
    /\ dpc # "down"
    /\ Fault
    /\ dpc' = "down"
    /\ wpc' = "down"
    /\ job' = Nil
    /\ \/ dpc \in {"push", "push_again"} /\ Accepted(pushing) /\ trunk' = pushing
       \/ UNCHANGED trunk
    /\ current' = <<>>
    /\ entry' = Nil
    /\ pushing' = <<>>
    /\ failure' = "none"
    /\ torn' = torn \cup {s \in Sessions : replay[s].state # "none"}
    /\ UNCHANGED <<tracking, branch, head, replay, queue, pending, held, used, committed, orphaned,
                   declined>>

\* list_unpushed_shas: the commits of a worktree's HEAD the upstream lacks.
Unpushed(s) == {c \in Prefixes(head[s]) : ~IsPrefix(c, tracking)}

\* init_recovery: every unpublished commit without an entry gets one.
Recovered ==
    LET found == (UNION {Unpushed(s) : s \in Sessions}) \ DOMAIN queue
    IN  [c \in DOMAIN queue \cup found |->
            IF c \in found
            THEN NewEntry(CHOOSE s \in Sessions : c \in Unpushed(s), FALSE)
            ELSE queue[c]]

\* Startup, before the loops; a recovery that fails is logged and startup goes on.
Startup ==
    /\ dpc = "down"
    /\ dpc' = "idle"
    /\ wpc' = "idle"
    /\ \/ queue' = Recovered /\ orphaned' = {} /\ UNCHANGED faults
       \/ Fault /\ UNCHANGED <<queue, orphaned>>
    /\ UNCHANGED <<git, pending, held, current, entry, pushing, failure, job, used, committed,
                   declined, torn>>

-----------------------------------------------------------------------------
Draining ==
    \/ PushAccepted \/ PushRejected \/ Contention \/ PushFails
    \/ RefreshDeferred \/ RefreshFetchFails \/ RefreshFetch
    \/ RebaseEnds \/ RebaseKilled \/ PushAgain
    \/ Demote \/ DemoteFails \/ RemoveEntry \/ RecordRetry \/ EntryFileFails

Writing ==
    \/ WriterRefreshFails \/ WriterFetch \/ WriterRebaseEnds \/ WriterRebaseKilled
    \/ ApprovalStale \/ WriteDeclined \/ GitCommit \/ Enqueue \/ EnqueueFails

Operating ==
    \/ \E e \in pending : Approve(e) \/ RejectDemoted(e)
    \/ \E sha \in DOMAIN queue : Requeue(sha) \/ Drop(sha)

Next ==
    \/ \E sha \in DOMAIN queue : PushStart(sha)
    \/ \E w \in Writes, cas \in BOOLEAN : Write(w, cas)
    \/ Draining \/ Writing \/ Operating
    \/ \E f \in Foreign : ForeignPush(f)
    \/ \E s \in Sessions : ClaimLeft(s)
    \/ \E name \in held : ClaimClosed(name)
    \/ Pull \/ Crash \/ Startup

Spec == Init /\ [][Next]_vars

-----------------------------------------------------------------------------
(* Safety.                                                                 *)

Published(w) == \E x \in ToSet(trunk) : Content(x) = w

Queued(w) == \E sha \in DOMAIN queue : Content(Last(sha)) = w

Parked(w) == \E e \in pending : Content(Last(e.sha)) = w

\* A commit an interrupted writer left for the startup recovery, still where
\* that looks.
Recoverable(w) ==
    \E x \in orphaned, s \in Sessions :
        Content(x) = w /\ x \in ToSet(head[s]) \cup ToSet(branch[s])

\* docs/serving.md:525-526: "a commit that returns "committed" has a queue entry on
\* disk, and a background loop drains the queue with retry".  Every write that
\* was committed is published, queued, parked for the operator,
\* given up by the operator, or waits on its worktree for the startup recovery.
NoWriteForgotten ==
    \A w \in {Content(x) : x \in committed} :
        Published(w) \/ Queued(w) \/ Parked(w) \/ w \in declined \/ Recoverable(w)

\* What holds of it whatever goes wrong: a worktree whose rebase was neither cut
\* short nor pushed half-done loses no write.
NoWriteForgottenUnlessTorn == torn = {} => NoWriteForgotten

-----------------------------------------------------------------------------
(* Liveness.  The loops and the writer keep running, every entry's turn    *)
(* comes (drain visits the whole directory), whoever waits for the write   *)
(* serializer gets it, and faults and foreign pushes end.                  *)

Turn(w) ==
    \E sha \in DOMAIN queue : Content(Last(sha)) = w /\ PushStart(sha)

Fairness ==
    /\ SF_vars(Draining) /\ WF_vars(Writing \/ Startup)
    /\ \A w \in Writes : SF_vars(Turn(w))

FairSpec == Spec /\ Fairness

Frozen(w) == \E sha \in DOMAIN queue : Content(Last(sha)) = w /\ queue[sha].frozen

\* The queue has the write, and what it would have to rebase is held.
WaitsOnClaim(w) ==
    \E sha \in DOMAIN queue : Content(Last(sha)) = w /\ Held(queue[sha].session)

=============================================================================
