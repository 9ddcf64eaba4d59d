---------------------------- MODULE PendingClaims ----------------------------
(***************************************************************************)
(* The pending queue of data_olympus (src/src/data_olympus/pending.py) and *)
(* the write paths that go through it (tools_write.py): proposals are      *)
(* parked as <pid>.json under a per-path lock, an operator's resolve       *)
(* renames the entry to <pid>.claimed, commits it on the proposal's        *)
(* session branch and consumes the claim, and a background sweep           *)
(* reconciles the claims an interrupted resolve left behind.               *)
(*                                                                         *)
(* Every step that changes a file is an action of its own, so that a crash *)
(* or an I/O error can fall between any two of them.  The files survive a  *)
(* crash; the process-wide write serializer and the threads do not.  A     *)
(* rebase killed half-way leaves the HEAD of its worktree detached, and    *)
(* what is committed there is on no session branch.                        *)
(*                                                                         *)
(* Abstracted: the bytes of a proposal, clocks (Age makes a claim old      *)
(* enough for the sweep at any moment), the unserialized readers (list,    *)
(* size for reporting), the .restoring scratch and lock temp files, which  *)
(* no decision reads, and the push queue, which the commit path only adds  *)
(* to after everything modelled here has happened (module PushQueue).      *)
(***************************************************************************)
EXTENDS Naturals, FiniteSets

CONSTANTS
    Pids,       \* the ids enqueue draws (uuid4: never drawn twice)
    Autos,      \* auto-commit requests; one owns the lock it acquires
    Paths,      \* target paths
    Refs,       \* session branches kb-session/<safe_id>
    PathOf,     \* the target path of each proposal or auto-commit
    RefOf,      \* the session branch it is committed on
    Threads,    \* request threads and background loops
    None,       \* no holder, no claim, no job
    Cap,        \* KB_PENDING_QUEUE_CAP; 0 means no cap
    MaxClaims,  \* bound: claims made in a behaviour
    MaxFaults   \* bound: crashes and I/O errors in a behaviour

Writes == Pids \cup Autos

Outcomes == {"none", "unknown", "failed", "committed"}

\* The write context of a claim: not recorded yet, or with the ref that HEAD of
\* the worktree named, the session "branch" or, where it is detached, "HEAD"; a
\* "blank" one has no ref, or no sha, to search from.
Contexts == {"none", "branch", "HEAD", "blank"}

ClaimRecord == [tok : Nat, aged : BOOLEAN, ctx : Contexts, outcome : Outcomes]

ASSUME ConstantsAssumption ==
    /\ Pids \cap Autos = {}
    /\ None \notin Writes \cup Threads \cup ClaimRecord
    /\ PathOf \in [Writes -> Paths]
    /\ RefOf \in [Writes -> Refs]
    /\ Cap \in Nat
    /\ MaxClaims \in Nat
    /\ MaxFaults \in Nat

VARIABLES
    live,       \* pids with a <pid>.json file
    claim,      \* the <pid>.claimed record of each pid, or None
    lock,       \* the holder named by each path's lock file, or None
    commits,    \* commits made: the write they are for and its claim token
    onref,      \* the commits still found on their session branch
    onmain,     \* of those made on a detached HEAD, the ones pushed and pulled
    detached,   \* the session branches whose worktree has its HEAD elsewhere
    serializer, \* the thread inside the write serializer, or None
    pc,         \* where each thread is
    job,        \* the proposal or auto-commit a thread works on, or None
    token,      \* the claim token a resolver holds in memory
    todo,       \* claims the running reconciliation has still to look at
    cur,        \* the claim it is in the middle of
    clock,      \* the last claim token drawn (uuid4, numbered)
    drawn,      \* ids already used
    faults,     \* crashes and I/O errors so far
    rejected    \* history: the pids whose entry a reject consumed

files == <<live, claim, lock>>
repo == <<commits, onref, onmain, detached>>
threads == <<serializer, pc, job, token>>
sweeping == <<todo, cur>>
vars == <<files, repo, threads, sweeping, clock, drawn, faults, rejected>>

Commit == [id : Writes, tok : Nat]

\* Where a thread can be.  From "resolve_stamp" to "finish_lock" a resolver
\* runs kb_resolve_pending_fn; an auto-commit shares "sweep" to "record".
Locations ==
    {"idle", "down",
     "enqueue", "enqueue_write",
     "resolve_stamp", "claimed", "reject_stamp", "reject_claim", "reject_lock",
     "sweep", "sweep_lock", "sweep_remove", "guard",
     "gates", "context", "add", "commit", "record",
     "finish_claim", "finish_lock", "auto_done",
     "restore", "restore_remove"}

TypeOK ==
    /\ live \subseteq Pids
    /\ claim \in [Pids -> ClaimRecord \cup {None}]
    /\ lock \in [Paths -> Writes \cup {None}]
    /\ commits \subseteq Commit
    /\ onref \subseteq commits
    /\ onmain \subseteq commits
    /\ detached \subseteq Refs
    /\ serializer \in Threads \cup {None}
    /\ pc \in [Threads -> Locations]
    /\ job \in [Threads -> Writes \cup {None}]
    /\ token \in [Threads -> Nat]
    /\ todo \subseteq Pids
    /\ cur \in Pids \cup {None}
    /\ clock \in Nat
    /\ drawn \subseteq Writes
    /\ faults \in Nat
    /\ rejected \subseteq Pids

Init ==
    /\ live = {}
    /\ claim = [p \in Pids |-> None]
    /\ lock = [a \in Paths |-> None]
    /\ commits = {}
    /\ onref = {}
    /\ onmain = {}
    /\ detached = {}
    /\ serializer = None
    /\ pc = [t \in Threads |-> "idle"]
    /\ job = [t \in Threads |-> None]
    /\ token = [t \in Threads |-> 0]
    /\ todo = {}
    /\ cur = None
    /\ clock = 0
    /\ drawn = {}
    /\ faults = 0
    /\ rejected = {}

-----------------------------------------------------------------------------
(* Helpers.                                                                *)

Claimed == {p \in Pids : claim[p] # None}

\* A claim sidecar; it is unstamped right after os.rename(json, claimed).
Sidecar(tok, aged, ctx, outcome) ==
    [tok |-> tok, aged |-> aged, ctx |-> ctx, outcome |-> outcome]

Unstamped == Sidecar(0, TRUE, "none", "none")

\* _read_claim and _check_token: the sidecar exists and carries this token.
Owns(t) ==
    /\ claim[job[t]] # None
    /\ claim[job[t]].tok = token[t]

\* The lock files once the lock of p's path is deleted, if p is its holder.
ReleaseOwnedBy(p) ==
    [a \in Paths |-> IF a = PathOf[p] /\ lock[a] = p THEN None ELSE lock[a]]

\* The claim-linked commit: KB-Pending-Id = pid, after the pre-write sha.
CommitOf(p) == [id |-> p, tok |-> claim[p].tok]

\* GitOps.find_claim_commit, when the search completes.  It runs in the main
\* repository, whose own HEAD the recorded name "HEAD" is there.
find_claim_commit(p) ==
    \/ claim[p].ctx = "branch" /\ CommitOf(p) \in onref
    \/ claim[p].ctx = "HEAD" /\ CommitOf(p) \in onmain

\* PendingQueue.claims_at_risk of a session branch: claims that name it.
claims_at_risk(r) == {p \in Claimed : RefOf[p] = r /\ claim[p].ctx = "branch"}

\* The same of the name a detached HEAD has, whatever session made the claim.
headless_at_risk == {p \in Claimed : claim[p].ctx = "HEAD"}

Fault == faults < MaxFaults /\ faults' = faults + 1
NoFault == UNCHANGED faults

Goto(t, l) == pc' = [pc EXCEPT ![t] = l]

\* The thread returns or raises to its caller and gives up the serializer.
Leave(t) ==
    /\ Goto(t, "idle")
    /\ job' = [job EXCEPT ![t] = None]
    /\ token' = [token EXCEPT ![t] = 0]
    /\ serializer' = None

\* `with serializer:` at a point where the thread does not hold it yet.
Enter(t) ==
    /\ serializer = None
    /\ serializer' = t

\* _ClaimRecorder.failed and .unknown: the outcome reaches the claim record
\* unless the record is fenced or cannot be written, which they suppress.
RecordOutcome(t, outcome) ==
    \/ /\ Owns(t)
       /\ claim' = [claim EXCEPT ![job[t]] = Sidecar(@.tok, @.aged, @.ctx, outcome)]
    \/ UNCHANGED claim

-----------------------------------------------------------------------------
(* PendingQueue.enqueue                                                    *)

\* The cap is tested before the serializer is taken.
EnqueueBegin(t, p) ==
    /\ pc[t] = "idle"
    /\ p \notin drawn
    /\ Cap > 0 => Cardinality(live) < Cap
    /\ drawn' = drawn \cup {p}
    /\ job' = [job EXCEPT ![t] = p]
    /\ Goto(t, "enqueue")
    /\ UNCHANGED <<files, repo, serializer, token, sweeping, clock, faults, rejected>>

EnqueueLock(t) ==
    /\ pc[t] = "enqueue"
    /\ serializer = None
    /\ IF lock[PathOf[job[t]]] = None
       THEN /\ Enter(t)
            /\ lock' = [lock EXCEPT ![PathOf[job[t]]] = job[t]]
            /\ Goto(t, "enqueue_write")
            /\ UNCHANGED <<job, token>>
       ELSE Leave(t) /\ UNCHANGED lock          \* PathLockBusyError
    /\ UNCHANGED <<live, claim, repo, sweeping, clock, drawn, faults, rejected>>

EnqueueWrite(t) ==
    /\ pc[t] = "enqueue_write"
    /\ live' = live \cup {job[t]}
    /\ Leave(t)
    /\ UNCHANGED <<claim, lock, repo, sweeping, clock, drawn, faults, rejected>>

\* The entry write failed before it was published: the lock is released.  (A
\* failure after os.replace leaves the files as EnqueueWrite does.)
EnqueueWriteFails(t) ==
    /\ pc[t] = "enqueue_write"
    /\ Fault
    /\ lock' = [lock EXCEPT ![PathOf[job[t]]] = None]
    /\ Leave(t)
    /\ UNCHANGED <<live, claim, repo, sweeping, clock, drawn, rejected>>

-----------------------------------------------------------------------------
(* _claim, claim_for_resolve and reject                                    *)

\* _claim: the rename, for a resolve or for a reject (an operator's or the
\* expiry's).  It replaces a stale sidecar a half-done restore left.
Claim(t, p, next) ==
    /\ pc[t] = "idle"
    /\ clock < MaxClaims
    /\ p \in live
    /\ Enter(t)
    /\ live' = live \ {p}
    /\ claim' = [claim EXCEPT ![p] = Unstamped]
    /\ job' = [job EXCEPT ![t] = p]
    /\ Goto(t, next)
    /\ UNCHANGED <<lock, repo, token, sweeping, clock, drawn, faults, rejected>>

ResolveClaim(t, p) == Claim(t, p, "resolve_stamp")

RejectClaim(t, p) == Claim(t, p, "reject_stamp")

\* _claim: a fresh claim token and the time are written into the sidecar.
Stamped(t) ==
    /\ clock' = clock + 1
    /\ claim' = [claim EXCEPT ![job[t]] = Sidecar(clock + 1, FALSE, "none", "none")]

\* claim_for_resolve returns: the serializer is free until the commit.
ResolveStamp(t) ==
    /\ pc[t] = "resolve_stamp"
    /\ Stamped(t)
    /\ token' = [token EXCEPT ![t] = clock + 1]
    /\ serializer' = None
    /\ Goto(t, "claimed")
    /\ UNCHANGED <<live, lock, repo, job, sweeping, drawn, faults, rejected>>

RejectStamp(t) ==
    /\ pc[t] = "reject_stamp"
    /\ Stamped(t)
    /\ Goto(t, "reject_claim")
    /\ UNCHANGED <<live, lock, repo, serializer, job, token, sweeping, drawn, faults,
                   rejected>>

\* The stamp, or the digest of an edited text after it, cannot be written: the
\* exception leaves the sidecar behind.
StampFails(t) ==
    /\ pc[t] \in {"resolve_stamp", "reject_stamp"}
    /\ Fault
    /\ Stamped(t) \/ UNCHANGED <<claim, clock>>
    /\ Leave(t)
    /\ UNCHANGED <<live, lock, repo, sweeping, drawn, rejected>>

\* _finish_claim: the sidecar goes first, then the lock.
RejectFinishClaim(t) ==
    /\ pc[t] = "reject_claim"
    /\ claim' = [claim EXCEPT ![job[t]] = None]
    /\ rejected' = rejected \cup {job[t]}
    /\ \/ Goto(t, "reject_lock") /\ NoFault /\ UNCHANGED <<serializer, job, token>>
       \/ Leave(t) /\ Fault                     \* the directory sync failed
    /\ UNCHANGED <<live, lock, repo, sweeping, clock, drawn>>

RejectFinishLock(t) ==
    /\ pc[t] = "reject_lock"
    /\ lock' = ReleaseOwnedBy(job[t])
    /\ Leave(t)
    /\ UNCHANGED <<live, claim, repo, sweeping, clock, drawn, faults, rejected>>

-----------------------------------------------------------------------------
(* reconcile_claims, run by pending_gc_loop and by the guard of every      *)
(* history rewrite.  The thread holds the serializer throughout.           *)

\* The running claim sweep has dealt with p.
SweptOne(t, p) ==
    /\ todo' = todo \ {p}
    /\ cur' = None
    /\ Goto(t, "sweep")

\* pending_gc_loop's sweep, or the guard of a push recovery or worktree GC.
SweepBegin(t) ==
    /\ pc[t] = "idle"
    /\ Enter(t)
    /\ todo' = Claimed
    /\ Goto(t, "sweep")
    /\ UNCHANGED <<files, repo, job, token, cur, clock, drawn, faults, rejected>>

\* Too young to look at (an unstamped claim counts as old).
SweepSkip(t, p) ==
    /\ pc[t] = "sweep"
    /\ p \in todo
    /\ claim[p] = None \/ ~claim[p].aged
    /\ SweptOne(t, p)
    /\ UNCHANGED <<files, repo, serializer, job, token, clock, drawn, faults, rejected>>

\* Mutant of SweepFinalize: only a recorded commit counts, none is searched for.
SweepFinalizeRecorded(t, p) ==
    /\ pc[t] = "sweep"
    /\ p \in todo
    /\ claim[p] # None
    /\ claim[p].aged /\ claim[p].outcome = "committed"
    /\ claim' = [claim EXCEPT ![p] = None]
    /\ cur' = p
    /\ Goto(t, "sweep_lock")
    /\ UNCHANGED <<live, lock, repo, serializer, job, token, todo, clock, drawn, faults,
                   rejected>>

\* _reconcile_one: a recorded commit, or one found on the branch, finalizes.
SweepFinalize(t, p) ==
    /\ pc[t] = "sweep"
    /\ p \in todo
    /\ claim[p] # None
    /\ claim[p].aged
    /\ \/ claim[p].outcome = "committed"
       \/ claim[p].outcome # "failed" /\ find_claim_commit(p)
    /\ claim' = [claim EXCEPT ![p] = None]
    /\ cur' = p
    /\ Goto(t, "sweep_lock")
    /\ UNCHANGED <<live, lock, repo, serializer, job, token, todo, clock, drawn, faults,
                   rejected>>

SweepReleaseLock(t) ==
    /\ pc[t] = "sweep_lock"
    /\ lock' = ReleaseOwnedBy(cur)
    /\ SweptOne(t, cur)
    /\ UNCHANGED <<live, claim, repo, serializer, job, token, clock, drawn, faults,
                   rejected>>

\* Mutant of SweepRestore: only a write that had recorded its context.
SweepRestoreBegun(t, p) ==
    /\ pc[t] = "sweep"
    /\ p \in todo
    /\ claim[p] # None
    /\ claim[p].aged /\ claim[p].ctx # "none"
    /\ claim[p].outcome = "failed"
    /\ live' = live \cup {p}
    /\ cur' = p
    /\ Goto(t, "sweep_remove")
    /\ UNCHANGED <<claim, lock, repo, serializer, job, token, todo, clock, drawn, faults,
                   rejected>>

\* _reconcile_one: a recorded failure returns the entry to the operator.
SweepRestore(t, p) ==
    /\ pc[t] = "sweep"
    /\ p \in todo
    /\ claim[p] # None
    /\ claim[p].aged
    /\ claim[p].outcome = "failed"
    /\ live' = live \cup {p}
    /\ cur' = p
    /\ Goto(t, "sweep_remove")
    /\ UNCHANGED <<claim, lock, repo, serializer, job, token, todo, clock, drawn, faults,
                   rejected>>

SweepRestoreRemove(t) ==
    /\ pc[t] = "sweep_remove"
    /\ claim' = [claim EXCEPT ![cur] = None]
    /\ SweptOne(t, cur)
    /\ UNCHANGED <<live, lock, repo, serializer, job, token, clock, drawn, faults,
                   rejected>>

\* Mutant of SweepUncertain: absence of the commit restores the entry.
SweepRestoresUncertain(t, p) ==
    /\ pc[t] = "sweep"
    /\ p \in todo
    /\ claim[p] # None
    /\ claim[p].aged
    /\ claim[p].outcome \in {"none", "unknown"}
    /\ \/ ~find_claim_commit(p) /\ NoFault
       \/ find_claim_commit(p) /\ Fault
    /\ live' = live \cup {p}
    /\ SweptOne(t, p)
    /\ UNCHANGED <<claim, lock, repo, serializer, job, token, clock, drawn, rejected>>

\* _reconcile_one: no recorded outcome and no commit found, or the search
\* itself failed: the claim and its lock stay.
SweepUncertain(t, p) ==
    /\ pc[t] = "sweep"
    /\ p \in todo
    /\ claim[p] # None
    /\ claim[p].aged
    /\ claim[p].outcome \in {"none", "unknown"}
    /\ \/ ~find_claim_commit(p) /\ NoFault
       \/ find_claim_commit(p) /\ Fault
    /\ SweptOne(t, p)
    /\ UNCHANGED <<files, repo, serializer, job, token, clock, drawn, rejected>>

\* The sweep is over, or an I/O error cut it short.
SweepLeave(t) ==
    /\ todo' = {}
    /\ cur' = None
    /\ \/ job[t] = None /\ Leave(t)             \* pending_gc_loop
       \/ Goto(t, "guard") /\ UNCHANGED <<serializer, job, token>>

SweepEnd(t) ==
    /\ pc[t] = "sweep"
    /\ todo = {}
    /\ SweepLeave(t)
    /\ UNCHANGED <<files, repo, clock, drawn, faults, rejected>>

SweepFails(t) ==
    /\ pc[t] \in {"sweep", "sweep_lock", "sweep_remove"}
    /\ Fault
    /\ SweepLeave(t)
    /\ UNCHANGED <<files, repo, clock, drawn, rejected>>

\* A history rewrite may take any of the branch's commits off it.
Dropped(r) == \E gone \in SUBSET {c \in onref : RefOf[c.id] = r} : onref' = onref \ gone

\* Mutant of Rewrite: no claim defers it.
RewriteUnguarded(r) == Dropped(r) /\ NoFault /\ UNCHANGED detached

\* A rebase cut short: the branch has not moved, and HEAD has.
CutShort(r) ==
    /\ r \notin detached /\ claims_at_risk(r) = {}
    /\ detached' = detached \cup {r} /\ UNCHANGED onref

\* refresh_base: _defer_if_claims_at_risk on what HEAD names, and the rebase.  With
\* claims at risk, or when git fails, nothing moves; a rebase is done, or killed at
\* its timeout; one begun where another was cut short fails and is aborted, which
\* puts HEAD back on the branch.
Rewrite(r) ==
    \/ NoFault /\ UNCHANGED <<onref, detached>>
    \/ r \notin detached /\ claims_at_risk(r) = {} /\ Dropped(r) /\ NoFault
       /\ UNCHANGED detached
    \/ CutShort(r) /\ Fault
    \/ /\ r \in detached /\ headless_at_risk = {}
       /\ detached' = detached \ {r} /\ NoFault /\ UNCHANGED onref

\* WorktreeRegistry.gc: worktree and branch go, by the claims on the branch.
RemoveWorktree(r) ==
    /\ claims_at_risk(r) = {} /\ Dropped(r)
    /\ detached' = detached \ {r} /\ NoFault

\* refresh_base at the start of a write: a refresh that fails only matters to
\* the gates.
GuardWrite(t) ==
    /\ pc[t] = "guard"
    /\ job[t] # None
    /\ Rewrite(RefOf[job[t]])
    /\ Goto(t, "gates")
    /\ UNCHANGED <<files, commits, onmain, serializer, job, token, sweeping, clock, drawn,
                   rejected>>

\* The push loop's rebase, or WorktreeRegistry.gc.
GuardBackground(t, r) ==
    /\ pc[t] = "guard"
    /\ job[t] = None
    /\ Rewrite(r) \/ RemoveWorktree(r)
    /\ Leave(t)
    /\ UNCHANGED <<files, commits, onmain, sweeping, clock, drawn, rejected>>

-----------------------------------------------------------------------------
(* _commit_in_worktree, for a resolve (job in Pids) and for an auto-commit *)
(* (job in Autos, which takes the path lock here and releases it on exit). *)

\* get_or_create and the guard of refresh_base.
ResolveCommit(t) ==
    /\ pc[t] = "claimed"
    /\ Enter(t)
    /\ todo' = Claimed
    /\ Goto(t, "sweep")
    /\ UNCHANGED <<files, repo, job, token, cur, clock, drawn, faults, rejected>>

\* Mutant of AutoCommit: it does not look at the path lock.
AutoCommitUnlocked(t, w) ==
    /\ pc[t] = "idle"
    /\ w \notin drawn
    /\ Enter(t)
    /\ drawn' = drawn \cup {w}
    /\ job' = [job EXCEPT ![t] = w]
    /\ todo' = Claimed
    /\ Goto(t, "sweep")
    /\ UNCHANGED <<files, repo, token, cur, clock, faults, rejected>>

AutoCommit(t, w) ==
    /\ pc[t] = "idle"
    /\ w \notin drawn
    /\ serializer = None
    /\ drawn' = drawn \cup {w}
    /\ IF lock[PathOf[w]] = None
       THEN /\ Enter(t)
            /\ lock' = [lock EXCEPT ![PathOf[w]] = w]
            /\ job' = [job EXCEPT ![t] = w]
            /\ todo' = Claimed
            /\ Goto(t, "sweep")
       ELSE UNCHANGED <<lock, serializer, pc, job, todo>>   \* PathLockBusyError
    /\ UNCHANGED <<live, claim, repo, token, cur, clock, faults, rejected>>

\* How the commit section ends without a decision: a resolver's claim stays as
\* it is, an auto-commit's lock is released by path_lock's finally.
Abandon(t) ==
    /\ Leave(t)
    /\ lock' = IF job[t] \in Autos THEN ReleaseOwnedBy(job[t]) ELSE lock

\* A provable non-commit: recorded as failed, then restored by the resolver.
FailWrite(t) ==
    IF job[t] \in Pids
    THEN /\ RecordOutcome(t, "failed")
         /\ serializer' = None
         /\ Goto(t, "restore")
         /\ UNCHANGED <<lock, job, token>>
    ELSE Abandon(t) /\ UNCHANGED claim

\* Mutant of UnknownWrite: an unobserved outcome is recorded as a failure.
UnknownWriteFailed(t) ==
    /\ IF job[t] \in Pids THEN RecordOutcome(t, "failed") ELSE UNCHANGED claim
    /\ Abandon(t)

\* The outcome was not observed: recorded as unknown, never restored.
UnknownWrite(t) ==
    /\ IF job[t] \in Pids THEN RecordOutcome(t, "unknown") ELSE UNCHANGED claim
    /\ Abandon(t)

\* Symlink, CAS, secret, writing-rule and content gates all pass.
GatesPass(t) ==
    /\ pc[t] = "gates"
    /\ Goto(t, IF job[t] \in Pids THEN "context" ELSE "add")
    /\ UNCHANGED <<files, repo, serializer, job, token, sweeping, clock, drawn, faults,
                   rejected>>

\* _WriteRejected (or, for an auto-commit, _WriteDemoted): nothing is written
\* or recorded; the resolver restores the entry.
GatesReject(t) ==
    /\ pc[t] = "gates"
    /\ IF job[t] \in Pids
       THEN serializer' = None /\ Goto(t, "restore") /\ UNCHANGED <<lock, job, token>>
       ELSE Abandon(t)
    /\ UNCHANGED <<live, claim, repo, sweeping, clock, drawn, faults, rejected>>

\* Any other exception before the write context is recorded: last_outcome is
\* empty, so kb_resolve_pending_fn leaves the claim to reconciliation.
GatesRaise(t) ==
    /\ pc[t] = "gates"
    /\ Fault
    /\ Abandon(t)
    /\ UNCHANGED <<live, claim, repo, sweeping, clock, drawn, rejected>>

\* What _session_ref answers for the worktree of a branch.
HeadName(r) == IF r \in detached THEN "HEAD" ELSE "branch"

\* _ClaimRecorder.context, with what _session_ref and _head_sha answer; either may
\* fail, which they take for a name left blank.
RecordContext(t) ==
    /\ pc[t] = "context"
    /\ Owns(t)
    /\ \E ctx \in {HeadName(RefOf[job[t]]), "blank"} :
         /\ ctx = "blank" => Fault
         /\ ctx # "blank" => NoFault
         /\ claim' = [claim EXCEPT ![job[t]] = Sidecar(@.tok, @.aged, ctx, @.outcome)]
    /\ Goto(t, "add")
    /\ UNCHANGED <<live, lock, repo, serializer, job, token, sweeping, clock, drawn, rejected>>

\* Fenced, or the context cannot be written: the write must not start.
RecordContextFails(t) ==
    /\ pc[t] = "context"
    /\ \/ ~Owns(t) /\ NoFault
       \/ Fault
    /\ FailWrite(t)
    /\ UNCHANGED <<live, repo, sweeping, clock, drawn, rejected>>

\* The postimage is written and staged.
WriteAndAdd(t) ==
    /\ pc[t] = "add"
    /\ Goto(t, "commit")
    /\ UNCHANGED <<files, repo, serializer, job, token, sweeping, clock, drawn, faults,
                   rejected>>

\* `git add` fails (reset and recorded as failed), or writing the file itself
\* raises, outside every handler.
WriteOrAddFails(t) ==
    /\ pc[t] = "add"
    /\ Fault
    /\ FailWrite(t) \/ (Abandon(t) /\ UNCHANGED claim)
    /\ UNCHANGED <<live, repo, sweeping, clock, drawn, rejected>>

\* The commit lands on HEAD, carrying its KB-Pending-Id trailer: on the session
\* branch, unless HEAD is detached.
Landed(t) ==
    LET c == [id |-> job[t], tok |-> token[t]] IN
    /\ commits' = commits \cup {c}
    /\ onref' = IF RefOf[job[t]] \in detached THEN onref ELSE onref \cup {c}
    /\ UNCHANGED <<onmain, detached>>

GitCommit(t) ==
    /\ pc[t] = "commit"
    /\ Landed(t)
    /\ Goto(t, "record")
    /\ UNCHANGED <<files, serializer, job, token, sweeping, clock, drawn, faults, rejected>>

\* A positive exit: git declined (for instance, nothing to commit).
GitCommitDeclined(t) ==
    /\ pc[t] = "commit"
    /\ FailWrite(t)
    /\ UNCHANGED <<live, repo, sweeping, clock, drawn, faults, rejected>>

\* Killed by a signal or not observed: the commit may or may not exist.
GitCommitKilled(t) ==
    /\ pc[t] = "commit"
    /\ Fault
    /\ Landed(t) \/ UNCHANGED repo
    /\ UnknownWrite(t)
    /\ UNCHANGED <<live, sweeping, clock, drawn, rejected>>

\* rev-parse HEAD, then _ClaimRecorder.committed.
RecordCommitted(t) ==
    /\ pc[t] = "record"
    /\ IF job[t] \in Pids
       THEN /\ Owns(t)
            /\ claim' = [claim EXCEPT ![job[t]] = Sidecar(@.tok, @.aged, @.ctx, "committed")]
            /\ Goto(t, "finish_claim")
       ELSE UNCHANGED claim /\ Goto(t, "auto_done")
    /\ UNCHANGED <<live, lock, repo, serializer, job, token, sweeping, clock, drawn,
                   faults, rejected>>

\* The sha lookup fails (unknown), or the outcome cannot be recorded (raised,
\* with last_outcome "committed": not restored).
RecordCommittedFails(t) ==
    /\ pc[t] = "record"
    /\ Fault
    /\ UnknownWrite(t)
    /\ UNCHANGED <<live, repo, sweeping, clock, drawn, rejected>>

\* _ClaimRecorder.finalize: _finalize_resolve_locked, first half.
FinishClaim(t) ==
    /\ pc[t] = "finish_claim"
    /\ Owns(t)
    /\ claim' = [claim EXCEPT ![job[t]] = None]
    /\ Goto(t, "finish_lock")
    /\ UNCHANGED <<live, lock, repo, serializer, job, token, sweeping, clock, drawn,
                   faults, rejected>>

\* Its failure, before or after the unlink, is swallowed: the caller still
\* gets "committed" and reconciliation or the lock collector does the rest.
FinishClaimFails(t) ==
    /\ pc[t] = "finish_claim"
    /\ Fault
    /\ claim' = [claim EXCEPT ![job[t]] = None] \/ UNCHANGED claim
    /\ Leave(t)
    /\ UNCHANGED <<live, lock, repo, sweeping, clock, drawn, rejected>>

FinishLock(t) ==
    /\ pc[t] = "finish_lock"
    /\ lock' = ReleaseOwnedBy(job[t])
    /\ Leave(t)
    /\ UNCHANGED <<live, claim, repo, sweeping, clock, drawn, faults, rejected>>

\* path_lock's finally; an unlink error leaves the lock to the TTL reclaim.
AutoDone(t) ==
    /\ pc[t] = "auto_done"
    /\ \/ Abandon(t) /\ NoFault
       \/ Leave(t) /\ UNCHANGED lock /\ Fault
    /\ UNCHANGED <<live, claim, repo, sweeping, clock, drawn, rejected>>

-----------------------------------------------------------------------------
(* restore_resolve, in a serializer section of its own.                    *)

\* Mutant of Restore: no fencing, whatever became of the claim.
RestoreUnfenced(t) ==
    /\ pc[t] = "restore"
    /\ Enter(t)
    /\ live' = live \cup {job[t]}
    /\ Goto(t, "restore_remove")
    /\ UNCHANGED <<claim, lock, repo, job, token, sweeping, clock, drawn, faults, rejected>>

\* The stripped entry is renamed onto <pid>.json; a fenced call does nothing.
Restore(t) ==
    /\ pc[t] = "restore"
    /\ serializer = None
    /\ IF Owns(t)
       THEN /\ Enter(t)
            /\ live' = live \cup {job[t]}
            /\ Goto(t, "restore_remove")
            /\ UNCHANGED <<job, token>>
       ELSE Leave(t) /\ UNCHANGED live
    /\ UNCHANGED <<claim, lock, repo, sweeping, clock, drawn, faults, rejected>>

RestoreRemove(t) ==
    /\ pc[t] = "restore_remove"
    /\ claim' = [claim EXCEPT ![job[t]] = None]
    /\ Leave(t)
    /\ UNCHANGED <<live, lock, repo, sweeping, clock, drawn, faults, rejected>>

\* An I/O error in either half, raised or suppressed by the caller.
RestoreFails(t) ==
    /\ pc[t] \in {"restore", "restore_remove"}
    /\ Fault
    /\ Goto(t, "idle")
    /\ job' = [job EXCEPT ![t] = None]
    /\ token' = [token EXCEPT ![t] = 0]
    /\ serializer' = IF serializer = t THEN None ELSE serializer
    /\ UNCHANGED <<files, repo, sweeping, clock, drawn, rejected>>

-----------------------------------------------------------------------------
(* Background collectors, time, and the process itself.                    *)

\* Mutant of Orphaned: a claimed entry is not a holder.
OrphanedIfClaimed(a) == lock[a] \in Pids /\ lock[a] \notin live

\* Mutant of Orphaned: the test of the entry is inverted.
OrphanedIfLive(a) == lock[a] \in Pids /\ lock[a] \in live

\* gc_orphan_locks: pending locks whose holder has neither file.
Orphaned(a) ==
    /\ lock[a] \in Pids
    /\ lock[a] \notin live
    /\ claim[lock[a]] = None

GcOrphanLocks ==
    /\ serializer = None
    /\ \E t \in Threads : pc[t] # "down"
    /\ \E a \in Paths : Orphaned(a)
    /\ lock' = [a \in Paths |-> IF Orphaned(a) THEN None ELSE lock[a]]
    /\ UNCHANGED <<live, claim, repo, threads, sweeping, clock, drawn, faults, rejected>>

\* Mutants of WithoutAutoLocks: every lock is reclaimed, or none is.
WithoutLocks == [a \in Paths |-> None]

WithAutoLocks == lock

\* The lock files without the auto-commit ones.
WithoutAutoLocks == [a \in Paths |-> IF lock[a] \in Autos THEN None ELSE lock[a]]

\* reclaim_stale_auto_commit_locks on the TTL path.
ReclaimAutoLocks ==
    /\ serializer = None
    /\ \E t \in Threads : pc[t] # "down"
    /\ \E a \in Paths : lock[a] \in Autos
    /\ lock' = WithoutAutoLocks
    /\ UNCHANGED <<live, claim, repo, threads, sweeping, clock, drawn, faults, rejected>>

\* A commit made on a detached HEAD is pushed from there, and the pull loop
\* brings it into the main repository.
Pull(p) ==
    /\ \E t \in Threads : pc[t] # "down"
    /\ p \in headless_at_risk /\ CommitOf(p) \in commits
    /\ onmain' = onmain \cup {CommitOf(p)}
    /\ UNCHANGED <<files, commits, onref, detached, threads, sweeping, clock, drawn, faults,
                   rejected>>

\* A claim grows older than KB_PENDING_CLAIM_TTL_SEC, its resolver alive or not.
Age(p) ==
    /\ claim[p] # None
    /\ ~claim[p].aged
    /\ claim' = [claim EXCEPT ![p] = Sidecar(@.tok, TRUE, @.ctx, @.outcome)]
    /\ UNCHANGED <<live, lock, repo, threads, sweeping, clock, drawn, faults, rejected>>

\* The process dies, and a rebase it was in the middle of with it.
Crash ==
    /\ \E t \in Threads : pc[t] # "down"
    /\ Fault
    /\ \/ UNCHANGED <<onref, detached>>
       \/ \E t \in Threads, r \in Refs :
            /\ pc[t] = "guard" /\ (job[t] # None => r = RefOf[job[t]])
            /\ CutShort(r)
    /\ pc' = [t \in Threads |-> "down"]
    /\ job' = [t \in Threads |-> None]
    /\ token' = [t \in Threads |-> 0]
    /\ serializer' = None
    /\ todo' = {}
    /\ cur' = None
    /\ UNCHANGED <<files, commits, onmain, clock, drawn, rejected>>

\* runner(): every auto-commit lock is reclaimed before the loops start; an
\* error there is logged and startup continues.
Startup ==
    /\ \A t \in Threads : pc[t] = "down"
    /\ pc' = [t \in Threads |-> "idle"]
    /\ \/ lock' = WithoutAutoLocks /\ NoFault
       \/ UNCHANGED lock /\ Fault
    /\ UNCHANGED <<live, claim, repo, serializer, job, token, sweeping, clock, drawn,
                   rejected>>

-----------------------------------------------------------------------------
\* The steps of a thread that already runs something.
Enqueueing(t) == EnqueueLock(t) \/ EnqueueWrite(t) \/ EnqueueWriteFails(t)

Claiming(t) ==
    \/ ResolveStamp(t) \/ RejectStamp(t) \/ StampFails(t)
    \/ RejectFinishClaim(t) \/ RejectFinishLock(t)

Sweeping(t) ==
    \/ \E p \in Pids : \/ SweepSkip(t, p) \/ SweepFinalize(t, p)
                       \/ SweepRestore(t, p) \/ SweepUncertain(t, p)
    \/ SweepReleaseLock(t) \/ SweepRestoreRemove(t)
    \/ SweepEnd(t) \/ SweepFails(t)
    \/ GuardWrite(t) \/ (\E r \in Refs : GuardBackground(t, r))

Committing(t) ==
    \/ ResolveCommit(t)
    \/ GatesPass(t) \/ GatesReject(t) \/ GatesRaise(t)
    \/ RecordContext(t) \/ RecordContextFails(t)
    \/ WriteAndAdd(t) \/ WriteOrAddFails(t)
    \/ GitCommit(t) \/ GitCommitDeclined(t) \/ GitCommitKilled(t)
    \/ RecordCommitted(t) \/ RecordCommittedFails(t)
    \/ FinishClaim(t) \/ FinishClaimFails(t) \/ FinishLock(t)
    \/ AutoDone(t)

Restoring(t) == Restore(t) \/ RestoreRemove(t) \/ RestoreFails(t)

Step(t) == Enqueueing(t) \/ Claiming(t) \/ Sweeping(t) \/ Committing(t) \/ Restoring(t)

\* The operations an idle thread can start.
Begin(t) ==
    \/ \E p \in Pids : EnqueueBegin(t, p) \/ ResolveClaim(t, p) \/ RejectClaim(t, p)
    \/ \E w \in Autos : AutoCommit(t, w)
    \/ SweepBegin(t)

Next ==
    \/ \E t \in Threads : Begin(t) \/ Step(t)
    \/ \E p \in Pids : Age(p) \/ Pull(p)
    \/ GcOrphanLocks \/ ReclaimAutoLocks
    \/ Crash \/ Startup

Spec == Init /\ [][Next]_vars

-----------------------------------------------------------------------------
(* Safety.                                                                 *)

InFlight(p) == p \in live \/ claim[p] # None

Committed(p) == \E c \in commits : c.id = p

CommittedPids == {p \in Pids : Committed(p)}

\* One decision is one commit: however resolves race, crash or are retried, a
\* proposal is never committed twice (_claim's rename, the recorded outcome and
\* the claim-linked commit search of reconcile_claims).
AtMostOneCommit ==
    \A c, d \in commits : c.id \in Pids /\ c.id = d.id => c = d

\* A proposal that was committed is never offered for approval again: no
\* restore_resolve, by its resolver or by a sweep, re-publishes it.
CommittedNeverReoffered == CommittedPids \cap live = {}

\* A consumed rejection is final: the entry neither comes back, nor lingers as
\* a claim, nor is committed by a resolver still running (reject, _claim).
RejectedStaysRejected ==
    \A p \in rejected : ~InFlight(p) /\ p \notin CommittedPids

\* While a proposal is live or claimed, its own lock protects its path, across
\* every crash, collector pass, reclaim and half-done restore
\* (docs/serving.md:257-260).
PathProtected ==
    \A p \in Pids : InFlight(p) => lock[PathOf[p]] = p

\* As long as a claim is unresolved it names the commit made under it, and where it
\* names the session branch the commit is found there: the guards of refresh_base,
\* the push recovery and the worktree GC keep the evidence that reconcile_claims
\* decides on.  This is not so of a claim that names "HEAD", because a rebase cut
\* short had left HEAD detached when it committed, or nothing.
EvidenceKept ==
    \A c \in commits :
        c.id \in Pids /\ claim[c.id] # None =>
            /\ CommitOf(c.id) = c
            /\ claim[c.id].ctx \in {"HEAD", "blank"} \/ find_claim_commit(c.id)

\* A resolver between its claim and the end of its commit still owns the
\* sidecar on disk, although the serializer was free in between: neither a
\* sweep nor a second resolver took the claim over.
ResolverOwnsClaim ==
    \A t \in Threads :
        pc[t] \in {"claimed", "context", "add", "commit", "record", "finish_claim"}
            /\ job[t] \in Pids => Owns(t)

\* An auto-commit never lands on a path with a proposal in flight, whose later
\* approval would clobber it (path_lock; docs/serving.md:257-259).
AutoNeverClobbers ==
    [][\A c \in commits' \ commits :
         c.id \in Autos => \A p \in Pids : InFlight(p) => PathOf[p] # PathOf[c.id]]_vars

\* An entry is consumed only by its decision: when neither file of a proposal
\* is left, it has been committed or rejected (_finish_claim, reconcile_claims
\* never close a claim on its age alone).
ConsumedOnlyDecided ==
    [][\A p \in Pids : InFlight(p) /\ ~InFlight(p)' => p \in CommittedPids \cup rejected']_vars

\* The whole of it as one specification: this module implements PathGate.
Status ==
    [p \in Pids |->
        IF Committed(p) THEN "committed"
        ELSE IF p \in rejected THEN "rejected"
        ELSE IF InFlight(p) THEN "open" ELSE "absent"]

LandedAutos == {w \in Autos : \E c \in commits : c.id = w}

Gate == INSTANCE PathGate WITH status <- Status, landed <- LandedAutos

\* Whatever threads, sweeps, errors and crashes do to the files, a proposal
\* gates its path from its enqueue to its one decision, and no auto-commit
\* passes the gate.
ImplementsPathGate == Gate!Spec

-----------------------------------------------------------------------------
(* Liveness.  Threads keep running (weak fairness), a thread waiting for   *)
(* the serializer gets it (strong fairness: its holders never block and    *)
(* the background passes are minutes apart), the background loops repeat   *)
(* and claims age.  MaxFaults makes faults stop.                           *)

WaitsForSerializer(t) == ResolveCommit(t) \/ Restore(t) \/ EnqueueLock(t)

Fairness ==
    /\ \A t \in Threads : WF_vars(Step(t)) /\ SF_vars(WaitsForSerializer(t))
    /\ SF_vars(\E t \in Threads : SweepBegin(t))
    /\ SF_vars(GcOrphanLocks)
    /\ SF_vars(ReclaimAutoLocks)
    /\ \A p \in Pids : WF_vars(Age(p))
    /\ WF_vars(Startup)

FairSpec == Spec /\ Fairness

\* The claim of a commit whose outcome was not recorded does not name the branch
\* either: it stays, and its path locked, until an operator removes it.
Stranded(p) ==
    /\ claim[p] # None /\ claim[p].ctx \in {"HEAD", "blank"}
    /\ claim[p].outcome # "committed"

\* A claim whose commit exists is eventually consumed and its path freed, even
\* when the resolver died before recording anything (issues #253, #254); unless it
\* is stranded for good, for which a rebase cut short before the commit, or a ref
\* that could not be read, is the reason.
CommittedClaimCloses ==
    \A p \in Pids :
        p \in CommittedPids ~> (~InFlight(p) /\ lock[PathOf[p]] # p) \/ []Stranded(p)

\* A rejected proposal's path is eventually free again, wherever the reject
\* was interrupted after consuming the entry (gc_orphan_locks).
RejectedPathFreed ==
    \A p \in Pids : p \in rejected ~> lock[PathOf[p]] # p

\* No auto-commit holds a path for ever (reclaim_stale_auto_commit_locks).
AutoLockFreed ==
    \A w \in Autos : lock[PathOf[w]] = w ~> lock[PathOf[w]] # w

\* A claim whose write is recorded as failed does not stay claimed: the entry
\* is offered again, or already claimed anew (docs/serving.md:567).
FailedClaim(p) == claim[p] # None /\ claim[p].outcome = "failed"

FailedClaimReturns == \A p \in Pids : FailedClaim(p) ~> ~FailedClaim(p)

-----------------------------------------------------------------------------
(* The inductive invariant behind the safety properties (proved in         *)
(* PendingClaimsProofs).                                                   *)

\* Where a thread is inside the write serializer.
Inside == Locations \ {"idle", "down", "enqueue", "claimed", "restore"}

\* Where a resolver has claimed its entry and its commit is not made yet.
Undecided ==
    {"claimed", "sweep", "sweep_lock", "sweep_remove", "guard", "gates", "context",
     "add", "commit"}

SerializerInv == \A t \in Threads : pc[t] \in Inside <=> serializer = t

JobInv ==
    \A t \in Threads :
        /\ pc[t] \in {"idle", "down"} => job[t] = None
        /\ pc[t] \in {"enqueue", "enqueue_write", "resolve_stamp", "claimed", "reject_stamp",
                      "reject_claim", "reject_lock", "context", "finish_claim",
                      "finish_lock", "restore", "restore_remove"} => job[t] \in Pids
        /\ pc[t] \in {"gates", "add", "commit", "record"} => job[t] \in Writes
        /\ pc[t] = "auto_done" => job[t] \in Autos

\* A token is held by one thread and was drawn.
TokenInv ==
    /\ \A t \in Threads : token[t] <= clock
    /\ \A t, u \in Threads : token[t] = token[u] /\ token[t] > 0 => t = u
    /\ \A p \in Pids : claim[p] # None => claim[p].tok <= clock
    /\ \A c \in commits : c.tok <= clock /\ (c.id \in Pids => c.tok > 0)

Uncommitted(x) == \A c \in commits : c.id # x

\* Nothing on disk or in memory knows an id before it is drawn.
FreshInv ==
    /\ \A p \in Pids : InFlight(p) \/ p \in rejected => p \in drawn
    /\ \A c \in commits : c.id \in drawn
    /\ \A t \in Threads : job[t] # None => job[t] \in drawn
    /\ \A t \in Threads :
         pc[t] \in {"enqueue", "enqueue_write"} =>
             /\ ~InFlight(job[t])
             /\ job[t] \notin rejected
             /\ Uncommitted(job[t])
             /\ \A u \in Threads \ {t} : job[u] # job[t]

LockInv ==
    /\ PathProtected
    /\ \A t \in Threads :
         \/ pc[t] = "enqueue_write"
         \/ job[t] \in Autos
         => lock[PathOf[job[t]]] = job[t]

RejectInv == \A p \in rejected : ~InFlight(p) /\ Uncommitted(p)

\* A commit made for a claim stays tied to it until the claim is gone.
CommitInv ==
    /\ AtMostOneCommit
    /\ \A c \in commits :
         c.id \in Pids =>
             /\ c.id \notin live
             /\ claim[c.id] # None =>
                    /\ claim[c.id].tok = c.tok
                    /\ claim[c.id].ctx # "none"
                    /\ claim[c.id].outcome # "failed"
                    /\ claim[c.id].ctx = "branch" => c \in onref
    /\ \A p \in Pids :
         claim[p] # None /\ claim[p].outcome = "committed" => CommitOf(p) \in commits

\* What a thread knows about the entry it works on.
Knows(t) ==
    /\ pc[t] \in {"resolve_stamp", "reject_stamp", "reject_claim"} =>
           /\ job[t] \notin live
           /\ claim[job[t]] # None
           /\ \A u \in Threads : token[u] > 0 => token[u] # claim[job[t]].tok
           /\ Uncommitted(job[t])
    /\ pc[t] \in Undecided /\ job[t] \in Pids =>
           /\ Owns(t)
           /\ token[t] > 0
           /\ claim[job[t]].outcome = "none"
           /\ job[t] \notin live
    /\ pc[t] \in Undecided /\ job[t] # None => Uncommitted(job[t])
    /\ pc[t] \in {"add", "commit", "record"} /\ job[t] \in Pids =>
           claim[job[t]].ctx # "none"
    /\ pc[t] \in {"add", "commit"} /\ job[t] \in Pids /\ claim[job[t]].ctx = "branch" =>
           RefOf[job[t]] \notin detached
    /\ pc[t] \in {"record", "finish_claim"} /\ job[t] \in Pids =>
           Owns(t) /\ CommitOf(job[t]) \in commits
    /\ pc[t] \in {"reject_lock", "finish_lock"} => ~InFlight(job[t])
    /\ pc[t] = "restore" =>
           token[t] > 0 /\ [id |-> job[t], tok |-> token[t]] \notin commits
    /\ pc[t] = "restore_remove" => job[t] \in live
    /\ pc[t] = "sweep_lock" => cur \in Pids /\ ~InFlight(cur)
    /\ pc[t] = "sweep_remove" => cur \in live

ThreadInv == \A t \in Threads : Knows(t)

IInv ==
    /\ TypeOK
    /\ SerializerInv
    /\ JobInv
    /\ TokenInv
    /\ FreshInv
    /\ LockInv
    /\ RejectInv
    /\ CommitInv
    /\ ThreadInv
=============================================================================
