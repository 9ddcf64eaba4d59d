--------------------------- MODULE WriteAdmission ---------------------------
(* How a proposed document gets in: judged against the index when it is        *)
(* proposed, judged again on the session's refreshed base before it is         *)
(* committed there, rebased once more when it is pushed, or parked for the     *)
(* operator. src/data_olympus/tools_write.py, governed_lane.py, write_gate.py. *)
(*                                                                             *)
(* A document is its id, its status and its text (a number, new for each       *)
(* version); git merges two changes to different ones of these.                *)
EXTENDS Naturals, Sequences, FiniteSets

CONSTANTS
    Sessions, Paths, Ids, Nil,
    Inbox,          \* the paths of memories, never in force
    MaxProposals, MaxUpstream    \* bounds

ASSUME AdmissionAssumption == Inbox \subseteq Paths /\ {MaxProposals, MaxUpstream} \subseteq Nat

VARIABLES
    trunk,          \* upstream's documents: path -> document or Nil
    index,          \* the documents of the index serving reads, an earlier trunk
    base, branch,   \* per session: the trunk its branch sits on, its commits
    call,           \* per session: a proposal judged once, on its way to commit
    parked,         \* path -> the pending proposal that holds the path's lock
    proposals, upstream,
    reviewed,       \* history: texts a person wrote, promoted or approved
    lifted,         \* history: texts a rebase merged into a promoted document
    slipped         \* history: texts whose clashing id was gone at commit

gitVars == <<trunk, base, branch>>
counters == <<proposals, upstream>>
history == <<reviewed, lifted, slipped>>
vars == <<gitVars, index, call, parked, counters, history>>

Flaws == {"none", "secret", "malformed", "wording"}
Doc == [id : Ids, status : {"proposed", "accepted"}, text : Nat]

InForce(docs, p) == p \notin Inbox /\ docs[p] # Nil /\ docs[p].status = "accepted"

\* At first one document, which governs; texts above 0 are later ones.
Init ==
    /\ \E p \in Paths \ Inbox, i \in Ids :
        trunk = [q \in Paths |-> IF q = p THEN [id |-> i, status |-> "accepted", text |-> 0] ELSE Nil]
    /\ index = trunk
    /\ base = [s \in Sessions |-> trunk] /\ branch = [s \in Sessions |-> <<>>]
    /\ call = [s \in Sessions |-> Nil] /\ parked = [p \in Paths |-> Nil]
    /\ proposals = 0 /\ upstream = 0
    /\ reviewed = {0} /\ lifted = {} /\ slipped = {}

----------------------------------------------------------------------------
(* Git.                                                                      *)

\* The change from one document to another, on top of a third; none: conflict.
Merged(from, post, onto) ==
    IF from = onto THEN {post}
    ELSE IF Nil \in {from, post, onto} THEN {}
    ELSE IF \E f \in DOMAIN from : from[f] # post[f] /\ from[f] # onto[f] THEN {}
    ELSE {[f \in DOMAIN from |-> IF from[f] = post[f] THEN onto[f] ELSE post[f]]}

\* One commit replayed on what the ones before it left: the tree, the commits, and
\* the lifted texts. commits is Nil after a conflict, and the rebase is aborted.
Picked(acc, c) ==
    LET onto == acc.tree[c.path]
        new == CHOOSE d \in Merged(c.from, c.post, onto) : TRUE
    IN  IF acc.commits = Nil \/ Merged(c.from, c.post, onto) = {}
        THEN [acc EXCEPT !.commits = Nil]
        ELSE [tree |-> [acc.tree EXCEPT ![c.path] = new],
              commits |-> Append(acc.commits, [path |-> c.path, from |-> onto, post |-> new]),
              lifted |-> acc.lifted \cup
                   IF new.status = "accepted" /\ c.post.status # "accepted"
                   THEN {new.text} ELSE {}]

\* A branch replayed on a trunk.
Replay(commits, t) ==
    LET after[n \in 0..Len(commits)] ==
            IF n = 0 THEN [tree |-> t, commits |-> <<>>, lifted |-> {}]
            ELSE Picked(after[n - 1], commits[n])
    IN  after[Len(commits)]

----------------------------------------------------------------------------
(* The governed lane.                                                        *)

check_status_clamp(p) == p.post.status = "accepted"

\* The target in the index; excluded: a document in force there supersedes it.
governed_target_state(p, readable, excluded) ==
    IF ~readable THEN "unknown"
    ELSE IF InForce(index, p.path) /\ ~excluded THEN "in_force" ELSE "not_in_force"

\* Mutant of evaluate_governed_lane: a status the target has already is not clamped.
ClampsChangesOnly(p, readable, excluded) ==
    LET target == governed_target_state(p, readable, excluded) IN
    IF check_status_clamp(p) /\ target # "in_force" THEN "status_promotion"
    ELSE IF target = "unknown" THEN "governed_target_unverified"
    ELSE IF target = "in_force" /\ ~check_status_clamp(p) THEN "governed_target"
    ELSE "none"

\* Rule 1 looks at the postimage alone, rule 2 at the target in the index.
\* An index that cannot be read cannot clear the target.
evaluate_governed_lane(p, readable, excluded) ==
    LET target == governed_target_state(p, readable, excluded) IN
    IF check_status_clamp(p) THEN "status_promotion"
    ELSE IF target = "unknown" THEN "governed_target_unverified"
    ELSE IF target = "in_force" THEN "governed_target"
    ELSE "none"

----------------------------------------------------------------------------
(* The gates: what is wrong with a proposal by itself is its flaw.           *)

\* The base the caller read is still the target's.
check_cas(p, tree) == p.marker # Nil => tree[p.path] = p.marker

scan_postimage_for_secrets(p) == p.flaw = "secret"

_writing_rule_gate(p) == p.flaw = "wording"

\* The id belongs to another path of these documents.
Collides(p, docs) == \E q \in Paths \ {p.path} : docs[q] # Nil /\ docs[q].id = p.post.id

\* The ids there will be when the proposal is committed on a tree.
_result_membership(p, tree) ==
    {p.post.id} \cup {tree[q].id : q \in {x \in Paths \ {p.path} : tree[x] # Nil}}

\* A link the proposal adds must lead to one of them; Nil: the tree is unknown.
_supersession_errors(p, snapshot) ==
    IF p.names = Nil THEN {}
    ELSE IF snapshot = Nil THEN {"unresolved_target_unverifiable"}
    ELSE IF p.names \notin _result_membership(p, snapshot) THEN {"unresolved_target"}
    ELSE {}

SNAPSHOT_DEPENDENT_CODES == {"unresolved_target", "unresolved_target_unverifiable"}

\* Against an index and the tree of a commit, as far as each could be read: an
\* unread one has no duplicates.
validate_postimage(p, indexed, snapshot) ==
    IF p.flaw = "malformed" THEN {"invalid_frontmatter"}
    ELSE (IF \E docs \in {indexed, snapshot} : docs # Nil /\ Collides(p, docs)
          THEN {"duplicate_id"} ELSE {})
         \cup _supersession_errors(p, snapshot)

\* Mutant of _governed_lane_check: a demotion stands whatever is wrong with the
\* proposal.
DemotesRegardless(p, readable, excluded) == evaluate_governed_lane(p, readable, excluded)

\* A proposal that is about to be rejected for good is not demoted first. What
\* only the committed tree can tell is left to the commit, and so is the wording.
_governed_lane_check(p, readable, excluded) ==
    LET indexed == IF readable THEN index ELSE Nil
        rejected == \/ scan_postimage_for_secrets(p)
                    \/ validate_postimage(p, indexed, Nil) \ SNAPSHOT_DEPENDENT_CODES # {}
    IN  IF p.auto /\ rejected THEN "none" ELSE evaluate_governed_lane(p, readable, excluded)

\* The gates of the commit path, the first that objects, on the session's
\* refreshed tree and the snapshot read of it.
Gates(p, refreshed, tree, snapshot, override) ==
    IF (p.marker # Nil /\ ~refreshed) \/ ~check_cas(p, tree) THEN "rejected_stale_base"
    ELSE IF scan_postimage_for_secrets(p) /\ ~override THEN "rejected_secret_detected"
    ELSE IF _writing_rule_gate(p) THEN "rejected_writing_rule"
    ELSE IF validate_postimage(p, index, snapshot) # {} THEN "rejected_invalid_document"
    ELSE "passed"

----------------------------------------------------------------------------
(* Proposals.                                                                *)

\* An agent's edit of a document it read in the index, or a new one; auto: sure
\* enough of itself, and allowed to commit without review; names: the target of a
\* link it adds; clashed is set later.
Edits(s, p) ==
    {[session |-> s, path |-> p, post |-> [id |-> i, status |-> st, text |-> proposals + 1],
      auto |-> a, flaw |-> f[1], names |-> f[2], marker |-> m, clashed |-> FALSE] :
        i \in Ids, st \in {"proposed", "accepted"}, a \in BOOLEAN,
        f \in {<<x, Nil>> : x \in Flaws} \cup {<<"none", i>> : i \in Ids}, m \in {Nil, index[p]}}

\* What the server writes for a memory: a status of its own and no links.
_render_memory(i) == [id |-> i, status |-> "proposed", text |-> proposals + 1]

\* A memory, rendered by the server at a name of its own.
Memories(s) ==
    {[session |-> s, path |-> p, post |-> _render_memory(i),
      auto |-> a, flaw |-> f, names |-> Nil, marker |-> Nil, clashed |-> FALSE] :
        p \in {q \in Inbox : trunk[q] = Nil /\ parked[q] = Nil}, i \in Ids, a \in BOOLEAN,
        f \in Flaws \ {"malformed"}}

\* The queue takes the path's lock; a path already locked is refused.
Parks(p) == parked' = IF parked[p.path] = Nil THEN [parked EXCEPT ![p.path] = p] ELSE parked

\* kb_propose_edit_fn up to its decision.
ProposeEdit(s, readable) ==
    /\ call[s] = Nil /\ proposals < MaxProposals /\ proposals' = proposals + 1
    /\ \E path \in Paths \ Inbox, excluded \in BOOLEAN : \E p \in Edits(s, path) :
        IF p.auto /\ _governed_lane_check(p, readable, excluded) = "none"
        THEN /\ call' = [call EXCEPT ![s] = [p EXCEPT !.clashed = readable /\ Collides(p, index)]]
             /\ UNCHANGED parked
        ELSE Parks(p) /\ UNCHANGED call
    /\ UNCHANGED <<gitVars, index, upstream, history>>

ProposeEditReadable(s) == ProposeEdit(s, TRUE)
ProposeEditUnreadable(s) == ProposeEdit(s, FALSE)

\* kb_propose_memory_fn: its status is "proposed", and it has no target to govern.
ProposeMemory(s) ==
    /\ call[s] = Nil /\ proposals < MaxProposals /\ proposals' = proposals + 1
    /\ \E p \in Memories(s) :
        IF p.auto THEN call' = [call EXCEPT ![s] = p] /\ UNCHANGED parked
        ELSE Parks(p) /\ UNCHANGED call
    /\ UNCHANGED <<gitVars, index, upstream, history>>

\* The session's branch after refresh_base: rebased, or as it was.
Refreshed(s, reached) ==
    LET new == Replay(branch[s], trunk) old == Replay(branch[s], base[s]) IN
    IF reached /\ new.commits # Nil
    THEN [ok |-> TRUE, base |-> trunk, tree |-> new.tree, commits |-> new.commits, lifted |-> new.lifted]
    ELSE [ok |-> FALSE, base |-> base[s], tree |-> old.tree, commits |-> branch[s], lifted |-> {}]

\* The write on the refreshed tree, or none, and the branch it leaves.
Lands(s, r, p, commits) ==
    /\ base' = [base EXCEPT ![s] = r.base]
    /\ branch' = [branch EXCEPT ![s] = IF commits
            THEN Append(r.commits, [path |-> p.path, from |-> r.tree[p.path], post |-> p.post])
            ELSE r.commits]
    /\ lifted' = lifted \cup r.lifted
    /\ UNCHANGED trunk

\* The documents of the branch's last commit, or Nil when git cannot read them.
CommitSnapshot(r, readable) == IF readable THEN r.tree ELSE Nil

\* _commit_in_worktree under the serializer, for an agent: the gates, the
\* target's own status on the tree, the commit. checked: the target's status
\* matters; fails: git does, and is reset.
Commit(s, checked, reached, readable, fails) ==
    LET p == call[s]
        r == Refreshed(s, reached)
        passed == Gates(p, r.ok, r.tree, CommitSnapshot(r, readable), FALSE) = "passed"
        governed == checked /\ InForce(r.tree, p.path)
    IN
    /\ p # Nil /\ parked[p.path] = Nil
    /\ Lands(s, r, p, passed /\ ~governed /\ ~fails)
    /\ IF passed /\ governed THEN Parks(p) ELSE UNCHANGED parked
    /\ slipped' = IF passed /\ ~governed /\ p.clashed
                  THEN slipped \cup {p.post.text} ELSE slipped
    /\ call' = [call EXCEPT ![s] = Nil]
    /\ UNCHANGED <<index, proposals, upstream, reviewed>>

\* The refresh, the reading of the tree or the commit may fail.
Commits(s, checked) ==
    \/ Commit(s, checked, TRUE, TRUE, FALSE)
    \/ Commit(s, checked, FALSE, TRUE, FALSE)
    \/ Commit(s, checked, TRUE, FALSE, FALSE)
    \/ Commit(s, checked, TRUE, TRUE, TRUE)

CommitEdit(s) == call[s] # Nil /\ call[s].path \notin Inbox /\ Commits(s, TRUE)

\* A memory's target is new: its status is not looked at.
CommitMemory(s) == call[s] # Nil /\ call[s].path \in Inbox /\ Commits(s, FALSE)

\* The path's lock is taken: the proposal is refused.
CommitBusy(s) ==
    /\ call[s] # Nil /\ parked[call[s].path] # Nil
    /\ call' = [call EXCEPT ![s] = Nil]
    /\ UNCHANGED <<gitVars, index, parked, counters, history>>

----------------------------------------------------------------------------
(* The operator, the push loop, the refresh loop, and other writers.         *)

\* An approval commits past the governed lane, with the secret scan waived or
\* not; a refused one leaves the entry pending.
Approve(p, override) ==
    LET e == parked[p]
        r == Refreshed(e.session, TRUE)
        passed == Gates(e, r.ok, r.tree, CommitSnapshot(r, TRUE), override) = "passed"
    IN
    /\ e # Nil
    /\ Lands(e.session, r, e, passed)
    /\ parked' = IF passed THEN [parked EXCEPT ![p] = Nil] ELSE parked
    /\ reviewed' = IF passed THEN reviewed \cup {e.post.text} ELSE reviewed
    /\ UNCHANGED <<index, call, counters, slipped>>

Reject(p) ==
    /\ parked[p] # Nil
    /\ parked' = [parked EXCEPT ![p] = Nil]
    /\ UNCHANGED <<gitVars, index, call, counters, history>>

\* A branch that rebases is published; one that conflicts is left to the queue.
Push(s) ==
    LET r == Replay(branch[s], trunk) IN
    /\ branch[s] # <<>> /\ r.commits # Nil
    /\ trunk' = r.tree /\ base' = [base EXCEPT ![s] = r.tree]
    /\ branch' = [branch EXCEPT ![s] = <<>>]
    /\ lifted' = lifted \cup r.lifted
    /\ UNCHANGED <<index, call, parked, counters, reviewed, slipped>>

\* The ids of these documents are their own.
DistinctIds(docs) ==
    \A p, q \in Paths : p # q /\ docs[p] # Nil /\ docs[q] # Nil => docs[p].id # docs[q].id

\* A rebuild from trunk; two documents with one id fail it, and the old one stays.
Rebuild ==
    /\ index' = IF DistinctIds(trunk) THEN trunk ELSE index
    /\ UNCHANGED <<gitVars, call, parked, counters, history>>

\* A person's push: a document removed, or its status changed.
Upstream(p) ==
    /\ trunk[p] # Nil /\ upstream < MaxUpstream /\ upstream' = upstream + 1
    /\ \/ trunk' = [trunk EXCEPT ![p] = Nil] /\ UNCHANGED reviewed
       \/ \E st \in {"proposed", "accepted"} \ {trunk[p].status} :
            trunk' = [trunk EXCEPT ![p].status = st] /\ reviewed' = reviewed \cup {trunk[p].text}
    /\ UNCHANGED <<index, base, branch, call, parked, proposals, lifted, slipped>>

Next ==
    \/ \E s \in Sessions :
        \/ ProposeEditReadable(s) \/ ProposeEditUnreadable(s) \/ ProposeMemory(s)
        \/ CommitEdit(s) \/ CommitMemory(s) \/ CommitBusy(s)
        \/ Push(s)
    \/ \E p \in Paths : Approve(p, FALSE) \/ Approve(p, TRUE) \/ Reject(p) \/ Upstream(p)
    \/ Rebuild

Spec == Init /\ [][Next]_vars

----------------------------------------------------------------------------
(* Properties.                                                               *)

\* What governs on trunk, a person has seen: no agent's text is in force there
\* unreviewed, however the index lagged, except by the two ways out that the code
\* leaves: a rebase over a promotion, and an id clash that vanished in between.
GoverningReviewed ==
    \A p \in Paths : InForce(trunk, p) => trunk[p].text \in reviewed \cup lifted \cup slipped

\* A proposal that would commit by itself and carries a secret or is malformed is
\* rejected: it is never parked, whichever of the two judgements would demote it.
RejectedBeforeDemoted ==
    \A p \in Paths : parked[p] # Nil /\ parked[p].auto => parked[p].flaw \in {"none", "wording"}
=============================================================================
