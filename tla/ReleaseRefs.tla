----------------------------- MODULE ReleaseRefs -----------------------------
(* What the release workflows share: main, release/new and its backups,    *)
(* the version engine that names a head's candidate, the surfaces a        *)
(* version is published on, and the one lock the workflows take.           *)
(*                                                                         *)
(* A head is its cut on main and the commits merged since.  A squash on    *)
(* main is named by the reviewed head whose tree it has.  The stable       *)
(* version of a head is its candidate's, with number 0.                    *)
EXTENDS Integers, Sequences, FiniteSets, SequencesExt

CONSTANTS
    Commits,        \* pull requests merged into release/new
    Impact,         \* Impact[c]: the version part the commit's subject raises
    Nil,
    MaxReleases,    \* bound: squashes on main
    MaxFaults       \* bound: failures of a job, a push, a read or a runner

ASSUME RefsAssumption == Impact \in [Commits -> 1..3] /\ {MaxReleases, MaxFaults} \subseteq Nat

VARIABLES
    mainline,       \* the squashes on main since the first stable tag
    branch,         \* the head of release/new, or Nil
    preserved,      \* the heads under the preservation refs
    merged,         \* history: the heads release/new has had
    tags,           \* version tags: [v, at, binds]
    pypi,           \* files: [v, bytes, listed]
    images,         \* GHCR version tags: [v, digest]
    channels,       \* GHCR channels
    releases,       \* GitHub releases: [v, id, draft, listed, whole, assets]
    lock,           \* the run that holds data-olympus-promotion, or Nil
    failed,         \* the run "Re-run failed jobs" would continue, or Nil
    faults

refs == <<mainline, branch, preserved, merged>>
surfaces == <<tags, pypi, images, channels, releases>>

HeadAt(cut, commits) == [cut |-> cut, commits |-> commits]

InitRefs ==
    /\ mainline = <<>>
    /\ branch = HeadAt(0, <<>>)
    /\ preserved = {} /\ merged = {HeadAt(0, <<>>)}
    /\ tags = {} /\ pypi = {} /\ images = {} /\ releases = {}
    /\ channels = [c \in {"rc", "stable", "latest"} |-> Nil]
    /\ lock = Nil /\ failed = Nil /\ faults = 0

Fault == faults < MaxFaults /\ faults' = faults + 1

-----------------------------------------------------------------------------
(* The version engine.                                                     *)

Highest(commits) ==
    LET found == {Impact[c] : c \in ToSet(commits)}
    IN  IF found = {} THEN 0 ELSE CHOOSE i \in found : \A j \in found : j <= i

Target(h) == [cut |-> h.cut, impact |-> Highest(h.commits), number |-> 0]

Candidate(h) == [Target(h) EXCEPT !.number = Len(h.commits)]

TagOf(v) == {t \in tags : t.v = v}

\* The cut carries a stable tag; the first one was there before.
CutTagged(cut) ==
    cut > 0 => \E t \in TagOf(Target(mainline[cut])) : t.at = mainline[cut]

\* compute_version: main is the head's cut, or the branch must be cut again.
Computable(h) == h.cut = Len(mainline) /\ CutTagged(h.cut) /\ h.commits # <<>>

-----------------------------------------------------------------------------
(* Surfaces.                                                               *)

Python == {"wheel", "sdist"}
Files == Python \cup {"provenance"}

\* A file of one build: no two builds agree on its bytes.
Bytes(h, build, f) == <<f, h, build>>

Dists(h, build) == {Bytes(h, build, f) : f \in Python}
Assets(h, build) == {Bytes(h, build, f) : f \in Files}
Digest(h, build) == Bytes(h, build, "image")

\* The PyPI JSON and the release listing lag behind a write.
Listed(v) == {x.bytes : x \in {y \in pypi : y.v = v /\ y.listed}}

ImageOf(v) == {x.digest : x \in {y \in images : y.v = v}}

\* Drafts are listed only to a token with push access.
Visible(v, push) == {x \in releases : x.v = v /\ x.listed /\ (push \/ ~x.draft)}

CreateTag(v, h, binds) == tags' = tags \cup {[v |-> v, at |-> h, binds |-> binds]}

CreateDraft(v) ==
    releases' = releases \cup
        {[v |-> v, id |-> Cardinality({x \in releases : x.v = v}), draft |-> TRUE,
          listed |-> FALSE, whole |-> TRUE, assets |-> {}]}

Replace(x, y) == releases' = (releases \ {x}) \cup {y}

Upload(x, bytes) == Replace(x, [x EXCEPT !.assets = @ \cup {bytes}])

\* The upload of an asset stops half way.
UploadCut(x) == Replace(x, [x EXCEPT !.whole = FALSE])

Publish(x) == Replace(x, [x EXCEPT !.draft = FALSE])

\* A name that PyPI holds already is a conflict.
Holds(v, f) == \E x \in pypi : x.v = v /\ x.bytes[1] = f

PutPython(v, bytes) ==
    pypi' = pypi \cup {[v |-> v, bytes |-> bytes, listed |-> FALSE]}

\* The listings catch up.
Settle ==
    /\ \/ \E x \in pypi : ~x.listed
       \/ \E x \in releases : ~x.listed
    /\ pypi' = {[x EXCEPT !.listed = TRUE] : x \in pypi}
    /\ releases' = {[x EXCEPT !.listed = TRUE] : x \in releases}
    /\ UNCHANGED <<refs, tags, images, channels, lock, failed, faults>>

-----------------------------------------------------------------------------
(* Maintainers.                                                            *)

\* A pull request is merged into release/new.
MergePull(c) ==
    /\ branch # Nil
    /\ \A x \in merged : c \notin ToSet(x.commits)
    /\ branch' = [branch EXCEPT !.commits = Append(@, c)]
    /\ merged' = merged \cup {branch'}
    /\ UNCHANGED <<mainline, preserved, surfaces, lock, failed, faults>>

\* The release pull request is squashed onto main.
SquashRelease ==
    /\ branch # Nil
    /\ Len(mainline) < MaxReleases
    /\ Computable(branch)
    /\ mainline' = Append(mainline, branch)
    /\ UNCHANGED <<branch, preserved, merged, surfaces, lock, failed, faults>>

\* A refusal asks the operator to delete a draft by hand.
DeleteDraft ==
    /\ failed # Nil
    /\ lock = Nil
    /\ \E x \in releases : x.draft /\ x.listed /\ releases' = releases \ {x}
    /\ UNCHANGED <<refs, tags, pypi, images, channels, lock, failed, faults>>

Maintaining == \/ \E c \in Commits : MergePull(c)
               \/ SquashRelease \/ DeleteDraft \/ Settle
=============================================================================
