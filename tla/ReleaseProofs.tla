----------------------------- MODULE ReleaseProofs -----------------------------
(* Proofs about the release workflows: what a published candidate and a        *)
(* published stable release consist of, what a tag binds, and that no recut    *)
(* loses a head or leaves the branch absent in silence; for any number of      *)
(* releases, builds, commits, refusals, re-runs and faults.                    *)
EXTENDS ReleasePipeline, FiniteSetTheorems, TLAPS

----------------------------------------------------------------------------
(* Types.                                                                    *)

AllBytes == Files \X Heads \X Builds

PublicationRuns ==
    [flow : {"publication"}, h : Heads, build : Builds, at : DOMAIN JobOf, todo : SUBSET AllBytes]

PromotionRuns ==
    [flow : {"promotion"}, h : Heads, build : Builds, rebuild : Builds, resume : BOOLEAN,
     at : DOMAIN JobOfPromotion, todo : SUBSET AllBytes]

PythonFiles == [v : Versions, bytes : AllBytes, listed : BOOLEAN]

Releases == [v : Versions, id : Nat, draft : BOOLEAN, listed : BOOLEAN, whole : BOOLEAN,
             assets : SUBSET AllBytes]

TypeOK ==
    /\ mainline \in Seq(Heads)
    /\ branch \in Heads \cup {Nil}
    /\ preserved \subseteq Heads /\ merged \subseteq Heads
    /\ tags \subseteq Tags
    /\ pypi \subseteq PythonFiles
    /\ releases \subseteq Releases /\ IsFiniteSet(releases)
    /\ lock \in PublicationRuns \cup PromotionRuns \cup RecutRuns \cup {Nil}
    /\ failed \in PublicationRuns \cup PromotionRuns \cup {Nil}
    /\ \A b \in built : b = <<b[1], b[2]>> /\ b[1] \in Heads /\ b[2] \in Builds
    /\ \A b \in attested : b[1] \in Heads /\ b[2] \in Builds

----------------------------------------------------------------------------
(* The branch and the recut.                                                 *)

\* The head a recut deletes was preserved before, and it goes on only from what
\* it found: the branch is absent only while it is the recut's to put back.
RecutKeeps ==
    Running("recut") =>
        /\ lock.op \in {"delete", "create"} => lock.old \in preserved
        /\ lock.at = "recover" => lock.op \in {"delete", "create"}
        /\ branch = Nil =>
            \/ lock.op = "create"
            \/ lock.op = "delete" /\ lock.at \in {"confirm", "error", "recover"}

AbsenceKnown == branch = Nil /\ ~Running("recut") => outcome \in {"told", "died"}

----------------------------------------------------------------------------
(* The candidate's tag, its files and its image.                             *)

IsCandidate(v) == v.number > 0

\* A candidate version has one tag, and it binds the assets of one build.
TagsBind ==
    /\ \A t \in tags : IsCandidate(t.v) =>
        t.v = Candidate(t.at) /\ \E b \in Builds : t.binds = Assets(t.at, b)
    /\ \A t, u \in tags : IsCandidate(t.v) /\ t.v = u.v => t = u

\* PyPI has each name of a version once, and a candidate's tag binds its files.
FilesBound ==
    /\ \A x \in pypi : x.bytes[1] \in Python
    /\ \A x, y \in pypi : x.v = y.v /\ x.bytes[1] = y.bytes[1] => x = y
    /\ \A x \in pypi : IsCandidate(x.v) => \E t \in TagOf(x.v) : x.bytes \in t.binds

\* A candidate's image is that of the build whose assets its tag binds.
ImagesBound ==
    \A x \in images : IsCandidate(x.v) =>
        \E t \in TagOf(x.v) : \E b \in Builds :
            t.binds = Assets(t.at, b) /\ x.digest = Digest(t.at, b)

\* The tag a run works under.
TagBound(r) == [v |-> Candidate(r.h), at |-> r.h, binds |-> Assets(r.h, r.build)] \in tags

----------------------------------------------------------------------------
(* GitHub releases.                                                          *)

ReleasesOf(v) == {x \in releases : x.v = v}

\* The releases of a version are seen together or not at all, since one is made
\* only when none is seen; and no two have the same id.
ReleasesApart ==
    /\ \A x, y \in releases : x.v = y.v => x.listed = y.listed
    /\ \A x, y \in releases : x.v = y.v /\ x.id = y.id => x = y
    /\ \A x \in releases : ~x.listed => x.id < Cardinality(ReleasesOf(x.v))

----------------------------------------------------------------------------
(* The runs.                                                                 *)

\* A publication is of a head with commits; what is past the attest job is attested.
PublicationFine(r) ==
    /\ r.h.commits # <<>>
    /\ r.at \in {"finalize", "open"} => <<r.h, r.build>> \in attested

\* What the steps of a publication rely on from the job's verification.
PublicationHolds ==
    Running("publication") =>
        /\ lock.at = "tag" => TagOf(Candidate(lock.h)) = {}
        /\ lock.at \in {"upload", "await", "image", "open"} => TagBound(lock)
        /\ lock.at = "upload" => lock.todo \subseteq Dists(lock.h, lock.build)
        /\ lock.at = "open" =>
            /\ Listed(Candidate(lock.h)) = Dists(lock.h, lock.build)
            /\ ImageOf(Candidate(lock.h)) = {Digest(lock.h, lock.build)}
            /\ \A x \in releases : x.v = Candidate(lock.h) =>
                x.listed /\ x.assets = Assets(lock.h, lock.build)

\* A promotion is of a squash on main; once past its uploads PyPI lists its files.
PromotionFine(r) ==
    /\ r.h \in ToSet(mainline)
    /\ r.at \in {"tagging", "image", "stable", "latest", "draft", "listing", "assets", "open"} =>
        Listed(Version(r)) = Dists(r.h, r.rebuild)

PromotionHolds ==
    Running("promotion") =>
        /\ lock.at = "upload" => lock.todo \subseteq Dists(lock.h, lock.rebuild)
        /\ lock.at = "open" =>
            /\ \A x \in releases : x.v = Version(lock) => x.listed
            /\ \A x \in Resolved(Version(lock)) : x.assets = Assets(lock.h, lock.rebuild)

\* "Re-run failed jobs" continues at a job, never in the middle of one.
RunsFine ==
    /\ \A b \in built : b[1].commits # <<>>
    /\ \A r \in {lock, failed} \ {Nil} :
        /\ r.flow = "publication" => PublicationFine(r)
        /\ r.flow = "promotion" => PromotionFine(r)
    /\ failed # Nil => failed.at \in IF failed.flow = "publication"
                                     THEN {"pypi", "publish", "attest", "finalize"}
                                     ELSE {"recheck", "tagging", "image", "draft"}

IInv ==
    /\ TypeOK
    /\ RecutKeeps /\ AbsenceKnown /\ HeadKept
    /\ TagsBind /\ FilesBound /\ ImagesBound /\ ReleasesApart
    /\ RunsFine /\ PublicationHolds /\ PromotionHolds
    /\ PublishedComplete /\ StableComplete

----------------------------------------------------------------------------
(* Versions.                                                                 *)

LEMMA HighestTyped == ASSUME NEW s \in Seq(Commits) PROVE Highest(s) \in Nat
<1> DEFINE found == {Impact[c] : c \in ToSet(s)}
<1>1. \A c \in ToSet(s) : c \in Commits
  BY DEF ToSet
<1>2. found \subseteq 1..3
  BY <1>1, RefsAssumption
<1> HIDE DEF found
<1>3. found # {} => \E i \in found : \A j \in found : j <= i
  <2>1. CASE 3 \in found
    BY <1>2, <2>1
  <2>2. CASE 3 \notin found /\ 2 \in found
    <3>1. \A j \in found : j <= 2
      BY <1>2, <2>2
    <3>2. QED
      BY <2>2, <3>1
  <2>3. CASE 3 \notin found /\ 2 \notin found
    <3>1. \A j \in found : j = 1
      BY <1>2, <2>3
    <3>2. QED
      BY <3>1
  <2>4. QED
    BY <2>1, <2>2, <2>3
<1>4. found # {} => (CHOOSE i \in found : \A j \in found : j <= i) \in found
  BY <1>3
<1>5. Highest(s) = IF found = {} THEN 0 ELSE CHOOSE i \in found : \A j \in found : j <= i
  BY DEF Highest, found
<1>6. CASE found = {}
  BY <1>5, <1>6
<1>7. CASE found # {}
  <2>1. Highest(s) \in 1..3
    BY <1>2, <1>4, <1>5, <1>7
  <2>2. QED
    BY <2>1
<1>8. QED
  BY <1>6, <1>7

\* A head's stable version has number 0, and its candidate's says how many commits
\* it has: no version is of both kinds if the head has commits.
LEMMA VersionsTyped ==
    ASSUME NEW h \in Heads
    PROVE  /\ Target(h) \in Versions /\ Candidate(h) \in Versions
           /\ Target(h).number = 0 /\ Candidate(h).number = Len(h.commits)
           /\ h.commits # <<>> => IsCandidate(Candidate(h))
           /\ ~IsCandidate(Target(h))
<1>1. h.cut \in Nat /\ h.commits \in Seq(Commits) /\ Len(h.commits) \in Nat
  BY DEF Heads
<1>2. Highest(h.commits) \in Nat
  BY <1>1, HighestTyped
<1>3. Target(h) \in Versions /\ Target(h).number = 0
  BY <1>1, <1>2 DEF Target, Versions
<1>4. Candidate(h) \in Versions /\ Candidate(h).number = Len(h.commits)
  BY <1>1, <1>3 DEF Candidate, Versions
<1>5. h.commits # <<>> => Len(h.commits) > 0
  BY <1>1
<1>6. QED
  BY <1>3, <1>4, <1>5 DEF IsCandidate

LEMMA AssetsTyped ==
    ASSUME NEW h \in Heads, NEW b \in Builds
    PROVE  /\ Assets(h, b) \subseteq AllBytes /\ Dists(h, b) \subseteq Assets(h, b)
           /\ \A x \in Dists(h, b) : x[1] \in Python
           /\ \A f \in Python : \E x \in Dists(h, b) : x[1] = f
<1>1. \A f : Bytes(h, b, f) = <<f, h, b>> /\ Bytes(h, b, f)[1] = f
  BY DEF Bytes
<1>2. Python \subseteq Files
  BY DEF Files
<1>3. Assets(h, b) \subseteq AllBytes
  BY <1>1 DEF Assets, AllBytes
<1>4. Dists(h, b) \subseteq Assets(h, b)
  BY <1>2 DEF Assets, Dists
<1>5. \A x \in Dists(h, b) : x[1] \in Python
  BY <1>1 DEF Dists
<1>6. \A f \in Python : Bytes(h, b, f) \in Dists(h, b)
  BY DEF Dists
<1>7. QED
  BY <1>1, <1>3, <1>4, <1>5, <1>6

\* What a set of bytes holds of Python files is what the build has.
LEMMA PythonOfAssets ==
    ASSUME NEW h, NEW b, NEW x \in Assets(h, b), x[1] \in Python
    PROVE  x \in Dists(h, b)
  BY DEF Assets, Dists, Bytes

\* The builds of equal assets are the same.
LEMMA AssetsTell ==
    ASSUME NEW h, NEW b, NEW g, NEW c, Assets(h, b) = Assets(g, c)
    PROVE  Dists(h, b) = Dists(g, c) /\ Digest(h, b) = Digest(g, c)
<1>1. Bytes(h, b, "provenance") \in Assets(g, c)
  BY DEF Assets, Files
<1>2. h = g /\ b = c
  BY <1>1 DEF Assets, Bytes
<1>3. QED
  BY <1>2

----------------------------------------------------------------------------
(* Which steps write what.                                                   *)

LEMMA TagsWritten ==
    ASSUME [Next]_pipelineVars
    PROVE  tags' = tags \/ ReserveTag \/ TagStable
<1>1. CASE Maintaining
  BY <1>1 DEF Maintaining, MergePull, SquashRelease, DeleteDraft, Settle, surfaces, refs
<1>2. CASE PublicationNext
  BY <1>2 DEF PublicationNext, BuildCandidate, RunPublication, PublicationSteps, Attest,
        PublicationFails, Reserve, ReserveDraft, DraftListed, ReserveAsset, StageUpload,
        UploadPython, PublishJob, AwaitPython, PushImage, MoveChannel, Reverify, Finalize,
        PublishDraft, surfaces
<1>3. CASE PromotionNext
  BY <1>3 DEF PromotionNext, RunPromotion, PromotionSteps, PromotionFails, ProveJob, Recheck,
        UploadStable, VerifyPython, PromoteImage, PromoteChannel, ReleaseDraft, ReleaseListed,
        CompleteRelease, PublishRelease, surfaces
<1>4. CASE RecutNext
  BY <1>4 DEF RecutNext, StartRecut, ReadBefore, Push, Confirm, RecutError, Recover, RunnerDies,
        RestoreByHand, Unmoved, surfaces
<1>5. QED
  BY <1>1, <1>2, <1>3, <1>4 DEF Next, pipelineVars, surfaces

LEMMA FilesWritten ==
    ASSUME [Next]_pipelineVars
    PROVE  pypi' = pypi \/ Settle \/ UploadPython \/ UploadStable
<1>1. CASE Maintaining
  BY <1>1 DEF Maintaining, MergePull, SquashRelease, DeleteDraft, surfaces, refs
<1>2. CASE PublicationNext
  BY <1>2 DEF PublicationNext, BuildCandidate, RunPublication, PublicationSteps, Attest,
        PublicationFails, Reserve, ReserveTag, ReserveDraft, DraftListed, ReserveAsset, StageUpload,
        PublishJob, AwaitPython, PushImage, MoveChannel, Reverify, Finalize,
        PublishDraft, surfaces
<1>3. CASE PromotionNext
  BY <1>3 DEF PromotionNext, RunPromotion, PromotionSteps, PromotionFails, ProveJob, Recheck,
        VerifyPython, TagStable, PromoteImage, PromoteChannel, ReleaseDraft, ReleaseListed,
        CompleteRelease, PublishRelease, surfaces
<1>4. CASE RecutNext
  BY <1>4 DEF RecutNext, StartRecut, ReadBefore, Push, Confirm, RecutError, Recover, RunnerDies,
        RestoreByHand, Unmoved, surfaces
<1>5. QED
  BY <1>1, <1>2, <1>3, <1>4 DEF Next, pipelineVars, surfaces

LEMMA ImagesWritten ==
    ASSUME [Next]_pipelineVars
    PROVE  images' = images \/ PushImage \/ PromoteImage
<1>1. CASE Maintaining
  BY <1>1 DEF Maintaining, MergePull, SquashRelease, DeleteDraft, Settle, surfaces, refs
<1>2. CASE PublicationNext
  BY <1>2 DEF PublicationNext, BuildCandidate, RunPublication, PublicationSteps, Attest,
        PublicationFails, Reserve, ReserveTag, ReserveDraft, DraftListed, ReserveAsset, StageUpload,
        UploadPython, PublishJob, AwaitPython, MoveChannel, Reverify, Finalize,
        PublishDraft, surfaces
<1>3. CASE PromotionNext
  BY <1>3 DEF PromotionNext, RunPromotion, PromotionSteps, PromotionFails, ProveJob, Recheck,
        UploadStable, VerifyPython, TagStable, PromoteChannel, ReleaseDraft, ReleaseListed,
        CompleteRelease, PublishRelease, surfaces
<1>4. CASE RecutNext
  BY <1>4 DEF RecutNext, StartRecut, ReadBefore, Push, Confirm, RecutError, Recover, RunnerDies,
        RestoreByHand, Unmoved, surfaces
<1>5. QED
  BY <1>1, <1>2, <1>3, <1>4 DEF Next, pipelineVars, surfaces

LEMMA ReleasesWritten ==
    ASSUME [Next]_pipelineVars
    PROVE  \/ releases' = releases
           \/ Settle \/ DeleteDraft
           \/ ReserveDraft \/ ReserveAsset \/ PublishDraft \/ PublicationFails
           \/ ReleaseDraft \/ CompleteRelease \/ PublishRelease \/ PromotionFails
<1>1. CASE Maintaining
  BY <1>1 DEF Maintaining, MergePull, SquashRelease, surfaces, refs
<1>2. CASE PublicationNext
  BY <1>2 DEF PublicationNext, BuildCandidate, RunPublication, PublicationSteps, Attest,
        Reserve, ReserveTag, DraftListed, StageUpload,
        UploadPython, PublishJob, AwaitPython, PushImage, MoveChannel, Reverify, Finalize, surfaces
<1>3. CASE PromotionNext
  BY <1>3 DEF PromotionNext, RunPromotion, PromotionSteps, ProveJob, Recheck,
        UploadStable, VerifyPython, TagStable, PromoteImage, PromoteChannel, ReleaseListed, surfaces
<1>4. CASE RecutNext
  BY <1>4 DEF RecutNext, StartRecut, ReadBefore, Push, Confirm, RecutError, Recover, RunnerDies,
        RestoreByHand, Unmoved, surfaces
<1>5. QED
  BY <1>1, <1>2, <1>3, <1>4 DEF Next, pipelineVars, surfaces

\* What publications and promotions leave to maintainers and recuts, and what the
\* latter leave to them.
LEMMA RefsWritten ==
    ASSUME [Next]_pipelineVars
    PROVE  /\ \/ mainline' = mainline
              \/ SquashRelease
           /\ \/ UNCHANGED <<branch, preserved, merged>> /\ outcome' = outcome
              \/ \E c \in Commits : MergePull(c) /\ outcome' = outcome
              \/ RecutNext
           /\ \/ UNCHANGED <<built, attested>>
              \/ \E build \in Builds : BuildCandidate(build)
              \/ Attest
<1>1. CASE Maintaining /\ UNCHANGED <<faults, publicationVars, outcome>>
  BY <1>1 DEF Maintaining, MergePull, SquashRelease, DeleteDraft, Settle, publicationVars, refs
<1>2. CASE PublicationNext /\ UNCHANGED outcome
  BY <1>2 DEF PublicationNext, BuildCandidate, RunPublication, PublicationSteps, Attest,
        PublicationFails, publicationVars, refs
<1>3. CASE PromotionNext /\ UNCHANGED outcome
  BY <1>3 DEF PromotionNext, RunPromotion, PromotionSteps, PromotionFails, promotionVars,
        publicationVars, refs
<1>4. CASE RecutNext
  BY <1>4 DEF RecutNext, StartRecut, ReadBefore, Push, Confirm, RecutError, Recover, RunnerDies,
        RestoreByHand, Unmoved, publicationVars
<1>5. QED
  BY <1>1, <1>2, <1>3, <1>4 DEF Next, pipelineVars, publicationVars, refs

LEMMA FailedWritten ==
    ASSUME [Next]_pipelineVars
    PROVE  failed' = failed \/ PublicationFails \/ PromotionFails
<1>1. CASE Maintaining
  BY <1>1 DEF Maintaining, MergePull, SquashRelease, DeleteDraft, Settle, surfaces, refs
<1>2. CASE PublicationNext
  BY <1>2 DEF PublicationNext, BuildCandidate, RunPublication, PublicationSteps, Attest,
        Reserve, ReserveTag, ReserveDraft, DraftListed, ReserveAsset, StageUpload,
        UploadPython, PublishJob, AwaitPython, PushImage, MoveChannel, Reverify, Finalize,
        PublishDraft, surfaces
<1>3. CASE PromotionNext
  BY <1>3 DEF PromotionNext, RunPromotion, PromotionSteps, ProveJob, Recheck,
        UploadStable, VerifyPython, TagStable, PromoteImage, PromoteChannel, ReleaseDraft,
        ReleaseListed, CompleteRelease, PublishRelease, surfaces
<1>4. CASE RecutNext
  BY <1>4 DEF RecutNext, StartRecut, ReadBefore, Push, Confirm, RecutError, Recover, RunnerDies,
        RestoreByHand, Unmoved, surfaces
<1>5. QED
  BY <1>1, <1>2, <1>3, <1>4 DEF Next, pipelineVars, surfaces

\* Maintainers leave the lock alone.
LEMMA LockWritten ==
    ASSUME [Next]_pipelineVars
    PROVE  lock' = lock \/ PublicationNext \/ PromotionNext \/ RecutNext
  BY DEF Next, pipelineVars, Maintaining, MergePull, SquashRelease, DeleteDraft, Settle

\* The run that a step belongs to.
LEMMA RunTyped ==
    ASSUME TypeOK
    PROVE  /\ Running("publication") => lock \in PublicationRuns
           /\ Running("promotion") => lock \in PromotionRuns
           /\ Running("recut") <=> lock \in RecutRuns
           /\ \A r \in RecutRuns : r # Nil /\ r.flow = "recut"
<1>1. /\ \A r \in PublicationRuns : r.flow = "publication"
      /\ \A r \in PromotionRuns : r.flow = "promotion"
      /\ \A r \in RecutRuns : r.flow = "recut" /\ r # Nil
  BY NilAssumption DEF PublicationRuns, PromotionRuns, RecutRuns
<1>2. CASE lock = Nil
  BY <1>1, <1>2 DEF Running
<1>3. CASE lock # Nil
  BY <1>1, <1>3 DEF TypeOK, Running
<1>4. QED
  BY <1>1, <1>2, <1>3

----------------------------------------------------------------------------
(* The branch and the recut: no head is lost and no absence is silent.       *)

LEMMA PrefixGrows ==
    ASSUME NEW x \in Seq(Commits), NEW y \in Seq(Commits), IsPrefix(x, y), NEW c \in Commits
    PROVE  IsPrefix(x, Append(y, c))
  BY DEF IsPrefix

LEMMA PrefixSame == ASSUME NEW x \in Seq(Commits) PROVE IsPrefix(x, x)
  BY DEF IsPrefix

LEMMA MergeKeeps ==
    ASSUME TypeOK, HeadKept, NEW c \in Commits, MergePull(c)
    PROVE  /\ branch' \in Heads /\ merged' \subseteq Heads /\ branch' # Nil
           /\ HeadKept'
<1>1. /\ branch \in Heads /\ branch # Nil /\ branch' = [branch EXCEPT !.commits = Append(@, c)]
      /\ merged' = merged \cup {branch'} /\ preserved' = preserved /\ merged \subseteq Heads
  BY DEF TypeOK, MergePull
<1>2. /\ branch.commits \in Seq(Commits)
      /\ branch'.commits = Append(branch.commits, c) /\ branch'.cut = branch.cut
      /\ branch' \in Heads
  <2>1. branch.commits \in Seq(Commits) /\ branch.cut \in Nat
    BY <1>1 DEF Heads
  <2>2. Append(branch.commits, c) \in Seq(Commits)
    BY <2>1
  <2>3. branch' = [cut |-> branch.cut, commits |-> Append(branch.commits, c)]
    BY <1>1 DEF Heads
  <2>4. QED
    BY <2>1, <2>2, <2>3 DEF Heads
<1>3. branch' # Nil
  BY <1>2, NilAssumption
<1>4. ASSUME NEW x \in merged', x.commits # <<>>
      PROVE  \E y \in preserved' \cup ({branch'} \ {Nil}) :
                y.cut = x.cut /\ IsPrefix(x.commits, y.commits)
  <2>1. CASE x = branch'
    <3>1. IsPrefix(x.commits, x.commits)
      BY <1>2, <2>1, PrefixSame
    <3>2. QED
      BY <1>3, <2>1, <3>1
  <2>2. CASE x \in merged
    <3>1. x.commits \in Seq(Commits)
      BY <1>1, <2>2 DEF Heads
    <3>2. PICK y \in preserved \cup ({branch} \ {Nil}) :
            y.cut = x.cut /\ IsPrefix(x.commits, y.commits)
      BY <1>4, <2>2 DEF HeadKept
    <3>3. CASE y \in preserved
      BY <1>1, <3>2, <3>3
    <3>4. CASE y = branch
      <4>1. IsPrefix(x.commits, branch'.commits) /\ branch'.cut = x.cut
        BY <1>2, <3>1, <3>2, <3>4, PrefixGrows
      <4>2. QED
        BY <1>3, <4>1
    <3>5. QED
      BY <3>2, <3>3, <3>4
  <2>3. QED
    BY <1>1, <1>4, <2>1, <2>2
<1>5. HeadKept'
  BY <1>4 DEF HeadKept
<1>6. QED
  BY <1>1, <1>2, <1>3, <1>5

\* The heads that are kept, whatever happens to the branch, when what it had is
\* preserved.
LEMMA StaysKept ==
    ASSUME HeadKept, merged' = merged, preserved \subseteq preserved',
           branch = Nil \/ branch' = branch \/ branch \in preserved'
    PROVE  HeadKept'
  BY DEF HeadKept

LEMMA RecutFine ==
    ASSUME TypeOK, RecutKeeps, AbsenceKnown, HeadKept, RecutNext
    PROVE  /\ branch' \in Heads \cup {Nil} /\ preserved' \subseteq Heads
           /\ lock' \in RecutRuns \cup {Nil} \/ lock' = lock
           /\ RecutKeeps' /\ AbsenceKnown' /\ HeadKept'
<1>t. /\ mainline \in Seq(Heads) /\ branch \in Heads \cup {Nil} /\ preserved \subseteq Heads
      /\ tags \subseteq Tags /\ Len(mainline) \in Nat
      /\ Running("recut") <=> lock \in RecutRuns
      /\ \A r \in RecutRuns : r # Nil /\ r.flow = "recut"
      /\ Nil \notin Heads
  BY RunTyped, NilAssumption DEF TypeOK
<1>u. merged' = merged
  BY DEF RecutNext, StartRecut, ReadBefore, Push, Confirm, RecutError, Recover, RunnerDies,
        RestoreByHand, Unmoved
<1>r. Remote \in [main : Seq(Heads), branch : Heads \cup {Nil}, preserved : SUBSET Heads,
                  tags : SUBSET Tags]
  BY <1>t DEF Remote
<1>1. CASE StartRecut
  <2>1. /\ branch # Nil /\ UNCHANGED <<branch, preserved, outcome>>
        /\ lock' = [flow |-> "recut", op |-> "backup", at |-> "read", expected |-> Remote,
                    old |-> branch, base |-> HeadAt(Len(mainline), <<>>)]
    BY <1>1 DEF StartRecut, Recuttable
  <2>2. HeadAt(Len(mainline), <<>>) \in Heads
    BY <1>t DEF HeadAt, Heads
  <2>3. lock' \in RecutRuns /\ lock'.op = "backup" /\ lock'.at = "read" /\ lock'.flow = "recut"
    BY <1>t, <1>r, <2>1, <2>2 DEF RecutRuns
  <2>4. HeadKept'
    BY <1>u, <2>1, StaysKept
  <2>5. QED
    BY <1>t, <2>1, <2>3, <2>4 DEF RecutKeeps, AbsenceKnown, Running
<1>2. CASE ReadBefore
  <2>1. /\ lock \in RecutRuns /\ lock.at = "read" /\ UNCHANGED <<branch, preserved, outcome>>
        /\ lock' = [lock EXCEPT !.at = "push"] \/ lock' = [lock EXCEPT !.at = "stale"]
    BY <1>2, <1>t DEF ReadBefore, At, Goto
  <2>2. /\ lock' \in RecutRuns /\ lock'.op = lock.op /\ lock'.old = lock.old
        /\ lock'.at \in {"push", "stale"}
    BY <2>1 DEF RecutRuns
  <2>3. HeadKept'
    BY <1>u, <2>1, StaysKept
  <2>4. QED
    BY <1>t, <2>1, <2>2, <2>3 DEF RecutKeeps, AbsenceKnown, Running
<1>3. CASE Push
  <2>1. /\ lock \in RecutRuns /\ lock.at = "push" /\ UNCHANGED outcome
        /\ lock' = [lock EXCEPT !.at = "confirm"] \/ lock' = [lock EXCEPT !.at = "error"]
    BY <1>3, <1>t DEF Push, At, Goto
  <2>2. /\ lock' \in RecutRuns /\ lock'.op = lock.op /\ lock'.old = lock.old
        /\ lock'.at \in {"confirm", "error"} /\ lock.op \in {"backup", "delete", "create"}
        /\ lock.old \in Heads /\ lock.base \in Heads
    BY <2>1 DEF RecutRuns
  <2>3. CASE UNCHANGED <<branch, preserved>>
    <3>1. HeadKept'
      BY <1>u, <2>3, StaysKept
    <3>2. QED
      BY <1>t, <2>1, <2>2, <2>3, <3>1 DEF RecutKeeps, AbsenceKnown, Running
  <2>4. CASE /\ AcceptedPush(lock)
             /\ branch' = AfterOperation(lock, Remote).branch
             /\ preserved' = AfterOperation(lock, Remote).preserved
    <3>1. CASE lock.op = "backup"
      <4>1. branch' = branch /\ preserved' = preserved \cup {lock.old}
        BY <2>4, <3>1 DEF AfterOperation, Remote
      <4>2. HeadKept'
        BY <1>u, <4>1, StaysKept
      <4>3. QED
        BY <1>t, <2>1, <2>2, <3>1, <4>1, <4>2 DEF RecutKeeps, AbsenceKnown, Running
    <3>2. CASE lock.op = "delete"
      <4>1. branch' = Nil /\ preserved' = preserved /\ branch = lock.old
        BY <2>4, <3>2 DEF AfterOperation, Remote, AcceptedPush
      <4>2. lock.old \in preserved
        BY <1>t, <2>1, <3>2 DEF RecutKeeps
      <4>3. HeadKept'
        BY <1>u, <4>1, <4>2, StaysKept
      <4>4. QED
        BY <1>t, <2>1, <2>2, <3>2, <4>1, <4>2, <4>3 DEF RecutKeeps, AbsenceKnown, Running
    <3>3. CASE lock.op = "create"
      <4>1. branch' = lock.base /\ preserved' = preserved /\ branch = Nil
        BY <2>4, <3>3 DEF AfterOperation, Remote, AcceptedPush
      <4>2. HeadKept'
        BY <1>u, <4>1, StaysKept
      <4>3. QED
        BY <1>t, <2>1, <2>2, <3>3, <4>1, <4>2 DEF RecutKeeps, AbsenceKnown, Running
    <3>4. QED
      BY <2>2, <3>1, <3>2, <3>3
  <2>5. QED
    BY <1>3, <2>3, <2>4 DEF Push
<1>4. CASE Confirm
  <2>1. lock \in RecutRuns /\ lock.at = "confirm" /\ UNCHANGED <<branch, preserved>>
    BY <1>4, <1>t DEF Confirm, At
  <2>2. /\ lock.op \in {"backup", "delete", "create"} /\ lock.old \in Heads /\ lock.base \in Heads
        /\ DOMAIN lock.expected = {"main", "branch", "preserved", "tags"}
    BY <2>1 DEF RecutRuns
  <2>3. HeadKept'
    BY <1>u, <2>1, StaysKept
  <2>4. CASE Remote = AfterOperation(lock, lock.expected) /\ lock.op = "create" /\ End("done")
    <3>1. branch = lock.base
      BY <2>2, <2>4 DEF AfterOperation, Remote
    <3>2. lock' = Nil
      BY <2>4 DEF End
    <3>3. QED
      BY <1>t, <2>1, <2>2, <2>3, <3>1, <3>2 DEF RecutKeeps, AbsenceKnown, Running
  <2>5. CASE /\ Remote = AfterOperation(lock, lock.expected) /\ lock.op # "create"
             /\ lock' = [lock EXCEPT !.op = IF @ = "backup" THEN "delete" ELSE "create",
                                     !.at = "read", !.expected = Remote]
    <3>1. /\ lock' \in RecutRuns /\ lock'.at = "read" /\ lock'.old = lock.old
          /\ lock'.op = IF lock.op = "backup" THEN "delete" ELSE "create"
      BY <1>r, <2>1, <2>5 DEF RecutRuns
    <3>2. lock.old \in preserved
      <4>1. CASE lock.op = "backup"
        BY <2>2, <2>5, <4>1 DEF AfterOperation, Remote
      <4>2. CASE lock.op = "delete"
        BY <1>t, <2>1, <4>2 DEF RecutKeeps
      <4>3. QED
        BY <2>2, <2>5, <4>1, <4>2
    <3>3. lock.op = "backup" => branch # Nil
      BY <1>t, <2>1 DEF RecutKeeps
    <3>4. QED
      BY <1>t, <2>1, <2>2, <2>3, <2>5, <3>1, <3>2, <3>3 DEF RecutKeeps, AbsenceKnown, Running
  <2>6. CASE lock' = [lock EXCEPT !.at = "error"]
    <3>1. lock' \in RecutRuns /\ lock'.op = lock.op /\ lock'.old = lock.old /\ lock'.at = "error"
      BY <2>1, <2>6 DEF RecutRuns
    <3>2. QED
      BY <1>t, <2>1, <2>2, <2>3, <3>1 DEF RecutKeeps, AbsenceKnown, Running
  <2>7. QED
    BY <1>4, <2>4, <2>5, <2>6 DEF Confirm, Goto
<1>5. CASE RecutError
  <2>1. lock \in RecutRuns /\ lock.at \in {"stale", "error"} /\ UNCHANGED <<branch, preserved>>
    BY <1>5, <1>t DEF RecutError
  <2>2. lock.op \in {"backup", "delete", "create"}
    BY <2>1 DEF RecutRuns
  <2>3. HeadKept'
    BY <1>u, <2>1, StaysKept
  <2>4. CASE MustRecover(lock) /\ Goto("recover") /\ UNCHANGED outcome
    <3>1. lock' \in RecutRuns /\ lock'.op = lock.op /\ lock'.old = lock.old /\ lock'.at = "recover"
      BY <2>1, <2>4 DEF RecutRuns, Goto
    <3>2. QED
      BY <1>t, <2>1, <2>2, <2>3, <2>4, <3>1 DEF RecutKeeps, AbsenceKnown, Running, MustRecover
  <2>5. CASE (branch # Nil \/ ~MustRecover(lock)) /\ End("refused")
    <3>1. branch # Nil
      BY <1>t, <2>1, <2>2, <2>5 DEF RecutKeeps, MustRecover
    <3>2. QED
      BY <1>t, <2>1, <2>3, <2>5, <3>1 DEF RecutKeeps, AbsenceKnown, Running, End
  <2>6. QED
    BY <1>5, <2>4, <2>5 DEF RecutError
<1>6. CASE Recover
  <2>1. lock \in RecutRuns /\ lock.at = "recover" /\ preserved' = preserved /\ lock' = Nil
    BY <1>6, <1>t DEF Recover, At, End
  <2>2. lock.old \in Heads
    BY <2>1 DEF RecutRuns
  <2>3. \/ branch' = branch /\ outcome' = "told"
        \/ branch = Nil /\ branch' = lock.old
    BY <1>6 DEF Recover, End
  <2>4. HeadKept'
    BY <1>u, <2>1, <2>3, StaysKept
  <2>5. QED
    BY <1>t, <2>1, <2>2, <2>3, <2>4 DEF RecutKeeps, AbsenceKnown, Running
<1>7. CASE RunnerDies
  <2>1. UNCHANGED <<branch, preserved>> /\ lock' = Nil /\ outcome' = "died"
    BY <1>7 DEF RunnerDies, End
  <2>2. HeadKept'
    BY <1>u, <2>1, StaysKept
  <2>3. QED
    BY <1>t, <2>1, <2>2 DEF RecutKeeps, AbsenceKnown, Running
<1>8. CASE RestoreByHand
  <2>1. branch = Nil /\ lock = Nil /\ lock' = lock /\ branch' \in preserved /\ preserved' = preserved
    BY <1>8 DEF RestoreByHand
  <2>2. HeadKept'
    BY <1>u, <2>1, StaysKept
  <2>3. QED
    BY <1>t, <2>1, <2>2 DEF RecutKeeps, AbsenceKnown, Running
<1>9. QED
  BY <1>1, <1>2, <1>3, <1>4, <1>5, <1>6, <1>7, <1>8 DEF RecutNext

----------------------------------------------------------------------------
(* Tags, files and images.                                                   *)

\* What is known of the run that holds the lock.
LEMMA PublicationTyped ==
    ASSUME TypeOK, RunsFine, Running("publication")
    PROVE  /\ lock \in PublicationRuns /\ lock.h \in Heads /\ lock.build \in Builds
           /\ PublicationFine(lock)
           /\ Candidate(lock.h) \in Versions /\ IsCandidate(Candidate(lock.h))
<1>1. lock \in PublicationRuns /\ lock # Nil
  BY RunTyped DEF Running
<1>2. lock.h \in Heads /\ lock.build \in Builds /\ lock.flow = "publication"
  BY <1>1 DEF PublicationRuns
<1>3. PublicationFine(lock)
  BY <1>1, <1>2 DEF RunsFine
<1>4. QED
  BY <1>1, <1>2, <1>3, VersionsTyped DEF PublicationFine

LEMMA PromotionTyped ==
    ASSUME TypeOK, RunsFine, Running("promotion")
    PROVE  /\ lock \in PromotionRuns /\ lock.h \in Heads /\ lock.rebuild \in Builds
           /\ PromotionFine(lock)
           /\ Version(lock) \in Versions /\ ~IsCandidate(Version(lock))
<1>1. lock \in PromotionRuns /\ lock # Nil
  BY RunTyped DEF Running
<1>2. lock.h \in Heads /\ lock.rebuild \in Builds /\ lock.flow = "promotion"
  BY <1>1 DEF PromotionRuns
<1>3. PromotionFine(lock)
  BY <1>1, <1>2 DEF RunsFine
<1>4. QED
  BY <1>1, <1>2, <1>3, VersionsTyped DEF Version

LEMMA TagsFine ==
    ASSUME TypeOK, RunsFine, PublicationHolds, TagsBind, [Next]_pipelineVars
    PROVE  tags \subseteq tags' /\ tags' \subseteq Tags /\ TagsBind'
<1>1. CASE tags' = tags
  BY <1>1 DEF TypeOK, TagsBind
<1>2. CASE ReserveTag
  <2> DEFINE t == [v |-> Candidate(lock.h), at |-> lock.h, binds |-> Assets(lock.h, lock.build)]
  <2>1. Running("publication") /\ lock.at = "tag" /\ tags' = tags \cup {t}
    BY <1>2 DEF ReserveTag, At, CreateTag
  <2>2. /\ lock.h \in Heads /\ lock.build \in Builds
        /\ Candidate(lock.h) \in Versions
    BY <2>1, PublicationTyped
  <2>3. /\ t.v = Candidate(lock.h) /\ t.at = lock.h /\ t.binds = Assets(lock.h, lock.build)
        /\ t \in Tags
    <3>1. Assets(lock.h, lock.build) \subseteq Files \X Heads \X Builds
      BY <2>2, AssetsTyped DEF AllBytes
    <3>2. QED
      BY <2>2, <3>1 DEF Tags
  <2>4. \A u \in tags : u.v # Candidate(lock.h)
    BY <2>1 DEF PublicationHolds, TagOf
  <2> HIDE DEF t
  <2>5. TagsBind'
    BY <2>1, <2>2, <2>3, <2>4 DEF TagsBind
  <2>6. QED
    BY <2>1, <2>3, <2>5 DEF TypeOK
<1>3. CASE TagStable
  <2> DEFINE t == [v |-> Version(lock), at |-> lock.h, binds |-> {}]
  <2>1. Running("promotion") /\ (tags' = tags \cup {t} \/ tags' = tags)
    BY <1>3 DEF TagStable, At, CreateTag
  <2>2. lock.h \in Heads /\ Version(lock) \in Versions /\ ~IsCandidate(Version(lock))
    BY <2>1, PromotionTyped
  <2>3. t.v = Version(lock) /\ t \in Tags
    BY <2>2 DEF Tags
  <2> HIDE DEF t
  <2>4. TagsBind'
    BY <2>1, <2>2, <2>3 DEF TagsBind
  <2>5. QED
    BY <2>1, <2>3, <2>4 DEF TypeOK
<1>4. QED
  BY <1>1, <1>2, <1>3, TagsWritten

\* What the listing of PyPI shows of a version, of any set of files.
ListedIn(files, v) == {x.bytes : x \in {y \in files : y.v = v /\ y.listed}}

LEMMA FilesFine ==
    ASSUME TypeOK, RunsFine, PublicationHolds, PromotionHolds, TagsBind, FilesBound,
           [Next]_pipelineVars
    PROVE  /\ pypi' \subseteq PythonFiles /\ FilesBound'
           /\ \A v : \A h \in Heads, b \in Builds :
                ListedIn(pypi, v) = Dists(h, b) => ListedIn(pypi', v) = Dists(h, b)
<1>t. /\ pypi \subseteq PythonFiles
      /\ \A x \in pypi : DOMAIN x = {"v", "bytes", "listed"} /\ x.bytes \in AllBytes /\ x.v \in Versions
      /\ tags \subseteq tags'
  BY TagsFine DEF TypeOK, PythonFiles
<1>o. ASSUME pypi' = pypi PROVE FilesBound' /\ pypi' \subseteq PythonFiles
  BY <1>t, <1>o DEF FilesBound, TagOf
<1>p. ASSUME NEW v \in Versions, NEW bytes \in AllBytes, bytes[1] \in Python,
             ~Holds(v, bytes[1]), PutPython(v, bytes),
             IsCandidate(v) => \E t \in TagOf(v) : bytes \in t.binds
      PROVE  /\ pypi' \subseteq PythonFiles /\ FilesBound'
             /\ \A w : ListedIn(pypi', w) = ListedIn(pypi, w)
  <2> DEFINE new == [v |-> v, bytes |-> bytes, listed |-> FALSE]
  <2>1. pypi' = pypi \cup {new} /\ \A x \in pypi : ~(x.v = v /\ x.bytes[1] = bytes[1])
    BY <1>p DEF PutPython, Holds
  <2>2. new.v = v /\ new.bytes = bytes /\ ~new.listed /\ new \in PythonFiles
    BY <1>p DEF PythonFiles
  <2> HIDE DEF new
  <2>3. pypi' \subseteq PythonFiles
    BY <1>t, <2>1, <2>2
  <2>4. \A x \in pypi' : x.bytes[1] \in Python
    BY <1>p, <2>1, <2>2 DEF FilesBound
  <2>5. \A x, y \in pypi' : x.v = y.v /\ x.bytes[1] = y.bytes[1] => x = y
    BY <2>1, <2>2 DEF FilesBound
  <2>6. \A x \in pypi' : IsCandidate(x.v) => \E t \in tags' : t.v = x.v /\ x.bytes \in t.binds
    BY <1>p, <1>t, <2>1, <2>2 DEF FilesBound, TagOf
  <2>7. \A w : ListedIn(pypi', w) = ListedIn(pypi, w)
    BY <2>1, <2>2 DEF ListedIn
  <2>8. QED
    BY <2>3, <2>4, <2>5, <2>6, <2>7 DEF FilesBound, TagOf
<1>1. CASE pypi' = pypi
  BY <1>1, <1>o
<1>2. CASE Settle
  <2> DEFINE seen(x) == [x EXCEPT !.listed = TRUE]
  <2>1. pypi' = {seen(x) : x \in pypi}
    BY <1>2 DEF Settle
  <2>2. \A x \in pypi : /\ seen(x).v = x.v /\ seen(x).bytes = x.bytes /\ seen(x).listed
                        /\ seen(x) \in PythonFiles
    BY <1>t DEF PythonFiles
  <2> HIDE DEF seen
  <2>3. pypi' \subseteq PythonFiles
    BY <2>1, <2>2
  <2>4. \A x \in pypi' : x.bytes[1] \in Python
    BY <2>1, <2>2 DEF FilesBound
  <2>5. ASSUME NEW x \in pypi', NEW y \in pypi', x.v = y.v, x.bytes[1] = y.bytes[1] PROVE x = y
    <3>1. PICK p \in pypi : x = seen(p)
      BY <2>1
    <3>2. PICK q \in pypi : y = seen(q)
      BY <2>1
    <3>3. p = q
      BY <2>2, <2>5, <3>1, <3>2 DEF FilesBound
    <3>4. QED
      BY <3>1, <3>2, <3>3
  <2>6. \A x \in pypi' : IsCandidate(x.v) => \E t \in tags' : t.v = x.v /\ x.bytes \in t.binds
    BY <1>t, <2>1, <2>2 DEF FilesBound, TagOf
  <2>7. ASSUME NEW v, NEW h \in Heads, NEW b \in Builds, ListedIn(pypi, v) = Dists(h, b)
        PROVE  ListedIn(pypi', v) = Dists(h, b)
    <3>1. ASSUME NEW d \in ListedIn(pypi, v) PROVE d \in ListedIn(pypi', v)
      <4>1. PICK x \in pypi : x.v = v /\ x.listed /\ x.bytes = d
        BY <3>1 DEF ListedIn
      <4>2. seen(x) \in pypi' /\ seen(x).v = v /\ seen(x).listed /\ seen(x).bytes = d
        BY <2>1, <2>2, <4>1
      <4>3. QED
        BY <4>2 DEF ListedIn
    <3>2. ASSUME NEW d \in ListedIn(pypi', v) PROVE d \in ListedIn(pypi, v)
      <4>1. PICK x \in pypi' : x.v = v /\ x.bytes = d
        BY <3>2 DEF ListedIn
      <4>2. PICK p \in pypi : x = seen(p)
        BY <2>1, <4>1
      <4>3. p.v = v /\ p.bytes = d /\ d[1] \in Python
        BY <2>2, <4>1, <4>2 DEF FilesBound
      <4>4. PICK e \in Dists(h, b) : e[1] = d[1]
        BY <4>3, AssetsTyped
      <4>5. PICK q \in pypi : q.v = v /\ q.listed /\ q.bytes = e
        BY <2>7, <4>4 DEF ListedIn
      <4>6. p = q
        BY <4>3, <4>4, <4>5 DEF FilesBound
      <4>7. QED
        BY <4>3, <4>5, <4>6 DEF ListedIn
    <3>3. QED
      BY <2>7, <3>1, <3>2
  <2>8. QED
    BY <2>3, <2>4, <2>5, <2>6, <2>7 DEF FilesBound, TagOf
<1>3. CASE UploadPython /\ pypi' # pypi
  <2>1. Running("publication") /\ lock.at = "upload"
    BY <1>3 DEF UploadPython, At
  <2>2. PICK bytes \in lock.todo : /\ ~Holds(Candidate(lock.h), bytes[1])
                                   /\ PutPython(Candidate(lock.h), bytes)
    BY <1>3 DEF UploadPython
  <2>3. lock.h \in Heads /\ lock.build \in Builds /\ Candidate(lock.h) \in Versions
    BY <2>1, PublicationTyped
  <2>4. bytes \in Dists(lock.h, lock.build) /\ TagBound(lock)
    BY <2>1, <2>2 DEF PublicationHolds
  <2>5. bytes \in Assets(lock.h, lock.build) /\ bytes \in AllBytes /\ bytes[1] \in Python
    BY <2>3, <2>4, AssetsTyped
  <2>6. \E t \in TagOf(Candidate(lock.h)) : bytes \in t.binds
    <3> DEFINE t == [v |-> Candidate(lock.h), at |-> lock.h, binds |-> Assets(lock.h, lock.build)]
    <3>1. t \in tags /\ t.v = Candidate(lock.h) /\ t.binds = Assets(lock.h, lock.build)
      BY <2>4 DEF TagBound
    <3>2. QED
      BY <2>5, <3>1 DEF TagOf
  <2>7. QED
    BY <1>p, <2>2, <2>3, <2>5, <2>6
<1>4. CASE UploadStable /\ pypi' # pypi
  <2>1. Running("promotion") /\ lock.at = "upload"
    BY <1>4 DEF UploadStable, At
  <2>2. PICK bytes \in lock.todo : /\ ~Holds(Version(lock), bytes[1])
                                   /\ PutPython(Version(lock), bytes)
    BY <1>4 DEF UploadStable
  <2>3. /\ lock.h \in Heads /\ lock.rebuild \in Builds /\ Version(lock) \in Versions
        /\ ~IsCandidate(Version(lock))
    BY <2>1, PromotionTyped
  <2>4. bytes \in Dists(lock.h, lock.rebuild)
    BY <2>1, <2>2 DEF PromotionHolds
  <2>5. bytes \in AllBytes /\ bytes[1] \in Python
    BY <2>3, <2>4, AssetsTyped
  <2>6. QED
    BY <1>p, <2>2, <2>3, <2>5
<1>5. QED
  BY <1>1, <1>2, <1>3, <1>4, FilesWritten

\* The image of a version, of any set of images.
ImageIn(images_, v) == {x.digest : x \in {y \in images_ : y.v = v}}

LEMMA ImagesFine ==
    ASSUME TypeOK, RunsFine, PublicationHolds, TagsBind, ImagesBound, [Next]_pipelineVars
    PROVE  /\ ImagesBound'
           /\ \A v : IsCandidate(v) /\ ImageIn(images, v) # {} => ImageIn(images', v) = ImageIn(images, v)
<1>t. tags \subseteq tags'
  BY TagsFine
<1>1. CASE images' = images
  BY <1>t, <1>1 DEF ImagesBound, TagOf
<1>2. CASE PushImage /\ images' # images
  <2> DEFINE new == [v |-> Candidate(lock.h), digest |-> Digest(lock.h, lock.build)]
             t == [v |-> Candidate(lock.h), at |-> lock.h, binds |-> Assets(lock.h, lock.build)]
  <2>1. /\ Running("publication") /\ lock.at = "image"
        /\ ImageOf(Candidate(lock.h)) = {} /\ images' = images \cup {new}
    BY <1>2 DEF PushImage, At
  <2>2. lock.h \in Heads /\ lock.build \in Builds
    BY <2>1, PublicationTyped
  <2>3. t \in tags /\ t.v = Candidate(lock.h) /\ t.at = lock.h /\ t.binds = Assets(lock.h, lock.build)
    BY <2>1 DEF PublicationHolds, TagBound
  <2>4. new.v = Candidate(lock.h) /\ new.digest = Digest(lock.h, lock.build)
    OBVIOUS
  <2>5. \A x \in images : x.v # Candidate(lock.h)
    BY <2>1 DEF ImageOf
  <2> HIDE DEF new, t
  <2>6. ImagesBound'
    BY <1>t, <2>1, <2>2, <2>3, <2>4 DEF ImagesBound, TagOf
  <2>7. ASSUME NEW v, ImageIn(images, v) # {} PROVE ImageIn(images', v) = ImageIn(images, v)
    <3>1. v # Candidate(lock.h)
      BY <2>5, <2>7 DEF ImageIn
    <3>2. QED
      BY <2>1, <2>4, <3>1 DEF ImageIn
  <2>8. QED
    BY <2>6, <2>7
<1>3. CASE PromoteImage
  <2> DEFINE new == [v |-> Version(lock), digest |-> Digest(lock.h, lock.build)]
  <2>1. Running("promotion") /\ images' = images \cup {new}
    BY <1>3 DEF PromoteImage, At
  <2>2. ~IsCandidate(Version(lock)) /\ new.v = Version(lock)
    BY <2>1, PromotionTyped
  <2> HIDE DEF new
  <2>3. ImagesBound'
    BY <1>t, <2>1, <2>2 DEF ImagesBound, TagOf
  <2>4. \A v : IsCandidate(v) => ImageIn(images', v) = ImageIn(images, v)
    BY <2>1, <2>2 DEF ImageIn
  <2>5. QED
    BY <2>3, <2>4
<1>4. QED
  BY <1>1, <1>2, <1>3, ImagesWritten

----------------------------------------------------------------------------
(* GitHub releases.                                                          *)

Seen(x) == [x EXCEPT !.listed = TRUE]

\* A release that is seen is changed: it keeps its version and its id.
Changes(x, y) ==
    /\ x \in releases /\ x.listed /\ x.draft
    /\ y \in Releases /\ y.v = x.v /\ y.id = x.id /\ y.listed
    /\ Replace(x, y)

\* A draft is opened by the run of its version, as it is.
Opens(x, y) ==
    /\ ~y.draft /\ y.assets = x.assets /\ lock.at = "open" /\ lock' = Nil
    /\ \/ Running("publication") /\ x.v = Candidate(lock.h)
       \/ Running("promotion") /\ x \in Resolved(Version(lock))

\* What a step may do to the releases.
ReleasesStep ==
    \/ releases' = releases
    \/ releases' = {Seen(x) : x \in releases} /\ lock' = lock
    \/ \E x \in releases : lock = Nil /\ x.listed /\ x.draft /\ releases' = releases \ {x}
    \/ lock.at = "draft" /\ \E v \in Versions : Visible(v, TRUE) = {} /\ CreateDraft(v)
    \/ \E x, y \in releases \cup releases' :
        Changes(x, y) /\ ((y.draft /\ lock.at = "assets") \/ Opens(x, y))

LEMMA SeenRelease ==
    ASSUME NEW x \in Releases
    PROVE  /\ Seen(x) \in Releases /\ Seen(x).v = x.v /\ Seen(x).id = x.id /\ Seen(x).draft = x.draft
           /\ Seen(x).assets = x.assets /\ Seen(x).listed
           /\ x.listed => Seen(x) = x
<1>1. /\ Seen(x) \in Releases /\ Seen(x).v = x.v /\ Seen(x).id = x.id /\ Seen(x).draft = x.draft
      /\ Seen(x).whole = x.whole /\ Seen(x).assets = x.assets /\ Seen(x).listed = TRUE
  BY DEF Seen, Releases
<1>2. \A r \in Releases :
        r = [v |-> r.v, id |-> r.id, draft |-> r.draft, listed |-> r.listed, whole |-> r.whole,
             assets |-> r.assets]
  BY DEF Releases
<1>3. x.listed => x.listed = TRUE
  BY DEF Releases
<1>4. x.listed => Seen(x) = x
  BY <1>1, <1>2, <1>3
<1>5. QED
  BY <1>1, <1>4

LEMMA UploadChanges ==
    ASSUME TypeOK, NEW x \in releases, x.listed, x.draft, NEW bytes \in AllBytes, Upload(x, bytes)
    PROVE  \E y \in releases' : Changes(x, y) /\ y.draft
<1> DEFINE y == [x EXCEPT !.assets = @ \cup {bytes}]
<1>1. x \in Releases
  BY DEF TypeOK
<1>2. /\ y \in Releases /\ y.v = x.v /\ y.id = x.id /\ y.listed = x.listed /\ y.draft = x.draft
  BY <1>1 DEF Releases
<1>3. Replace(x, y) /\ y \in releases'
  BY DEF Upload, Replace
<1> HIDE DEF y
<1>4. QED
  BY <1>2, <1>3 DEF Changes

LEMMA UploadCutChanges ==
    ASSUME TypeOK, NEW x \in releases, x.listed, x.draft, UploadCut(x)
    PROVE  \E y \in releases' : Changes(x, y) /\ y.draft
<1> DEFINE y == [x EXCEPT !.whole = FALSE]
<1>1. x \in Releases
  BY DEF TypeOK
<1>2. /\ y \in Releases /\ y.v = x.v /\ y.id = x.id /\ y.listed = x.listed /\ y.draft = x.draft
  BY <1>1 DEF Releases
<1>3. Replace(x, y) /\ y \in releases'
  BY DEF UploadCut, Replace
<1> HIDE DEF y
<1>4. QED
  BY <1>2, <1>3 DEF Changes

LEMMA PublishChanges ==
    ASSUME TypeOK, NEW x \in releases, x.listed, x.draft, Publish(x)
    PROVE  \E y \in releases' : Changes(x, y) /\ ~y.draft /\ y.assets = x.assets
<1> DEFINE y == [x EXCEPT !.draft = FALSE]
<1>1. x \in Releases
  BY DEF TypeOK
<1>2. /\ y \in Releases /\ y.v = x.v /\ y.id = x.id /\ y.listed = x.listed /\ ~y.draft
      /\ y.assets = x.assets
  BY <1>1 DEF Releases
<1>3. Replace(x, y) /\ y \in releases'
  BY DEF Publish, Replace
<1> HIDE DEF y
<1>4. QED
  BY <1>2, <1>3 DEF Changes

LEMMA ReleasesChange ==
    ASSUME TypeOK, RunsFine, [Next]_pipelineVars
    PROVE  ReleasesStep
<1>1. CASE releases' = releases
  BY <1>1 DEF ReleasesStep
<1>2. CASE Settle
  BY <1>2 DEF Settle, ReleasesStep, Seen
<1>3. CASE DeleteDraft
  BY <1>3 DEF DeleteDraft, ReleasesStep
<1>4. CASE ReserveDraft /\ releases' # releases
  <2>1. /\ Running("publication") /\ lock.at = "draft"
        /\ Visible(Candidate(lock.h), TRUE) = {} /\ CreateDraft(Candidate(lock.h))
    BY <1>4 DEF ReserveDraft, At
  <2>2. QED
    BY <2>1, PublicationTyped DEF ReleasesStep
<1>5. CASE ReleaseDraft /\ releases' # releases
  <2>1. /\ Running("promotion") /\ lock.at = "draft"
        /\ Visible(Version(lock), TRUE) = {} /\ CreateDraft(Version(lock))
    BY <1>5 DEF ReleaseDraft, At
  <2>2. QED
    BY <2>1, PromotionTyped DEF ReleasesStep
<1>6. CASE ReserveAsset /\ releases' # releases
  <2>1. Running("publication") /\ lock.at = "assets"
    BY <1>6 DEF ReserveAsset, At
  <2>2. PICK x \in Visible(Candidate(lock.h), TRUE) :
            x.draft /\ \E bytes \in Assets(lock.h, lock.build) \ x.assets : Upload(x, bytes)
    BY <1>6 DEF ReserveAsset
  <2>3. PICK bytes \in Assets(lock.h, lock.build) : Upload(x, bytes)
    BY <2>2
  <2>4. x \in releases /\ x.listed /\ bytes \in AllBytes
    BY <2>1, <2>2, <2>3, PublicationTyped, AssetsTyped DEF Visible
  <2>5. PICK y \in releases' : Changes(x, y) /\ y.draft
    BY <2>2, <2>3, <2>4, UploadChanges
  <2>6. QED
    BY <2>1, <2>4, <2>5 DEF ReleasesStep
<1>7. CASE CompleteRelease /\ releases' # releases
  <2>1. Running("promotion") /\ lock.at = "assets"
    BY <1>7 DEF CompleteRelease, At
  <2>2. PICK x \in Resolved(Version(lock)) :
            /\ Acceptable(lock, x) /\ x.assets # Assets(lock.h, lock.rebuild)
            /\ \E bytes \in Assets(lock.h, lock.rebuild) \ x.assets : Upload(x, bytes)
    BY <1>7 DEF CompleteRelease
  <2>3. PICK bytes \in Assets(lock.h, lock.rebuild) : Upload(x, bytes)
    BY <2>2
  <2>4. x \in releases /\ x.listed /\ bytes \in AllBytes
    BY <2>1, <2>2, <2>3, PromotionTyped, AssetsTyped DEF Resolved, Visible
  <2>5. x.draft
    BY <2>2 DEF Acceptable
  <2>6. PICK y \in releases' : Changes(x, y) /\ y.draft
    BY <2>3, <2>4, <2>5, UploadChanges
  <2>7. QED
    BY <2>1, <2>4, <2>6 DEF ReleasesStep
<1>8. CASE PublicationFails /\ releases' # releases
  <2>0. lock.at = "assets"
    BY <1>8 DEF PublicationFails
  <2>1. PICK x \in Visible(Candidate(lock.h), TRUE) : x.draft /\ UploadCut(x)
    BY <1>8 DEF PublicationFails
  <2>2. x \in releases /\ x.listed
    BY <2>1 DEF Visible
  <2>3. PICK y \in releases' : Changes(x, y) /\ y.draft
    BY <2>1, <2>2, UploadCutChanges
  <2>4. QED
    BY <2>0, <2>2, <2>3 DEF ReleasesStep
<1>9. CASE PromotionFails /\ releases' # releases
  <2>0. lock.at = "assets"
    BY <1>9 DEF PromotionFails
  <2>1. PICK x \in Resolved(Version(lock)) : x.draft /\ UploadCut(x)
    BY <1>9 DEF PromotionFails
  <2>2. x \in releases /\ x.listed
    BY <2>1 DEF Resolved, Visible
  <2>3. PICK y \in releases' : Changes(x, y) /\ y.draft
    BY <2>1, <2>2, UploadCutChanges
  <2>4. QED
    BY <2>0, <2>2, <2>3 DEF ReleasesStep
<1>10. CASE PublishDraft
  <2>1. Running("publication") /\ lock.at = "open" /\ lock' = Nil
    BY <1>10 DEF PublishDraft, At
  <2>2. PICK x \in Visible(Candidate(lock.h), TRUE) : x.draft /\ Publish(x)
    BY <1>10 DEF PublishDraft
  <2>3. x \in releases /\ x.listed /\ x.v = Candidate(lock.h)
    BY <2>2 DEF Visible
  <2>4. PICK y \in releases' : Changes(x, y) /\ ~y.draft /\ y.assets = x.assets
    BY <2>2, <2>3, PublishChanges
  <2>5. QED
    BY <2>1, <2>3, <2>4 DEF ReleasesStep, Opens
<1>11. CASE PublishRelease
  <2>1. Running("promotion") /\ lock.at = "open" /\ lock' = Nil
    BY <1>11 DEF PublishRelease, At
  <2>2. PICK x \in Resolved(Version(lock)) : x.draft /\ Publish(x)
    BY <1>11 DEF PublishRelease
  <2>3. x \in releases /\ x.listed
    BY <2>2 DEF Resolved, Visible
  <2>4. PICK y \in releases' : Changes(x, y) /\ ~y.draft /\ y.assets = x.assets
    BY <2>2, <2>3, PublishChanges
  <2>5. QED
    BY <2>1, <2>2, <2>3, <2>4 DEF ReleasesStep, Opens
<1>12. QED
  BY <1>1, <1>2, <1>3, <1>4, <1>5, <1>6, <1>7, <1>8, <1>9, <1>10, <1>11, ReleasesWritten

LEMMA ReleasesFine ==
    ASSUME TypeOK, ReleasesApart, ReleasesStep
    PROVE  releases' \subseteq Releases /\ IsFiniteSet(releases') /\ ReleasesApart'
<1>t. releases \subseteq Releases /\ IsFiniteSet(releases)
  BY DEF TypeOK
<1>a. /\ \A x, y \in releases : x.v = y.v => x.listed = y.listed
      /\ \A x, y \in releases : x.v = y.v /\ x.id = y.id => x = y
      /\ \A x \in releases : ~x.listed => x.id < Cardinality(ReleasesOf(x.v))
  BY DEF ReleasesApart
<1>1. CASE releases' = releases
  BY <1>t, <1>a, <1>1 DEF ReleasesApart, ReleasesOf
<1>2. CASE releases' = {Seen(x) : x \in releases}
  <2>1. \A x \in releases : /\ Seen(x) \in Releases /\ Seen(x).v = x.v /\ Seen(x).id = x.id
                            /\ Seen(x).listed
    BY <1>t, SeenRelease
  <2>2. releases' \subseteq Releases /\ \A x \in releases' : x.listed
    BY <1>2, <2>1
  <2>3. IsFiniteSet(releases')
    <3> DEFINE f == [x \in releases |-> Seen(x)]
    <3>1. f \in Surjection(releases, releases')
      BY <1>2 DEF Surjection
    <3>2. QED
      BY <1>t, <3>1, FS_Surjection
  <2>4. ASSUME NEW x \in releases', NEW y \in releases' PROVE x.listed = y.listed
    <3>1. x.listed = TRUE /\ y.listed = TRUE
      BY <2>2 DEF Releases
    <3>2. QED
      BY <3>1
  <2>5. ASSUME NEW x \in releases', NEW y \in releases', x.v = y.v, x.id = y.id PROVE x = y
    <3>1. PICK p \in releases : x = Seen(p)
      BY <1>2
    <3>2. PICK q \in releases : y = Seen(q)
      BY <1>2
    <3>3. p = q
      BY <1>a, <2>1, <2>5, <3>1, <3>2
    <3>4. QED
      BY <3>1, <3>2, <3>3
  <2>6. QED
    BY <2>2, <2>3, <2>4, <2>5 DEF ReleasesApart
<1>3. CASE \E x \in releases : lock = Nil /\ x.listed /\ x.draft /\ releases' = releases \ {x}
  <2>1. PICK x \in releases : x.listed /\ releases' = releases \ {x}
    BY <1>3
  <2>2. IsFiniteSet(releases')
    BY <1>t, <2>1, FS_RemoveElement
  <2>3. ASSUME NEW y \in releases', ~y.listed PROVE y.id < Cardinality(ReleasesOf(y.v)')
    <3>1. y.v # x.v /\ y \in releases
      BY <1>a, <2>1, <2>3
    <3>2. ReleasesOf(y.v)' = ReleasesOf(y.v)
      BY <2>1, <3>1 DEF ReleasesOf
    <3>3. QED
      BY <1>a, <2>3, <3>1, <3>2
  <2>4. QED
    BY <1>t, <1>a, <2>1, <2>2, <2>3 DEF ReleasesApart
<1>4. CASE \E v \in Versions : Visible(v, TRUE) = {} /\ CreateDraft(v)
  <2>1. PICK v \in Versions : Visible(v, TRUE) = {} /\ CreateDraft(v)
    BY <1>4
  <2> DEFINE n == Cardinality(ReleasesOf(v))
             new == [v |-> v, id |-> n, draft |-> TRUE, listed |-> FALSE, whole |-> TRUE,
                     assets |-> {}]
  <2>2. releases' = releases \cup {new}
    BY <2>1 DEF CreateDraft, ReleasesOf
  <2>3. IsFiniteSet(ReleasesOf(v)) /\ n \in Nat
    <3>1. ReleasesOf(v) \in SUBSET releases
      BY DEF ReleasesOf
    <3>2. QED
      BY <1>t, <3>1, FS_Subset, FS_CardinalityType
  <2>4. /\ new.v = v /\ new.id = n /\ new.listed = FALSE /\ new \in Releases
    BY <2>1, <2>3 DEF Releases
  <2>5. \A x \in ReleasesOf(v) : x \in releases /\ x.v = v /\ x.listed = FALSE /\ x.id < n
    <3>1. \A x \in ReleasesOf(v) : x \in releases /\ x.v = v /\ ~x.listed
      BY <2>1 DEF ReleasesOf, Visible
    <3>2. \A x \in releases : x.listed \in BOOLEAN
      BY <1>t DEF Releases
    <3>3. QED
      BY <1>a, <3>1, <3>2
  <2> HIDE DEF new, n
  <2>6. releases' \subseteq Releases /\ IsFiniteSet(releases')
    BY <1>t, <2>2, <2>4, FS_AddElement
  <2>7. new \notin ReleasesOf(v)
    BY <2>3, <2>4, <2>5
  <2>8. ReleasesOf(v)' = ReleasesOf(v) \cup {new}
    BY <2>2, <2>4 DEF ReleasesOf
  <2>9. Cardinality(ReleasesOf(v)') = n + 1
    BY <2>3, <2>7, <2>8, FS_AddElement DEF n
  <2>10. \A x \in releases : x.v = v => x \in ReleasesOf(v)
    BY DEF ReleasesOf
  <2>11. ASSUME NEW x \in releases', NEW y \in releases', x.v = y.v PROVE x.listed = y.listed
    <3>1. CASE x.v = v
      <4>1. \A z \in releases' : z.v = v => z.listed = FALSE
        BY <2>2, <2>4, <2>5, <2>10
      <4>2. QED
        BY <2>11, <3>1, <4>1
    <3>2. CASE x.v # v
      BY <1>a, <2>2, <2>4, <2>11, <3>2
    <3>3. QED
      BY <3>1, <3>2
  <2>12. ASSUME NEW x \in releases', NEW y \in releases', x.v = y.v, x.id = y.id PROVE x = y
    <3>1. CASE x.v = v
      <4>1. \A z \in releases' : z.v = v => z = new \/ z \in ReleasesOf(v)
        BY <2>2, <2>10
      <4>2. \A z \in ReleasesOf(v) : z.id \in Nat /\ z.id # new.id
        BY <1>t, <2>3, <2>4, <2>5 DEF Releases
      <4>3. QED
        BY <1>a, <2>5, <2>12, <3>1, <4>1, <4>2
    <3>2. CASE x.v # v
      BY <1>a, <2>2, <2>4, <2>12, <3>2
    <3>3. QED
      BY <3>1, <3>2
  <2>13. ASSUME NEW x \in releases', ~x.listed PROVE x.id < Cardinality(ReleasesOf(x.v)')
    <3>1. CASE x = new
      BY <2>3, <2>4, <2>9, <3>1
    <3>2. CASE x # new /\ x.v = v
      <4>1. x \in ReleasesOf(v) /\ x.id < n /\ x.id \in Nat
        BY <1>t, <2>2, <2>5, <2>10, <3>2 DEF Releases
      <4>2. QED
        BY <2>3, <2>9, <3>2, <4>1
    <3>3. CASE x # new /\ x.v # v
      <4>1. x \in releases /\ ReleasesOf(x.v)' = ReleasesOf(x.v)
        BY <2>2, <2>4, <3>3 DEF ReleasesOf
      <4>2. QED
        BY <1>a, <2>13, <4>1
    <3>4. QED
      BY <3>1, <3>2, <3>3
  <2>14. QED
    BY <2>6, <2>11, <2>12, <2>13 DEF ReleasesApart
<1>5. CASE \E x, y \in releases \cup releases' : Changes(x, y)
  <2>1. PICK x \in releases, y \in Releases :
            x.listed /\ y.v = x.v /\ y.id = x.id /\ y.listed /\ releases' = (releases \ {x}) \cup {y}
    BY <1>5 DEF Changes, Replace
  <2>2. releases' \subseteq Releases
    BY <1>t, <2>1
  <2>3. IsFiniteSet(releases')
    BY <1>t, <2>1, FS_RemoveElement, FS_AddElement
  <2>4. x.listed = TRUE /\ y.listed = TRUE
    BY <1>t, <2>1 DEF Releases
  <2>5. \A z \in releases : z.v = x.v => z.listed = TRUE
    BY <1>a, <2>1, <2>4
  <2>6. ASSUME NEW p \in releases', NEW q \in releases', p.v = q.v PROVE p.listed = q.listed
    <3>1. CASE p.v = x.v
      <4>1. \A z \in releases' : z.v = x.v => z.listed = TRUE
        BY <2>1, <2>4, <2>5
      <4>2. QED
        BY <2>6, <3>1, <4>1
    <3>2. CASE p.v # x.v
      BY <1>a, <2>1, <2>6, <3>2
    <3>3. QED
      BY <3>1, <3>2
  <2>7. ASSUME NEW p \in releases', NEW q \in releases', p.v = q.v, p.id = q.id PROVE p = q
    <3>1. \A z \in releases : z.v = x.v /\ z.id = x.id => z = x
      BY <1>a
    <3>2. QED
      BY <1>a, <2>1, <2>7, <3>1
  <2>8. ASSUME NEW p \in releases', ~p.listed PROVE p.id < Cardinality(ReleasesOf(p.v)')
    <3>1. p.v # x.v /\ p \in releases
      BY <2>1, <2>5, <2>8
    <3>2. ReleasesOf(p.v)' = ReleasesOf(p.v)
      BY <2>1, <3>1 DEF ReleasesOf
    <3>3. QED
      BY <1>a, <2>8, <3>1, <3>2
  <2>9. QED
    BY <2>2, <2>3, <2>6, <2>7, <2>8 DEF ReleasesApart
<1>6. QED
  BY <1>1, <1>2, <1>3, <1>4, <1>5 DEF ReleasesStep

----------------------------------------------------------------------------
(* The runs.                                                                 *)

LEMMA Jobs ==
    /\ DOMAIN JobOf = {"reserve", "tag", "draft", "listing", "assets", "pypi", "upload", "publish",
                       "await", "image", "channel", "reverify", "attest", "finalize", "open"}
    /\ \A s \in DOMAIN JobOf :
        /\ JobOf[s] \in {"reserve", "pypi", "publish", "attest", "finalize"}
        /\ JobOf[s] = "finalize" => s \in {"finalize", "open"}
    /\ DOMAIN JobOfPromotion = {"prove", "recheck", "upload", "verify", "tagging", "image",
                                "stable", "latest", "draft", "listing", "assets", "open"}
    /\ \A s \in DOMAIN JobOfPromotion :
        /\ JobOfPromotion[s] \in {"prove", "recheck", "tagging", "image", "draft"}
        /\ JobOfPromotion[s] \in {"tagging", "image", "draft"} =>
            s \in {"tagging", "image", "stable", "latest", "draft", "listing", "assets", "open"}
  BY DEF JobOf, JobOfPromotion

\* The squashes on main stay there, and what is attested is.
LEMMA Growing ==
    ASSUME TypeOK, RunsFine, [Next]_pipelineVars
    PROVE  /\ mainline' \in Seq(Heads) /\ ToSet(mainline) \subseteq ToSet(mainline')
           /\ attested \subseteq attested'
           /\ \A b \in attested' : b[1] \in Heads /\ b[2] \in Builds
           /\ \A b \in built' : /\ b = <<b[1], b[2]>> /\ b[1] \in Heads /\ b[2] \in Builds
                                /\ b[1].commits # <<>>
<1>1. mainline' \in Seq(Heads) /\ ToSet(mainline) \subseteq ToSet(mainline')
  <2>1. CASE mainline' = mainline
    BY <2>1 DEF TypeOK
  <2>2. CASE SquashRelease
    <3>1. mainline' = Append(mainline, branch) /\ branch \in Heads /\ mainline \in Seq(Heads)
      BY <2>2 DEF SquashRelease, TypeOK
    <3>2. mainline' \in Seq(Heads)
      BY <3>1
    <3>3. \A i \in DOMAIN mainline : i \in DOMAIN mainline' /\ mainline'[i] = mainline[i]
      BY <3>1
    <3>4. QED
      BY <3>2, <3>3 DEF ToSet
  <2>3. QED
    BY <2>1, <2>2, RefsWritten
<1>2. attested \subseteq attested' /\ \A b \in attested' : b[1] \in Heads /\ b[2] \in Builds
  <2>1. CASE UNCHANGED <<built, attested>> \/ \E build \in Builds : BuildCandidate(build)
    BY <2>1 DEF BuildCandidate, TypeOK
  <2>2. CASE Attest
    <3>1. Running("publication") /\ attested' = attested \cup {<<lock.h, lock.build>>}
      BY <2>2 DEF Attest, At
    <3>2. lock.h \in Heads /\ lock.build \in Builds
      BY <3>1, PublicationTyped
    <3>3. QED
      BY <3>1, <3>2 DEF TypeOK
  <2>3. QED
    BY <2>1, <2>2, RefsWritten
<1>3. \A b \in built' : /\ b = <<b[1], b[2]>> /\ b[1] \in Heads /\ b[2] \in Builds
                        /\ b[1].commits # <<>>
  <2>1. CASE built' = built
    BY <2>1 DEF TypeOK, RunsFine
  <2>2. ASSUME NEW build \in Builds, BuildCandidate(build)
        PROVE  \A b \in built' : /\ b = <<b[1], b[2]>> /\ b[1] \in Heads /\ b[2] \in Builds
                                 /\ b[1].commits # <<>>
    <3> DEFINE new == <<branch, build>>
    <3>1. /\ branch \in Heads /\ branch.commits # <<>> /\ built' = built \cup {new}
      BY <2>2 DEF BuildCandidate, Computable, TypeOK
    <3>2. new = <<new[1], new[2]>> /\ new[1] = branch /\ new[2] = build
      OBVIOUS
    <3> HIDE DEF new
    <3>3. QED
      BY <3>1, <3>2 DEF TypeOK, RunsFine
  <2>3. CASE Attest
    BY <2>1, <2>3 DEF Attest
  <2>4. QED
    BY <2>1, <2>2, <2>3, RefsWritten
<1>4. QED
  BY <1>1, <1>2, <1>3

\* What is known of a run stays known of it.
LEMMA FineStays ==
    ASSUME TypeOK, RunsFine, PublicationHolds, PromotionHolds, TagsBind, FilesBound,
           [Next]_pipelineVars
    PROVE  /\ \A r : PublicationFine(r) =>
                /\ r.h.commits # <<>>
                /\ r.at \in {"finalize", "open"} => <<r.h, r.build>> \in attested'
           /\ \A r : r.h \in Heads /\ r.rebuild \in Builds /\ PromotionFine(r) =>
                /\ r.h \in ToSet(mainline')
                /\ r.at \in {"tagging", "image", "stable", "latest", "draft", "listing", "assets", "open"} =>
                    ListedIn(pypi', Version(r)) = Dists(r.h, r.rebuild)
<1>1. \A r : PublicationFine(r) =>
                /\ r.h.commits # <<>>
                /\ r.at \in {"finalize", "open"} => <<r.h, r.build>> \in attested'
  BY Growing DEF PublicationFine
<1>2. ASSUME NEW r, r.h \in Heads, r.rebuild \in Builds, PromotionFine(r)
      PROVE  /\ r.h \in ToSet(mainline')
             /\ r.at \in {"tagging", "image", "stable", "latest", "draft", "listing", "assets", "open"} =>
                    ListedIn(pypi', Version(r)) = Dists(r.h, r.rebuild)
  <2>1. Listed(Version(r)) = ListedIn(pypi, Version(r))
    BY DEF Listed, ListedIn
  <2>2. QED
    BY <1>2, <2>1, Growing, FilesFine DEF PromotionFine
<1>3. QED
  BY <1>1, <1>2

LEMMA FailedFine ==
    ASSUME TypeOK, RunsFine, PublicationHolds, PromotionHolds, TagsBind, FilesBound,
           [Next]_pipelineVars
    PROVE  /\ failed' \in PublicationRuns \cup PromotionRuns \cup {Nil}
           /\ failed' # Nil =>
                /\ failed'.flow = "publication" => PublicationFine(failed)'
                /\ failed'.flow = "promotion" => PromotionFine(failed)'
                /\ failed'.at \in IF failed'.flow = "publication"
                                  THEN {"pypi", "publish", "attest", "finalize"}
                                  ELSE {"recheck", "tagging", "image", "draft"}
<1>p. \A r : PublicationFine(r) =>
        /\ r.h.commits # <<>>
        /\ r.at \in {"finalize", "open"} => <<r.h, r.build>> \in attested'
  BY FineStays
<1>q. \A r : r.h \in Heads /\ r.rebuild \in Builds /\ PromotionFine(r) =>
        /\ r.h \in ToSet(mainline')
        /\ r.at \in {"tagging", "image", "stable", "latest", "draft", "listing", "assets", "open"} =>
            ListedIn(pypi', Version(r)) = Dists(r.h, r.rebuild)
  BY FineStays
<1>f. \A r \in PublicationRuns : r.flow = "publication" /\ r.h \in Heads /\ r.build \in Builds
  BY DEF PublicationRuns
<1>g. \A r \in PromotionRuns : r.flow = "promotion" /\ r.h \in Heads /\ r.rebuild \in Builds
  BY DEF PromotionRuns
<1>1. CASE failed' = failed
  <2>1. CASE failed = Nil
    BY <1>1, <2>1
  <2>2. CASE failed # Nil /\ failed \in PublicationRuns
    <3>1. PublicationFine(failed) /\ failed.flow = "publication"
      BY <1>f, <2>2 DEF RunsFine
    <3>2. PublicationFine(failed)'
      BY <1>p, <1>1, <3>1 DEF PublicationFine
    <3>3. QED
      BY <1>1, <2>2, <3>1, <3>2 DEF RunsFine
  <2>3. CASE failed # Nil /\ failed \in PromotionRuns
    <3>1. PromotionFine(failed) /\ failed.flow = "promotion"
      BY <1>g, <2>3 DEF RunsFine
    <3>2. PromotionFine(failed)'
      BY <1>q, <1>g, <1>1, <2>3, <3>1 DEF PromotionFine, Listed, ListedIn, Version
    <3>3. QED
      BY <1>1, <2>3, <3>1, <3>2 DEF RunsFine
  <2>4. QED
    BY <2>1, <2>2, <2>3 DEF TypeOK
<1>2. CASE PublicationFails /\ failed' # failed
  <2>1. Running("publication") /\ Fails(JobOf)
    BY <1>2 DEF PublicationFails
  <2>2. lock \in PublicationRuns /\ PublicationFine(lock)
    BY <2>1, PublicationTyped
  <2> DEFINE job == JobOf[lock.at]
  <2>3. failed' = [lock EXCEPT !.at = job, !.todo = {}] /\ job # "reserve"
    BY <1>2, <2>1 DEF Fails
  <2>4. /\ job \in {"pypi", "publish", "attest", "finalize"} /\ job \in DOMAIN JobOf
        /\ job = "finalize" => lock.at \in {"finalize", "open"}
    BY <2>2, <2>3, Jobs DEF PublicationRuns
  <2> HIDE DEF job
  <2>5. /\ failed' \in PublicationRuns /\ failed'.h = lock.h /\ failed'.build = lock.build
        /\ failed'.at = job /\ failed'.flow = "publication"
    BY <2>2, <2>3, <2>4 DEF PublicationRuns
  <2>6. PublicationFine(failed)'
    BY <1>p, <2>2, <2>4, <2>5, Growing DEF PublicationFine
  <2>7. QED
    BY <2>4, <2>5, <2>6
<1>3. CASE PromotionFails /\ failed' # failed
  <2>1. Running("promotion") /\ Fails(JobOfPromotion)
    BY <1>3 DEF PromotionFails
  <2>2. lock \in PromotionRuns /\ PromotionFine(lock) /\ lock.h \in Heads /\ lock.rebuild \in Builds
    BY <2>1, PromotionTyped
  <2> DEFINE job == JobOfPromotion[lock.at]
  <2>3. failed' = [lock EXCEPT !.at = job, !.todo = {}] /\ job # "prove"
    BY <1>3, <2>1 DEF Fails
  <2>4. /\ job \in {"recheck", "tagging", "image", "draft"} /\ job \in DOMAIN JobOfPromotion
        /\ job \in {"tagging", "image", "draft"} =>
            lock.at \in {"tagging", "image", "stable", "latest", "draft", "listing", "assets", "open"}
    BY <2>2, <2>3, Jobs DEF PromotionRuns
  <2> HIDE DEF job
  <2>5. /\ failed' \in PromotionRuns /\ failed'.h = lock.h /\ failed'.rebuild = lock.rebuild
        /\ failed'.at = job /\ failed'.flow = "promotion"
    BY <2>2, <2>3, <2>4 DEF PromotionRuns
  <2>6. /\ lock.h \in ToSet(mainline')
        /\ job \in {"tagging", "image", "draft"} =>
            ListedIn(pypi', Target(lock.h)) = Dists(lock.h, lock.rebuild)
    BY <1>q, <2>2, <2>4 DEF Version
  <2>7. PromotionFine(failed)'
    BY <2>4, <2>5, <2>6 DEF PromotionFine, Listed, ListedIn, Version
  <2>8. QED
    BY <2>4, <2>5, <2>7
<1>4. QED
  BY <1>1, <1>2, <1>3, FailedWritten

----------------------------------------------------------------------------
(* The steps of a publication.                                               *)

\* The tag a verification finds is the run's.
LEMMA BoundTag ==
    ASSUME TypeOK, NEW r, Tagged(r), Bound(r)
    PROVE  TagBound(r)
<1>1. PICK t \in tags : t.v = Candidate(r.h)
  BY DEF Tagged, TagOf
<1>2. t.at = r.h /\ t.binds = Assets(r.h, r.build)
  BY <1>1 DEF Bound, TagOf
<1>3. t = [v |-> t.v, at |-> t.at, binds |-> t.binds]
  BY DEF TypeOK, Tags
<1>4. QED
  BY <1>1, <1>2, <1>3 DEF TagBound

\* The run goes on, with the files it has left.
LEMMA PublicationGoes ==
    ASSUME lock \in PublicationRuns, NEW s \in DOMAIN JobOf, NEW todo \in SUBSET AllBytes,
           \/ lock' = [lock EXCEPT !.at = s] /\ todo = lock.todo
           \/ lock' = [lock EXCEPT !.todo = todo, !.at = s]
           \/ lock' = [lock EXCEPT !.todo = todo] /\ s = lock.at
    PROVE  /\ lock' \in PublicationRuns /\ lock'.flow = "publication"
           /\ lock'.h = lock.h /\ lock'.build = lock.build
           /\ lock'.at = s /\ lock'.todo = todo
  BY DEF PublicationRuns

\* A step that relies on nothing but the run.
Unguarded == {"reserve", "draft", "listing", "assets", "pypi", "publish", "channel", "reverify",
              "attest", "finalize"}

LEMMA PublicationGoesOn ==
    ASSUME TypeOK, RunsFine, [Next]_pipelineVars, Running("publication"),
           NEW s \in Unguarded, Goto(s), s = "finalize" => <<lock.h, lock.build>> \in attested'
    PROVE  lock' \in PublicationRuns /\ PublicationFine(lock)' /\ PublicationHolds'
<1>1. lock \in PublicationRuns /\ PublicationFine(lock)
  BY PublicationTyped
<1>2. s \in DOMAIN JobOf /\ lock.todo \in SUBSET AllBytes /\ lock' = [lock EXCEPT !.at = s]
  BY <1>1, Jobs DEF Unguarded, PublicationRuns, Goto
<1>3. /\ lock' \in PublicationRuns /\ lock'.flow = "publication"
      /\ lock'.h = lock.h /\ lock'.build = lock.build /\ lock'.at = s
  BY <1>1, <1>2, PublicationGoes
<1>4. PublicationFine(lock)'
  BY <1>1, <1>3 DEF PublicationFine, Unguarded
<1>5. PublicationHolds'
  BY <1>3 DEF PublicationHolds, Unguarded
<1>6. QED
  BY <1>3, <1>4, <1>5

LEMMA PublicationStarts ==
    ASSUME TypeOK, RunsFine, PublicationHolds, PromotionHolds, TagsBind, FilesBound,
           [Next]_pipelineVars, RunPublication
    PROVE  /\ lock' \in PublicationRuns \cup {Nil}
           /\ lock' # Nil => PublicationFine(lock)'
           /\ PublicationHolds'
<1>p. \A r : PublicationFine(r) =>
        /\ r.h.commits # <<>>
        /\ r.at \in {"finalize", "open"} => <<r.h, r.build>> \in attested'
  BY FineStays
<1>1. ASSUME NEW b \in built, lock' = Start(b[1], b[2])
      PROVE  lock' \in PublicationRuns /\ PublicationFine(lock)' /\ PublicationHolds'
  <2>1. b[1] \in Heads /\ b[2] \in Builds /\ b[1].commits # <<>>
    BY DEF TypeOK, RunsFine
  <2>2. lock' \in PublicationRuns /\ lock'.h = b[1] /\ lock'.at = "reserve"
    BY <1>1, <2>1, Jobs DEF Start, PublicationRuns
  <2>3. QED
    BY <2>1, <2>2 DEF PublicationFine, PublicationHolds
<1>2. CASE failed # Nil /\ failed.flow = "publication" /\ lock' = failed
  <2>1. /\ failed \in PublicationRuns /\ PublicationFine(failed)
        /\ failed.at \in {"pypi", "publish", "attest", "finalize"}
    BY <1>2 DEF TypeOK, RunsFine, PromotionRuns
  <2>2. PublicationFine(lock)'
    BY <1>2, <1>p, <2>1 DEF PublicationFine
  <2>3. PublicationHolds'
    BY <1>2, <2>1 DEF PublicationHolds
  <2>4. QED
    BY <1>2, <2>1, <2>2, <2>3
<1>3. QED
  BY <1>1, <1>2 DEF RunPublication

LEMMA PublicationStepFine ==
    ASSUME TypeOK, RunsFine, PublicationHolds, PromotionHolds, TagsBind, FilesBound, ReleasesApart,
           [Next]_pipelineVars, PublicationSteps \/ Attest, lock' # lock
    PROVE  /\ lock' \in PublicationRuns \cup {Nil}
           /\ lock' # Nil => PublicationFine(lock)'
           /\ PublicationHolds'
<1>n. lock' = Nil => PublicationHolds'
  BY DEF PublicationHolds, Running
<1>j. Unguarded \subseteq DOMAIN JobOf
  BY Jobs DEF Unguarded
<1>k. {"upload", "await", "image", "open", "tag"} \subseteq DOMAIN JobOf
  BY Jobs
<1>r. Running("publication")
  BY DEF PublicationSteps, Attest, Reserve, ReserveTag, ReserveDraft, DraftListed, ReserveAsset,
        StageUpload, UploadPython, PublishJob, AwaitPython, PushImage, MoveChannel, Reverify,
        Finalize, PublishDraft, At
<1>t. /\ lock \in PublicationRuns /\ lock.h \in Heads /\ lock.build \in Builds
      /\ lock.todo \in SUBSET AllBytes
      /\ PublicationFine(lock) /\ lock.h.commits # <<>>
      /\ tags \subseteq tags' /\ attested \subseteq attested'
  BY <1>r, PublicationTyped, TagsFine, Growing DEF PublicationRuns, PublicationFine
<1>u. TagBound(lock) /\ lock'.h = lock.h /\ lock'.build = lock.build => TagBound(lock)'
  BY <1>t DEF TagBound
<1>g. ASSUME NEW s \in Unguarded \ {"finalize"}, Goto(s)
      PROVE  lock' \in PublicationRuns /\ PublicationFine(lock)' /\ PublicationHolds'
  BY <1>g, <1>r, PublicationGoesOn
<1>1. CASE Reserve
  <2>1. CASE Goto("tag") /\ ~Tagged(lock) /\ tags' = tags
    <3>1. /\ lock' \in PublicationRuns /\ lock'.h = lock.h /\ lock'.build = lock.build
          /\ lock'.at = "tag"
      BY <1>k, <1>t, <2>1, PublicationGoes DEF Goto
    <3>2. \A t \in tags' : t.v # Candidate(lock.h)
      BY <2>1 DEF Tagged, TagOf
    <3>3. TagOf(Candidate(lock.h))' = {}
      BY <3>1, <3>2 DEF TagOf
    <3>4. PublicationHolds'
      BY <3>1, <3>3 DEF PublicationHolds
    <3>5. QED
      BY <1>t, <3>1, <3>4 DEF PublicationFine
  <2>2. CASE Goto("publish") \/ Goto("pypi") \/ Goto("draft")
    BY <1>g, <2>2 DEF Unguarded
  <2>3. QED
    BY <1>1, <2>1, <2>2 DEF Reserve, surfaces
<1>2. CASE ReserveTag \/ ReserveDraft \/ DraftListed
  <2>1. Goto("draft") \/ Goto("listing") \/ Goto("assets")
    BY <1>2 DEF ReserveTag, ReserveDraft, DraftListed
  <2>2. QED
    BY <1>g, <2>1 DEF Unguarded
<1>3. CASE ReserveAsset
  <2>1. Goto("publish") \/ Goto("pypi")
    BY <1>3, <1>r DEF ReserveAsset
  <2>2. QED
    BY <1>g, <2>1 DEF Unguarded
<1>4. CASE StageUpload
  <2>1. /\ ReservationBound(lock)
        /\ lock' = [lock EXCEPT !.todo = MissingFiles(lock),
                                !.at = IF MissingFiles(lock) = {} THEN "publish" ELSE "upload"]
    BY <1>4 DEF StageUpload
  <2>2. TagBound(lock)
    BY <2>1, BoundTag DEF ReservationBound, Inventory
  <2>3. MissingFiles(lock) \subseteq Dists(lock.h, lock.build) /\ MissingFiles(lock) \in SUBSET AllBytes
    BY <1>t, AssetsTyped DEF MissingFiles
  <2>4. PICK s \in {"publish", "upload"} : lock' = [lock EXCEPT !.todo = MissingFiles(lock), !.at = s]
    BY <2>1
  <2>5. /\ lock' \in PublicationRuns /\ lock'.h = lock.h /\ lock'.build = lock.build
        /\ lock'.at = s /\ lock'.todo = MissingFiles(lock)
    BY <1>j, <1>k, <1>t, <2>3, <2>4, PublicationGoes DEF Unguarded
  <2>6. QED
    BY <1>t, <1>u, <2>2, <2>3, <2>5 DEF PublicationFine, PublicationHolds
<1>5. CASE UploadPython
  <2>1. CASE Goto("publish")
    BY <1>g, <2>1 DEF Unguarded
  <2>2. CASE \E bytes \in lock.todo : lock' = [lock EXCEPT !.todo = @ \ {bytes}]
    <3>1. PICK bytes \in lock.todo : lock' = [lock EXCEPT !.todo = lock.todo \ {bytes}]
      BY <2>2
    <3>2. lock.at = "upload" /\ TagBound(lock) /\ lock.todo \subseteq Dists(lock.h, lock.build)
      BY <1>5, <1>r DEF UploadPython, At, PublicationHolds
    <3>d. lock.todo \ {bytes} \in SUBSET AllBytes /\ "upload" \in DOMAIN JobOf
      BY <1>k, <1>t
    <3>3. /\ lock' \in PublicationRuns /\ lock'.h = lock.h /\ lock'.build = lock.build
          /\ lock'.at = "upload" /\ lock'.todo = lock.todo \ {bytes}
      BY <1>t, <3>1, <3>2, <3>d DEF PublicationRuns
    <3>4. QED
      BY <1>t, <1>u, <3>2, <3>3 DEF PublicationFine, PublicationHolds
  <2>3. QED
    BY <1>5, <2>1, <2>2 DEF UploadPython
<1>6. CASE PublishJob
  <2>1. ReservationBound(lock) /\ lock' = [lock EXCEPT !.at = "await"]
    BY <1>6 DEF PublishJob, Goto
  <2>2. TagBound(lock)
    BY <2>1, BoundTag DEF ReservationBound, Inventory
  <2>3. /\ lock' \in PublicationRuns /\ lock'.h = lock.h /\ lock'.build = lock.build
        /\ lock'.at = "await"
    BY <1>k, <1>t, <2>1, PublicationGoes
  <2>4. QED
    BY <1>t, <1>u, <2>2, <2>3 DEF PublicationFine, PublicationHolds
<1>7. CASE AwaitPython
  <2>1. TagBound(lock) /\ lock' = [lock EXCEPT !.at = "image"]
    BY <1>7, <1>r DEF AwaitPython, At, Goto, PublicationHolds
  <2>2. /\ lock' \in PublicationRuns /\ lock'.h = lock.h /\ lock'.build = lock.build
        /\ lock'.at = "image"
    BY <1>k, <1>t, <2>1, PublicationGoes
  <2>3. QED
    BY <1>t, <1>u, <2>1, <2>2 DEF PublicationFine, PublicationHolds
<1>8. CASE PushImage \/ MoveChannel \/ Reverify
  <2>1. Goto("channel") \/ Goto("reverify") \/ Goto("attest")
    BY <1>8 DEF PushImage, MoveChannel, Reverify
  <2>2. QED
    BY <1>g, <2>1 DEF Unguarded
<1>9. CASE Attest
  <2>1. Goto("finalize") /\ <<lock.h, lock.build>> \in attested'
    BY <1>9 DEF Attest
  <2>2. QED
    BY <1>r, <2>1, PublicationGoesOn DEF Unguarded
<1>10. CASE Finalize /\ lock' # Nil
  <2> DEFINE v == Candidate(lock.h)
             seen == Visible(v, TRUE)
  <2>1. /\ Final(lock) /\ lock.at = "finalize" /\ lock' = [lock EXCEPT !.at = "open"]
        /\ UNCHANGED <<tags, pypi, images, releases>>
    BY <1>10 DEF Finalize, Goto, At, surfaces
  <2>2. PICK x \in seen : x.assets = Assets(lock.h, lock.build)
    BY <2>1 DEF Final, Complete
  <2>3. /\ Cardinality(seen) <= 1 /\ Tagged(lock) /\ Bound(lock)
        /\ Listed(v) = Dists(lock.h, lock.build) /\ ImageOf(v) = {Digest(lock.h, lock.build)}
    BY <2>1, <2>2 DEF Final, Inventory
  <2>4. TagBound(lock)
    BY <2>3, BoundTag
  <2>5. \A y \in seen : y = x
    <3>1. IsFiniteSet(seen)
      <4>1. seen \in SUBSET releases
        BY DEF Visible
      <4>2. QED
        BY <4>1, FS_Subset DEF TypeOK
    <3> DEFINE n == Cardinality(seen)
    <3> HIDE DEF seen
    <3>2. n \in Nat /\ n # 0 /\ n <= 1
      BY <2>2, <2>3, <3>1, FS_CardinalityType, FS_EmptySet
    <3> HIDE DEF n
    <3>3. n = 1
      BY <3>2
    <3> USE DEF n
    <3>4. PICK z : seen = {z}
      BY <3>1, <3>3, FS_Singleton
    <3>5. QED
      BY <2>2, <3>4
  <2>6. ASSUME NEW y \in releases, y.v = v PROVE y.listed /\ y.assets = Assets(lock.h, lock.build)
    <3>1. x \in releases /\ x.v = v /\ x.listed
      BY <2>2 DEF Visible
    <3>2. y.listed
      BY <2>6, <3>1 DEF ReleasesApart
    <3>3. y \in seen
      BY <2>6, <3>2 DEF Visible
    <3>4. QED
      BY <2>2, <2>5, <3>2, <3>3
  <2>7. /\ lock' \in PublicationRuns /\ lock'.h = lock.h /\ lock'.build = lock.build
        /\ lock'.at = "open"
    BY <1>k, <1>t, <2>1, PublicationGoes
  <2>8. PublicationFine(lock)'
    BY <1>t, <2>1, <2>7 DEF PublicationFine
  <2>9. Listed(Candidate(lock.h))' = Dists(lock.h, lock.build)
    BY <2>1, <2>3, <2>7 DEF Listed
  <2>10. ImageOf(Candidate(lock.h))' = {Digest(lock.h, lock.build)}
    BY <2>1, <2>3, <2>7 DEF ImageOf
  <2>11. \A y \in releases' : y.v = Candidate(lock.h) =>
            y.listed /\ y.assets = Assets(lock.h, lock.build)
    BY <2>1, <2>6
  <2>12. PublicationHolds'
    BY <1>u, <2>4, <2>7, <2>9, <2>10, <2>11 DEF PublicationHolds
  <2>13. QED
    BY <2>7, <2>8, <2>12
<1>11. CASE (Finalize /\ lock' = Nil) \/ PublishDraft
  BY <1>n, <1>11 DEF PublishDraft
<1>12. QED
  BY <1>1, <1>2, <1>3, <1>4, <1>5, <1>6, <1>7, <1>8, <1>9, <1>10, <1>11 DEF PublicationSteps

----------------------------------------------------------------------------
(* The steps of a promotion.                                                 *)

\* The run is changed in its step and in the files it has left only.
LEMMA PromotionGoes ==
    ASSUME lock \in PromotionRuns, NEW s \in DOMAIN JobOfPromotion, NEW todo \in SUBSET AllBytes,
           \/ lock' = [lock EXCEPT !.at = s] /\ todo = lock.todo
           \/ lock' = [lock EXCEPT !.at = s, !.todo = todo]
    PROVE  /\ lock' \in PromotionRuns /\ lock'.flow = "promotion"
           /\ lock'.h = lock.h /\ lock'.rebuild = lock.rebuild
           /\ lock'.at = s /\ lock'.todo = todo
  BY DEF PromotionRuns

\* The steps that come after PyPI was verified.
Uploaded == {"tagging", "image", "stable", "latest", "draft", "listing", "assets", "open"}

LEMMA PromotionGoesOn ==
    ASSUME TypeOK, RunsFine, PublicationHolds, PromotionHolds, TagsBind, FilesBound,
           [Next]_pipelineVars, Running("promotion"),
           NEW s \in DOMAIN JobOfPromotion, Goto(s),
           s \in Uploaded => lock.at \in Uploaded \/ Verified(lock)
    PROVE  /\ lock' \in PromotionRuns /\ lock'.flow = "promotion"
           /\ lock'.h = lock.h /\ lock'.rebuild = lock.rebuild /\ lock'.at = s
           /\ PromotionFine(lock)'
           /\ s \notin {"upload", "open"} => PromotionHolds'
<1>1. /\ lock \in PromotionRuns /\ lock.h \in Heads /\ lock.rebuild \in Builds
      /\ PromotionFine(lock)
  BY PromotionTyped
<1>2. lock.todo \in SUBSET AllBytes /\ lock' = [lock EXCEPT !.at = s]
  BY <1>1 DEF PromotionRuns, Goto
<1>3. /\ lock' \in PromotionRuns /\ lock'.flow = "promotion"
      /\ lock'.h = lock.h /\ lock'.rebuild = lock.rebuild /\ lock'.at = s
  BY <1>1, <1>2, PromotionGoes
<1>4. lock.h \in ToSet(mainline')
  BY <1>1, Growing DEF PromotionFine
<1>5. s \in Uploaded => ListedIn(pypi', Target(lock.h)) = Dists(lock.h, lock.rebuild)
  <2>1. s \in Uploaded => Listed(Version(lock)) = Dists(lock.h, lock.rebuild)
    BY <1>1 DEF PromotionFine, Uploaded, Verified
  <2>2. Listed(Version(lock)) = ListedIn(pypi, Target(lock.h))
    BY DEF Listed, ListedIn, Version
  <2>3. QED
    BY <1>1, <2>1, <2>2, FilesFine
<1>6. PromotionFine(lock)'
  BY <1>3, <1>4, <1>5 DEF PromotionFine, Listed, ListedIn, Version, Uploaded
<1>7. s \notin {"upload", "open"} => PromotionHolds'
  BY <1>3 DEF PromotionHolds
<1>8. QED
  BY <1>3, <1>6, <1>7

LEMMA PromotionStarts ==
    ASSUME TypeOK, RunsFine, PublicationHolds, PromotionHolds, TagsBind, FilesBound,
           [Next]_pipelineVars, RunPromotion
    PROVE  /\ lock' \in PromotionRuns /\ PromotionFine(lock)' /\ PromotionHolds'
<1>q. \A r : r.h \in Heads /\ r.rebuild \in Builds /\ PromotionFine(r) =>
        /\ r.h \in ToSet(mainline')
        /\ r.at \in {"tagging", "image", "stable", "latest", "draft", "listing", "assets", "open"} =>
            ListedIn(pypi', Version(r)) = Dists(r.h, r.rebuild)
  BY FineStays
<1>1. ASSUME NEW h \in ToSet(mainline), NEW build \in Builds, NEW rebuild \in Builds,
             NEW resume \in BOOLEAN, lock' = Dispatch(h, build, rebuild, resume)
      PROVE  lock' \in PromotionRuns /\ PromotionFine(lock)' /\ PromotionHolds'
  <2>m. mainline \in Seq(Heads)
    BY DEF TypeOK
  <2>h. h \in Heads
    BY <2>m DEF ToSet
  <2>1. h \in Heads /\ h \in ToSet(mainline')
    BY <2>h, Growing
  <2>2. lock' \in PromotionRuns /\ lock'.h = h /\ lock'.at = "prove"
    BY <1>1, <2>1, Jobs DEF Dispatch, PromotionRuns
  <2>3. QED
    BY <2>1, <2>2 DEF PromotionFine, PromotionHolds
<1>2. CASE failed # Nil /\ failed.flow = "promotion" /\ lock' = failed
  <2>1. /\ failed \in PromotionRuns /\ PromotionFine(failed)
        /\ failed.at \in {"recheck", "tagging", "image", "draft"}
        /\ failed.h \in Heads /\ failed.rebuild \in Builds
    BY <1>2 DEF TypeOK, RunsFine, PublicationRuns, PromotionRuns
  <2>2. PromotionFine(lock)'
    BY <1>2, <1>q, <2>1 DEF PromotionFine, Listed, ListedIn, Version
  <2>3. PromotionHolds'
    BY <1>2, <2>1 DEF PromotionHolds
  <2>4. QED
    BY <1>2, <2>1, <2>2, <2>3
<1>3. QED
  BY <1>1, <1>2 DEF RunPromotion

\* gh resolves a version to one release.
LEMMA ResolvedOne ==
    ASSUME TypeOK, ReleasesApart, NEW v, NEW x \in Resolved(v), NEW y \in Resolved(v)
    PROVE  x = y /\ x \in releases /\ x.v = v /\ x.listed
<1>1. /\ x \in releases /\ y \in releases /\ x.v = v /\ y.v = v /\ x.listed
      /\ x.id <= y.id /\ y.id <= x.id
  BY DEF Resolved, Visible
<1>2. x.id \in Nat /\ y.id \in Nat
  BY <1>1 DEF TypeOK, Releases
<1>3. x.id = y.id
  BY <1>1, <1>2
<1>4. QED
  BY <1>1, <1>3 DEF ReleasesApart

LEMMA PromotionStepFine ==
    ASSUME TypeOK, RunsFine, PublicationHolds, PromotionHolds, TagsBind, FilesBound, ReleasesApart,
           [Next]_pipelineVars, PromotionSteps, lock' # lock
    PROVE  /\ lock' \in PromotionRuns \cup {Nil}
           /\ lock' # Nil => PromotionFine(lock)'
           /\ PromotionHolds'
<1>n. lock' = Nil => PromotionHolds'
  BY DEF PromotionHolds, Running
<1>r. Running("promotion")
  BY DEF PromotionSteps, ProveJob, Recheck, UploadStable, VerifyPython, TagStable, PromoteImage,
        PromoteChannel, ReleaseDraft, ReleaseListed, CompleteRelease, PublishRelease, At
<1>t. /\ lock \in PromotionRuns /\ lock.h \in Heads /\ lock.rebuild \in Builds
      /\ lock.todo \in SUBSET AllBytes /\ PromotionFine(lock)
      /\ lock.h \in ToSet(mainline')
  BY <1>r, PromotionTyped, Growing DEF PromotionRuns, PromotionFine
<1>g. ASSUME NEW s \in DOMAIN JobOfPromotion \ {"upload", "open"}, Goto(s),
             s \in Uploaded => lock.at \in Uploaded \/ Verified(lock)
      PROVE  lock' \in PromotionRuns /\ PromotionFine(lock)' /\ PromotionHolds'
  BY <1>g, <1>r, PromotionGoesOn
<1>v. {"recheck", "verify"} \subseteq DOMAIN JobOfPromotion \ ({"upload", "open"} \cup Uploaded)
  BY Jobs DEF Uploaded
<1>w. Uploaded \subseteq DOMAIN JobOfPromotion
  BY Jobs DEF Uploaded
<1>1. CASE ProveJob
  <2>1. Goto("recheck")
    BY <1>1 DEF ProveJob
  <2>2. QED
    BY <1>g, <1>v, <2>1
<1>2. CASE Recheck
  <2>1. CASE lock' = [lock EXCEPT !.at = "verify"]
    BY <1>g, <1>v, <2>1 DEF Goto
  <2>2. CASE lock' = [lock EXCEPT !.at = "upload", !.todo = Dists(lock.h, lock.rebuild)]
    <3>1. Dists(lock.h, lock.rebuild) \in SUBSET AllBytes /\ "upload" \in DOMAIN JobOfPromotion
      BY <1>t, AssetsTyped, Jobs
    <3>2. /\ lock' \in PromotionRuns /\ lock'.h = lock.h /\ lock'.rebuild = lock.rebuild
          /\ lock'.at = "upload" /\ lock'.todo = Dists(lock.h, lock.rebuild)
      BY <1>t, <2>2, <3>1, PromotionGoes
    <3>3. QED
      BY <1>t, <3>2 DEF PromotionFine, PromotionHolds
  <2>3. QED
    BY <1>2, <2>1, <2>2 DEF Recheck
<1>3. CASE UploadStable
  <2>1. CASE Goto("verify")
    BY <1>g, <1>v, <2>1
  <2>2. CASE \E bytes \in lock.todo : lock' = [lock EXCEPT !.todo = @ \ {bytes}]
    <3>1. PICK bytes \in lock.todo : lock' = [lock EXCEPT !.todo = lock.todo \ {bytes}]
      BY <2>2
    <3>2. lock.at = "upload" /\ lock.todo \subseteq Dists(lock.h, lock.rebuild)
      BY <1>3, <1>r DEF UploadStable, At, PromotionHolds
    <3>3. lock.todo \ {bytes} \in SUBSET AllBytes
      BY <1>t
    <3>4. /\ lock' \in PromotionRuns /\ lock'.h = lock.h /\ lock'.rebuild = lock.rebuild
          /\ lock'.at = "upload" /\ lock'.todo = lock.todo \ {bytes}
      BY <1>t, <3>1, <3>2, <3>3 DEF PromotionRuns
    <3>5. QED
      BY <1>t, <3>2, <3>4 DEF PromotionFine, PromotionHolds
  <2>3. QED
    BY <1>3, <2>1, <2>2 DEF UploadStable
<1>4. CASE VerifyPython
  <2>1. Verified(lock) /\ Goto("tagging")
    BY <1>4 DEF VerifyPython
  <2>2. QED
    BY <1>g, <1>w, <2>1 DEF Uploaded
<1>5. CASE TagStable \/ PromoteImage
  <2>1. lock.at \in Uploaded /\ (Goto("image") \/ Goto("stable"))
    BY <1>5 DEF TagStable, PromoteImage, At, Uploaded
  <2>2. QED
    BY <1>g, <1>w, <2>1 DEF Uploaded
<1>6. CASE PromoteChannel("stable", "latest") \/ PromoteChannel("latest", "draft")
  <2>1. lock.at \in Uploaded /\ (Goto("latest") \/ Goto("draft"))
    BY <1>6 DEF PromoteChannel, At, Uploaded
  <2>2. QED
    BY <1>g, <1>w, <2>1 DEF Uploaded
<1>7. CASE ReleaseDraft \/ ReleaseListed
  <2>1. lock.at \in Uploaded /\ (Goto("listing") \/ Goto("assets"))
    BY <1>7 DEF ReleaseDraft, ReleaseListed, At, Uploaded
  <2>2. QED
    BY <1>g, <1>w, <2>1 DEF Uploaded
<1>8. CASE CompleteRelease /\ lock' # Nil
  <2>1. PICK x \in Resolved(Version(lock)) :
            /\ x.assets = Assets(lock.h, lock.rebuild) /\ Goto("open") /\ UNCHANGED releases
    BY <1>8 DEF CompleteRelease
  <2>2. lock.at \in Uploaded
    BY <1>8 DEF CompleteRelease, At, Uploaded
  <2>3. /\ lock' \in PromotionRuns /\ lock'.h = lock.h /\ lock'.rebuild = lock.rebuild
        /\ lock'.at = "open" /\ PromotionFine(lock)'
    BY <1>r, <1>w, <2>1, <2>2, PromotionGoesOn DEF Uploaded
  <2>4. x \in releases /\ x.v = Version(lock) /\ x.listed
    BY <2>1, ResolvedOne
  <2>5. \A y \in releases : y.v = Target(lock.h) => y.listed
    BY <2>4 DEF ReleasesApart, Version
  <2>6. \A y \in Resolved(Target(lock.h)) : y.assets = Assets(lock.h, lock.rebuild)
    BY <2>1, ResolvedOne DEF Version
  <2>7. Resolved(Target(lock.h))' = Resolved(Target(lock.h))
    BY <2>1, <2>3 DEF Resolved, Visible
  <2>8. PromotionHolds'
    BY <2>1, <2>3, <2>5, <2>6, <2>7 DEF PromotionHolds, Version
  <2>9. QED
    BY <2>3, <2>8
<1>9. CASE (CompleteRelease /\ lock' = Nil) \/ PublishRelease
  BY <1>n, <1>9 DEF PublishRelease
<1>10. QED
  BY <1>1, <1>2, <1>3, <1>4, <1>5, <1>6, <1>7, <1>8, <1>9 DEF PromotionSteps

----------------------------------------------------------------------------
(* The steps that leave the run as it is.                                    *)

\* While the run is about to open a release, the releases only become visible.
LEMMA OpenReleases ==
    ASSUME TypeOK, RunsFine, [Next]_pipelineVars, lock' = lock, lock # Nil, lock.at = "open"
    PROVE  releases' = releases \/ releases' = {Seen(x) : x \in releases}
  BY ReleasesChange DEF ReleasesStep, Opens

LEMMA OpenTag ==
    ASSUME TypeOK, RunsFine, [Next]_pipelineVars, lock' = lock, Running("publication"),
           lock.at = "tag"
    PROVE  tags' = tags
<1>1. lock \in PublicationRuns
  BY RunTyped
<1>2. ~ReserveTag
  BY <1>1 DEF ReserveTag, Goto, PublicationRuns
<1>3. ~TagStable
  BY DEF TagStable, At, Running
<1>4. QED
  BY <1>2, <1>3, TagsWritten

LEMMA PublicationStays ==
    ASSUME TypeOK, RunsFine, PublicationHolds, PromotionHolds, TagsBind, FilesBound, ImagesBound,
           ReleasesApart, [Next]_pipelineVars, lock' = lock, Running("publication")
    PROVE  PublicationFine(lock)' /\ PublicationHolds'
<1>1. lock.h \in Heads /\ lock.build \in Builds /\ IsCandidate(Candidate(lock.h)) /\ lock # Nil
  BY PublicationTyped DEF Running
<1>2. PublicationFine(lock)'
  BY PublicationTyped, FineStays DEF PublicationFine
<1>3. lock.at = "tag" => TagOf(Candidate(lock.h))' = {}
  BY OpenTag DEF PublicationHolds, TagOf
<1>4. lock.at \in {"upload", "await", "image", "open"} => TagBound(lock)'
  BY TagsFine DEF PublicationHolds, TagBound
<1>5. lock.at = "upload" => lock.todo \subseteq Dists(lock.h, lock.build)
  BY DEF PublicationHolds
<1>6. CASE lock.at = "open"
  <2> DEFINE v == Candidate(lock.h)
  <2>1. /\ Listed(v) = Dists(lock.h, lock.build) /\ ImageOf(v) = {Digest(lock.h, lock.build)}
        /\ \A x \in releases : x.v = v => x.listed /\ x.assets = Assets(lock.h, lock.build)
    BY <1>6 DEF PublicationHolds
  <2>2. ListedIn(pypi', v) = Dists(lock.h, lock.build)
    BY <1>1, <2>1, FilesFine DEF Listed, ListedIn
  <2>3. ImageIn(images', v) = {Digest(lock.h, lock.build)}
    <3>1. ImageIn(images, v) = {Digest(lock.h, lock.build)}
      BY <2>1 DEF ImageOf, ImageIn
    <3>2. QED
      BY <1>1, <3>1, ImagesFine
  <2>4. ASSUME NEW y \in releases', y.v = v
        PROVE  y.listed /\ y.assets = Assets(lock.h, lock.build)
    <3>1. CASE releases' = releases
      BY <2>1, <2>4, <3>1
    <3>2. CASE releases' = {Seen(x) : x \in releases}
      <4>1. PICK x \in releases : y = Seen(x)
        BY <3>2, <2>4
      <4>2. x \in Releases
        BY DEF TypeOK
      <4>3. QED
        BY <2>1, <2>4, <4>1, <4>2, SeenRelease
    <3>3. QED
      BY <1>1, <1>6, <3>1, <3>2, OpenReleases
  <2>5. Listed(Candidate(lock.h))' = Dists(lock.h, lock.build)
    BY <2>2 DEF Listed, ListedIn
  <2>6. ImageOf(Candidate(lock.h))' = {Digest(lock.h, lock.build)}
    BY <2>3 DEF ImageOf, ImageIn
  <2>7. QED
    BY <1>2, <1>4, <1>6, <2>4, <2>5, <2>6 DEF PublicationHolds
<1>7. CASE lock.at # "open"
  BY <1>2, <1>3, <1>4, <1>5, <1>7 DEF PublicationHolds
<1>8. QED
  BY <1>6, <1>7

LEMMA PromotionStays ==
    ASSUME TypeOK, RunsFine, PublicationHolds, PromotionHolds, TagsBind, FilesBound, ImagesBound,
           ReleasesApart, [Next]_pipelineVars, lock' = lock, Running("promotion")
    PROVE  PromotionFine(lock)' /\ PromotionHolds'
<1>1. lock.h \in Heads /\ lock.rebuild \in Builds /\ lock # Nil /\ PromotionFine(lock)
  BY PromotionTyped DEF Running
<1>2. PromotionFine(lock)'
  <2>1. /\ lock.h \in ToSet(mainline')
        /\ lock.at \in {"tagging", "image", "stable", "latest", "draft", "listing", "assets", "open"} =>
            ListedIn(pypi', Version(lock)) = Dists(lock.h, lock.rebuild)
    BY <1>1, FineStays
  <2>2. QED
    BY <2>1 DEF PromotionFine, Listed, ListedIn, Version
<1>3. CASE lock.at = "open"
  <2> DEFINE v == Target(lock.h)
  <2>1. /\ \A x \in releases : x.v = v => x.listed
        /\ \A x \in Resolved(v) : x.assets = Assets(lock.h, lock.rebuild)
    BY <1>3 DEF PromotionHolds, Version
  <2>2. \A x : x \in releases' /\ x.v = v <=> x \in releases /\ x.v = v
    <3>1. CASE releases' = releases
      BY <3>1
    <3>2. CASE releases' = {Seen(x) : x \in releases}
      <4>1. \A x \in releases : Seen(x).v = x.v /\ (x.v = v => Seen(x) = x)
        BY <2>1, SeenRelease DEF TypeOK
      <4>2. QED
        BY <3>2, <4>1
    <3>3. QED
      BY <1>1, <1>3, <3>1, <3>2, OpenReleases
  <2>3. {x \in releases' : x.v = v /\ x.listed} = {x \in releases : x.v = v /\ x.listed}
    BY <2>2
  <2>4. Visible(v, TRUE)' = Visible(v, TRUE)
    BY <2>3 DEF Visible
  <2>5. Resolved(v)' = Resolved(v)
    BY <2>4 DEF Resolved
  <2>6. \A x \in releases' : x.v = v => x.listed
    BY <2>1, <2>2
  <2>7. \A x \in Resolved(v)' : x.assets = Assets(lock.h, lock.rebuild)
    BY <2>1, <2>5
  <2>8. QED
    BY <1>2, <1>3, <2>6, <2>7 DEF PromotionHolds, Version
<1>4. CASE lock.at # "open"
  BY <1>2, <1>4 DEF PromotionHolds
<1>5. QED
  BY <1>3, <1>4

----------------------------------------------------------------------------
(* The lock.                                                                 *)

\* What is known of the run that holds the lock, of whichever workflow it is.
LockHolds ==
    /\ lock \in PublicationRuns \cup PromotionRuns \cup RecutRuns \cup {Nil}
    /\ lock # Nil =>
        /\ lock.flow = "publication" => PublicationFine(lock)
        /\ lock.flow = "promotion" => PromotionFine(lock)
    /\ PublicationHolds /\ PromotionHolds

LEMMA Flows ==
    /\ \A r \in PublicationRuns : r.flow = "publication"
    /\ \A r \in PromotionRuns : r.flow = "promotion"
    /\ \A r \in RecutRuns : r.flow = "recut" /\ r # Nil
  BY NilAssumption DEF PublicationRuns, PromotionRuns, RecutRuns

\* A workflow that takes or moves the lock has it first, or finds it free.
LEMMA LockMoves ==
    ASSUME TypeOK, RunsFine, PublicationHolds, PromotionHolds, TagsBind, FilesBound, ReleasesApart,
           [Next]_pipelineVars, lock' # lock, ~RecutNext
    PROVE  /\ ~Running("recut") /\ ~Running("recut")'
           /\ LockHolds'
<1>1. CASE PublicationNext
  <2>1. RunPublication \/ PublicationSteps \/ Attest \/ PublicationFails
    BY <1>1 DEF PublicationNext, BuildCandidate
  <2>2. ~Running("recut")
    BY <2>1 DEF RunPublication, PublicationFails, PublicationSteps, Attest, Reserve, ReserveTag,
        ReserveDraft, DraftListed, ReserveAsset, StageUpload, UploadPython, PublishJob,
        AwaitPython, PushImage, MoveChannel, Reverify, Finalize, PublishDraft, At, Running
  <2>3. CASE RunPublication \/ PublicationSteps \/ Attest
    <3>1. /\ lock' \in PublicationRuns \cup {Nil}
          /\ lock' # Nil => PublicationFine(lock)'
          /\ PublicationHolds'
      BY <2>3, PublicationStarts, PublicationStepFine
    <3>2. lock' # Nil => lock'.flow = "publication"
      BY <3>1, Flows
    <3>3. PromotionHolds'
      BY <3>2 DEF PromotionHolds, Running
    <3>4. QED
      BY <2>2, <3>1, <3>2, <3>3 DEF LockHolds, Running
  <2>4. CASE PublicationFails
    <3>1. lock' = Nil
      BY <2>4 DEF PublicationFails, Fails
    <3>2. QED
      BY <2>2, <3>1 DEF LockHolds, Running, PublicationHolds, PromotionHolds
  <2>5. QED
    BY <2>1, <2>3, <2>4
<1>2. CASE PromotionNext
  <2>1. RunPromotion \/ PromotionSteps \/ PromotionFails
    BY <1>2 DEF PromotionNext
  <2>2. ~Running("recut")
    BY <2>1 DEF RunPromotion, PromotionFails, PromotionSteps, ProveJob, Recheck, UploadStable,
        VerifyPython, TagStable, PromoteImage, PromoteChannel, ReleaseDraft, ReleaseListed,
        CompleteRelease, PublishRelease, At, Running
  <2>3. CASE RunPromotion \/ PromotionSteps
    <3>1. /\ lock' \in PromotionRuns \cup {Nil}
          /\ lock' # Nil => PromotionFine(lock)'
          /\ PromotionHolds'
      BY <2>3, PromotionStarts, PromotionStepFine
    <3>2. lock' # Nil => lock'.flow = "promotion"
      BY <3>1, Flows
    <3>3. PublicationHolds'
      BY <3>2 DEF PublicationHolds, Running
    <3>4. QED
      BY <2>2, <3>1, <3>2, <3>3 DEF LockHolds, Running
  <2>4. CASE PromotionFails
    <3>1. lock' = Nil
      BY <2>4 DEF PromotionFails, Fails
    <3>2. QED
      BY <2>2, <3>1 DEF LockHolds, Running, PublicationHolds, PromotionHolds
  <2>5. QED
    BY <2>1, <2>3, <2>4
<1>3. QED
  BY <1>1, <1>2, LockWritten

LEMMA LockStays ==
    ASSUME TypeOK, RunsFine, PublicationHolds, PromotionHolds, TagsBind, FilesBound, ImagesBound,
           ReleasesApart, [Next]_pipelineVars, lock' = lock
    PROVE  LockHolds'
<1>1. CASE Running("publication")
  <2>1. PublicationFine(lock)' /\ PublicationHolds' /\ lock' \in PublicationRuns
    BY <1>1, PublicationStays, RunTyped
  <2>2. lock'.flow = "publication"
    BY <2>1, Flows
  <2>3. QED
    BY <2>1, <2>2 DEF LockHolds, PromotionHolds, Running
<1>2. CASE Running("promotion")
  <2>1. PromotionFine(lock)' /\ PromotionHolds' /\ lock' \in PromotionRuns
    BY <1>2, PromotionStays, RunTyped
  <2>2. lock'.flow = "promotion"
    BY <2>1, Flows
  <2>3. QED
    BY <2>1, <2>2 DEF LockHolds, PublicationHolds, Running
<1>3. CASE ~Running("publication") /\ ~Running("promotion")
  BY <1>3 DEF TypeOK, LockHolds, PublicationHolds, PromotionHolds, Running
<1>4. QED
  BY <1>1, <1>2, <1>3

LEMMA BranchAndLock ==
    ASSUME IInv, [Next]_pipelineVars
    PROVE  /\ branch' \in Heads \cup {Nil} /\ preserved' \subseteq Heads /\ merged' \subseteq Heads
           /\ LockHolds'
           /\ RecutKeeps' /\ AbsenceKnown' /\ HeadKept'
<1>i. /\ TypeOK /\ RunsFine /\ PublicationHolds /\ PromotionHolds /\ TagsBind /\ FilesBound
      /\ ImagesBound /\ ReleasesApart /\ RecutKeeps /\ AbsenceKnown /\ HeadKept
  BY DEF IInv
<1>1. CASE RecutNext
  <2>1. /\ branch' \in Heads \cup {Nil} /\ preserved' \subseteq Heads
        /\ lock' \in RecutRuns \cup {Nil} \/ lock' = lock
        /\ RecutKeeps' /\ AbsenceKnown' /\ HeadKept'
    BY <1>1, <1>i, RecutFine
  <2>2. merged' = merged
    BY <1>1 DEF RecutNext, StartRecut, ReadBefore, Push, Confirm, RecutError, Recover, RunnerDies,
        RestoreByHand, Unmoved
  <2>3. LockHolds'
    <3>1. CASE lock' = lock
      BY <1>i, <3>1, LockStays
    <3>2. CASE lock' \in RecutRuns \cup {Nil}
      <4>1. lock' # Nil => lock'.flow = "recut"
        BY <3>2, Flows
      <4>2. QED
        BY <3>2, <4>1 DEF LockHolds, PublicationHolds, PromotionHolds, Running
    <3>3. QED
      BY <2>1, <3>1, <3>2
  <2>4. QED
    BY <1>i, <2>1, <2>2, <2>3 DEF TypeOK
<1>2. CASE ~RecutNext
  <2>1. LockHolds' /\ (lock' = lock \/ (~Running("recut") /\ ~Running("recut")'))
    <3>1. CASE lock' = lock
      BY <1>i, <3>1, LockStays
    <3>2. CASE lock' # lock
      BY <1>i, <1>2, <3>2, LockMoves
    <3>3. QED
      BY <3>1, <3>2
  <2>2. CASE UNCHANGED <<branch, preserved, merged>> /\ outcome' = outcome
    <3>1. HeadKept'
      BY <1>i, <2>2, StaysKept
    <3>2. RecutKeeps' /\ AbsenceKnown'
      BY <1>i, <2>1, <2>2 DEF RecutKeeps, AbsenceKnown, Running
    <3>3. QED
      BY <1>i, <2>1, <2>2, <3>1, <3>2 DEF TypeOK
  <2>3. CASE \E c \in Commits : MergePull(c) /\ outcome' = outcome
    <3>1. PICK c \in Commits : MergePull(c)
      BY <2>3
    <3>2. branch' \in Heads /\ merged' \subseteq Heads /\ branch' # Nil /\ HeadKept'
      BY <1>i, <3>1, MergeKeeps
    <3>3. preserved' = preserved /\ lock' = lock
      BY <3>1 DEF MergePull
    <3>4. RecutKeeps' /\ AbsenceKnown'
      BY <1>i, <3>2, <3>3 DEF RecutKeeps, AbsenceKnown, Running
    <3>5. QED
      BY <1>i, <2>1, <3>2, <3>3, <3>4 DEF TypeOK
  <2>4. QED
    BY <1>2, <2>2, <2>3, RefsWritten
<1>3. QED
  BY <1>1, <1>2

----------------------------------------------------------------------------
(* What is published.                                                        *)

\* A release that is published was before, or is the draft the run had checked.
LEMMA Published ==
    ASSUME TypeOK, ReleasesStep, NEW x \in releases', ~x.draft
    PROVE  \E p \in releases :
            p.v = x.v /\ p.assets = x.assets /\ (~p.draft \/ Opens(p, x))
<1>1. CASE releases' = releases
  BY <1>1
<1>2. CASE releases' = {Seen(p) : p \in releases}
  <2>1. PICK p \in releases : x = Seen(p)
    BY <1>2
  <2>2. p.v = x.v /\ p.assets = x.assets /\ p.draft = x.draft
    BY <2>1, SeenRelease DEF TypeOK
  <2>3. QED
    BY <2>2
<1>3. CASE \E p \in releases : releases' = releases \ {p}
  BY <1>3
<1>4. CASE \E v \in Versions : CreateDraft(v)
  BY <1>4 DEF CreateDraft
<1>5. CASE \E p, q \in releases \cup releases' :
             Changes(p, q) /\ ((q.draft /\ lock.at = "assets") \/ Opens(p, q))
  <2>1. PICK p \in releases, q \in Releases :
            /\ p.v = q.v /\ releases' = (releases \ {p}) \cup {q}
            /\ q.draft \/ Opens(p, q)
    BY <1>5 DEF Changes, Replace
  <2>2. CASE x = q
    BY <2>1, <2>2 DEF Opens
  <2>3. CASE x \in releases
    BY <2>3
  <2>4. QED
    BY <2>1, <2>2, <2>3
<1>6. QED
  BY <1>1, <1>2, <1>3, <1>4, <1>5 DEF ReleasesStep

\* What PublishedComplete and StableComplete say of a version.
CandidateWhole(v, assets) ==
    \E b \in attested :
        /\ Candidate(b[1]) = v /\ assets = Assets(b[1], b[2])
        /\ Listed(v) = Dists(b[1], b[2]) /\ ImageOf(v) = {Digest(b[1], b[2])}
        /\ \E t \in TagOf(v) : t.at = b[1] /\ t.binds = assets

StableWhole(v, assets) ==
    \E h \in ToSet(mainline) : \E b \in Builds :
        Target(h) = v /\ assets = Assets(h, b) /\ Listed(v) = Dists(h, b)

LEMMA CandidateStaysWhole ==
    ASSUME IInv, [Next]_pipelineVars, NEW v, NEW assets, IsCandidate(v),
           CandidateWhole(v, assets)
    PROVE  \E b \in attested' :
            /\ Candidate(b[1]) = v /\ assets = Assets(b[1], b[2])
            /\ ListedIn(pypi', v) = Dists(b[1], b[2]) /\ ImageIn(images', v) = {Digest(b[1], b[2])}
            /\ \E t \in tags' : t.v = v /\ t.at = b[1] /\ t.binds = assets
<1>i. /\ TypeOK /\ RunsFine /\ PublicationHolds /\ PromotionHolds /\ TagsBind /\ FilesBound
      /\ ImagesBound
  BY DEF IInv
<1>1. PICK b \in attested :
        /\ Candidate(b[1]) = v /\ assets = Assets(b[1], b[2])
        /\ Listed(v) = Dists(b[1], b[2]) /\ ImageOf(v) = {Digest(b[1], b[2])}
        /\ \E t \in TagOf(v) : t.at = b[1] /\ t.binds = assets
  BY DEF CandidateWhole
<1>2. b[1] \in Heads /\ b[2] \in Builds /\ b \in attested' /\ tags \subseteq tags'
  BY <1>i, Growing, TagsFine DEF TypeOK
<1>3. ListedIn(pypi', v) = Dists(b[1], b[2])
  <2>1. ListedIn(pypi, v) = Dists(b[1], b[2])
    BY <1>1 DEF Listed, ListedIn
  <2>2. QED
    BY <1>i, <1>2, <2>1, FilesFine
<1>4. ImageIn(images', v) = {Digest(b[1], b[2])}
  <2>1. ImageIn(images, v) = {Digest(b[1], b[2])}
    BY <1>1 DEF ImageOf, ImageIn
  <2>2. QED
    BY <1>i, <2>1, ImagesFine
<1>5. \E t \in tags' : t.v = v /\ t.at = b[1] /\ t.binds = assets
  BY <1>1, <1>2 DEF TagOf
<1>6. QED
  BY <1>1, <1>2, <1>3, <1>4, <1>5

LEMMA StableStaysWhole ==
    ASSUME IInv, [Next]_pipelineVars, NEW v, NEW assets, StableWhole(v, assets)
    PROVE  \E h \in ToSet(mainline') : \E b \in Builds :
            Target(h) = v /\ assets = Assets(h, b) /\ ListedIn(pypi', v) = Dists(h, b)
<1>i. /\ TypeOK /\ RunsFine /\ PublicationHolds /\ PromotionHolds /\ TagsBind /\ FilesBound
  BY DEF IInv
<1>1. PICK h \in ToSet(mainline) : \E b \in Builds :
        Target(h) = v /\ assets = Assets(h, b) /\ Listed(v) = Dists(h, b)
  BY DEF StableWhole
<1>2. PICK b \in Builds : Target(h) = v /\ assets = Assets(h, b) /\ Listed(v) = Dists(h, b)
  BY <1>1
<1>3. h \in Heads /\ h \in ToSet(mainline')
  BY <1>i, Growing DEF TypeOK, ToSet
<1>4. ListedIn(pypi, v) = Dists(h, b)
  BY <1>2 DEF Listed, ListedIn
<1>5. ListedIn(pypi', v) = Dists(h, b)
  BY <1>i, <1>3, <1>4, FilesFine
<1>6. QED
  BY <1>2, <1>3, <1>5

\* What the run opens is complete.
LEMMA OpensWhole ==
    ASSUME IInv, NEW p \in releases, NEW x, Opens(p, x)
    PROVE  /\ IsCandidate(p.v) => CandidateWhole(p.v, p.assets)
           /\ ~IsCandidate(p.v) => StableWhole(p.v, p.assets)
<1>i. /\ TypeOK /\ RunsFine /\ PublicationHolds /\ PromotionHolds /\ ReleasesApart
  BY DEF IInv
<1>1. CASE Running("publication") /\ p.v = Candidate(lock.h)
  <2> DEFINE t == [v |-> Candidate(lock.h), at |-> lock.h, binds |-> Assets(lock.h, lock.build)]
             b == <<lock.h, lock.build>>
  <2>1. lock.at = "open" /\ PublicationFine(lock) /\ IsCandidate(p.v)
    BY <1>i, <1>1, PublicationTyped DEF Opens
  <2>2. /\ Listed(p.v) = Dists(lock.h, lock.build) /\ ImageOf(p.v) = {Digest(lock.h, lock.build)}
        /\ p.assets = Assets(lock.h, lock.build) /\ TagBound(lock)
    BY <1>i, <1>1, <2>1 DEF PublicationHolds
  <2>3. /\ t \in tags /\ t.v = p.v /\ t.at = lock.h /\ t.binds = Assets(lock.h, lock.build)
        /\ b \in attested /\ b[1] = lock.h /\ b[2] = lock.build
    BY <1>1, <2>1, <2>2 DEF TagBound, PublicationFine
  <2> HIDE DEF t, b
  <2>4. t \in TagOf(p.v)
    BY <2>3 DEF TagOf
  <2>5. CandidateWhole(p.v, p.assets)
    BY <1>1, <2>2, <2>3, <2>4 DEF CandidateWhole
  <2>6. QED
    BY <2>1, <2>5
<1>2. CASE Running("promotion") /\ p \in Resolved(Version(lock))
  <2>1. p.v = Version(lock) /\ lock.at = "open"
    BY <1>i, <1>2, ResolvedOne DEF Opens
  <2>2. PromotionFine(lock) /\ lock.rebuild \in Builds /\ ~IsCandidate(p.v)
    BY <1>i, <1>2, <2>1, PromotionTyped
  <2>3. /\ p.assets = Assets(lock.h, lock.rebuild) /\ lock.h \in ToSet(mainline)
        /\ Listed(p.v) = Dists(lock.h, lock.rebuild)
    BY <1>i, <1>2, <2>1, <2>2 DEF PromotionHolds, PromotionFine
  <2>4. StableWhole(p.v, p.assets)
    BY <2>1, <2>2, <2>3 DEF StableWhole, Version
  <2>5. QED
    BY <2>2, <2>4
<1>3. QED
  BY <1>1, <1>2 DEF Opens

LEMMA PublishedFine ==
    ASSUME IInv, [Next]_pipelineVars
    PROVE  PublishedComplete' /\ StableComplete'
<1>i. TypeOK /\ RunsFine /\ PublishedComplete /\ StableComplete /\ ReleasesStep
  BY ReleasesChange DEF IInv
<1>1. ASSUME NEW x \in releases', x.v.number > 0, ~x.draft
      PROVE  \E b \in attested' :
                LET r == [h |-> b[1], build |-> b[2]]
                IN  /\ Candidate(r.h) = x.v
                    /\ x.assets = Assets(r.h, r.build)
                    /\ Listed(x.v)' = Dists(r.h, r.build)
                    /\ ImageOf(x.v)' = {Digest(r.h, r.build)}
                    /\ \E t \in TagOf(x.v)' : t.at = r.h /\ t.binds = x.assets
  <2>1. PICK p \in releases :
            p.v = x.v /\ p.assets = x.assets /\ (~p.draft \/ Opens(p, x))
    BY <1>i, <1>1, Published
  <2>2. IsCandidate(x.v)
    BY <1>1 DEF IsCandidate
  <2>3. CandidateWhole(x.v, x.assets)
    <3>1. CASE ~p.draft
      BY <1>i, <1>1, <2>1, <3>1 DEF PublishedComplete, CandidateWhole
    <3>2. CASE Opens(p, x)
      BY <2>1, <2>2, <3>2, OpensWhole
    <3>3. QED
      BY <2>1, <3>1, <3>2
  <2>4. QED
    BY <2>2, <2>3, CandidateStaysWhole DEF Listed, ListedIn, ImageOf, ImageIn, TagOf
<1>2. ASSUME NEW x \in releases', x.v.number = 0, ~x.draft
      PROVE  \E h \in ToSet(mainline'), b \in Builds :
                /\ Target(h) = x.v
                /\ x.assets = Assets(h, b)
                /\ Listed(x.v)' = Dists(h, b)
  <2>1. PICK p \in releases :
            p.v = x.v /\ p.assets = x.assets /\ (~p.draft \/ Opens(p, x))
    BY <1>i, <1>2, Published
  <2>2. ~IsCandidate(x.v)
    BY <1>2 DEF IsCandidate
  <2>3. StableWhole(x.v, x.assets)
    <3>1. CASE ~p.draft
      BY <1>i, <1>2, <2>1, <3>1 DEF StableComplete, StableWhole
    <3>2. CASE Opens(p, x)
      BY <2>1, <2>2, <3>2, OpensWhole
    <3>3. QED
      BY <2>1, <3>1, <3>2
  <2>4. QED
    BY <2>3, StableStaysWhole DEF Listed, ListedIn
<1>3. PublishedComplete'
  BY <1>1 DEF PublishedComplete
<1>4. StableComplete'
  BY <1>2 DEF StableComplete
<1>5. QED
  BY <1>3, <1>4

----------------------------------------------------------------------------
(* The invariant.                                                            *)

LEMMA InitIInv == Init => IInv
<1> SUFFICES ASSUME Init PROVE IInv
  OBVIOUS
<1>1. /\ mainline = <<>> /\ branch = HeadAt(0, <<>>) /\ preserved = {}
      /\ merged = {HeadAt(0, <<>>)}
      /\ tags = {} /\ pypi = {} /\ images = {} /\ releases = {}
      /\ lock = Nil /\ failed = Nil /\ built = {} /\ attested = {}
  BY DEF Init, InitRefs, InitPublication
<1>2. HeadAt(0, <<>>) \in Heads /\ HeadAt(0, <<>>) # Nil /\ HeadAt(0, <<>>).commits = <<>>
  <2>1. <<>> \in Seq(Commits)
    OBVIOUS
  <2>2. HeadAt(0, <<>>) \in Heads /\ HeadAt(0, <<>>).commits = <<>>
    BY <2>1 DEF HeadAt, Heads
  <2>3. QED
    BY <2>2, NilAssumption
<1>3. TypeOK
  <2>1. mainline \in Seq(Heads)
    BY <1>1
  <2>2. IsFiniteSet(releases)
    BY <1>1, FS_EmptySet
  <2>3. QED
    BY <1>1, <1>2, <2>1, <2>2 DEF TypeOK
<1>4. RecutKeeps /\ AbsenceKnown /\ PublicationHolds /\ PromotionHolds
  BY <1>1, <1>2 DEF RecutKeeps, AbsenceKnown, PublicationHolds, PromotionHolds, Running
<1>5. HeadKept
  BY <1>1, <1>2 DEF HeadKept
<1>6. TagsBind /\ FilesBound /\ ImagesBound /\ ReleasesApart
  BY <1>1 DEF TagsBind, FilesBound, ImagesBound, ReleasesApart
<1>7. RunsFine /\ PublishedComplete /\ StableComplete
  BY <1>1 DEF RunsFine, PublishedComplete, StableComplete
<1>8. QED
  BY <1>3, <1>4, <1>5, <1>6, <1>7 DEF IInv

LEMMA NextIInv == IInv /\ [Next]_pipelineVars => IInv'
<1> SUFFICES ASSUME IInv, [Next]_pipelineVars PROVE IInv'
  OBVIOUS
<1>i. /\ TypeOK /\ RunsFine /\ PublicationHolds /\ PromotionHolds /\ TagsBind /\ FilesBound
      /\ ImagesBound /\ ReleasesApart
  BY DEF IInv
<1>1. /\ branch' \in Heads \cup {Nil} /\ preserved' \subseteq Heads /\ merged' \subseteq Heads
      /\ LockHolds' /\ RecutKeeps' /\ AbsenceKnown' /\ HeadKept'
  BY BranchAndLock
<1>2. tags' \subseteq Tags /\ TagsBind'
  BY <1>i, TagsFine
<1>3. pypi' \subseteq PythonFiles /\ FilesBound'
  BY <1>i, FilesFine
<1>4. ImagesBound'
  BY <1>i, ImagesFine
<1>5. releases' \subseteq Releases /\ IsFiniteSet(releases') /\ ReleasesApart'
  <2>1. ReleasesStep
    BY <1>i, ReleasesChange
  <2>2. QED
    BY <1>i, <2>1, ReleasesFine
<1>6. /\ failed' \in PublicationRuns \cup PromotionRuns \cup {Nil}
      /\ failed' # Nil =>
            /\ failed'.flow = "publication" => PublicationFine(failed)'
            /\ failed'.flow = "promotion" => PromotionFine(failed)'
            /\ failed'.at \in IF failed'.flow = "publication"
                              THEN {"pypi", "publish", "attest", "finalize"}
                              ELSE {"recheck", "tagging", "image", "draft"}
  BY <1>i, FailedFine
<1>7. /\ mainline' \in Seq(Heads)
      /\ \A b \in attested' : b[1] \in Heads /\ b[2] \in Builds
      /\ \A b \in built' : /\ b = <<b[1], b[2]>> /\ b[1] \in Heads /\ b[2] \in Builds
                           /\ b[1].commits # <<>>
  BY <1>i, Growing
<1>8. TypeOK'
  BY <1>1, <1>2, <1>3, <1>5, <1>6, <1>7 DEF TypeOK, LockHolds
<1>9. RunsFine'
  <2>1. lock' # Nil =>
            /\ lock'.flow = "publication" => PublicationFine(lock)'
            /\ lock'.flow = "promotion" => PromotionFine(lock)'
    BY <1>1 DEF LockHolds
  <2>2. \A r \in {lock', failed'} \ {Nil} :
            /\ r.flow = "publication" => PublicationFine(r)'
            /\ r.flow = "promotion" => PromotionFine(r)'
    BY <1>6, <2>1 DEF PublicationFine, PromotionFine, Listed
  <2>3. QED
    BY <1>6, <1>7, <2>2 DEF RunsFine
<1>10. PublishedComplete' /\ StableComplete'
  BY PublishedFine
<1>11. PublicationHolds' /\ PromotionHolds'
  BY <1>1 DEF LockHolds
<1>12. QED
  BY <1>1, <1>2, <1>3, <1>4, <1>5, <1>8, <1>9, <1>10, <1>11 DEF IInv

\* The release workflows keep the types of what they share, and what each relies
\* on at each of its steps: the tag a publication works under, the releases a
\* promotion sees, the preserved head a recut deletes.
THEOREM Invariance == Spec => []IInv
<1>1. Init => IInv
  BY InitIInv
<1>2. IInv /\ [Next]_pipelineVars => IInv'
  BY NextIInv
<1>3. QED
  BY <1>1, <1>2, PTL DEF Spec

\* rc-publish-stage.yml: a candidate release that is published has every asset of
\* one attested build, with its files on PyPI, its image and its tag.
THEOREM CandidatesComplete == Spec => []PublishedComplete
<1>1. IInv => PublishedComplete
  BY DEF IInv
<1>2. QED
  BY <1>1, Invariance, PTL

\* rc_verify_and_publish.py: the candidate's tag binds the bytes that PyPI and GHCR
\* hold to the build it was reserved for.
THEOREM BytesBound == Spec => []TagBindsBytes
<1>1. IInv => TagBindsBytes
  <2> SUFFICES ASSUME IInv, NEW v \in {x.v : x \in pypi} \cup {x.v : x \in images}, v.number > 0
               PROVE  \E t \in TagOf(v) :
                        /\ {x.bytes : x \in {y \in pypi : y.v = v}} \subseteq t.binds
                        /\ \A d \in ImageOf(v) : \E bytes \in t.binds : bytes[1] = "provenance"
                               /\ bytes[2] = d[2] /\ bytes[3] = d[3]
    BY DEF TagBindsBytes
  <2>1. TagsBind /\ FilesBound /\ ImagesBound /\ IsCandidate(v)
    BY DEF IInv, IsCandidate
  <2>2. PICK t \in TagOf(v) : TRUE
    BY <2>1 DEF FilesBound, ImagesBound
  <2>3. \A u \in TagOf(v) : u = t
    BY <2>1, <2>2 DEF TagsBind, TagOf
  <2>4. \A x \in pypi : x.v = v => x.bytes \in t.binds
    BY <2>1, <2>3 DEF FilesBound
  <2>5. ASSUME NEW d \in ImageOf(v)
        PROVE  \E bytes \in t.binds : /\ bytes[1] = "provenance"
                                      /\ bytes[2] = d[2] /\ bytes[3] = d[3]
    <3>1. PICK x \in images : x.v = v /\ x.digest = d
      BY DEF ImageOf
    <3>2. PICK u \in TagOf(v) : \E b \in Builds : u.binds = Assets(u.at, b) /\ d = Digest(u.at, b)
      BY <2>1, <3>1 DEF ImagesBound
    <3>3. PICK b \in Builds : t.binds = Assets(t.at, b) /\ d = Digest(t.at, b)
      BY <2>3, <3>2
    <3>4. Bytes(t.at, b, "provenance") \in t.binds
      BY <3>3 DEF Assets, Files
    <3>5. QED
      BY <3>3, <3>4 DEF Bytes, Digest
  <2>6. QED
    BY <2>2, <2>4, <2>5
<1>2. QED
  BY <1>1, Invariance, PTL

\* release_record.py: a stable release that is published has every asset of one
\* build of a squash on main, and PyPI lists that build's files, whatever was
\* re-run or resumed.
THEOREM StablesComplete == Spec => []StableComplete
<1>1. IInv => StableComplete
  BY DEF IInv
<1>2. QED
  BY <1>1, Invariance, PTL

\* branch-recut.md: every head release/new ever had is preserved or on the branch,
\* whatever a recut's pushes, reads and runner do.
THEOREM HeadsKept == Spec => []HeadKept
<1>1. IInv => HeadKept
  BY DEF IInv
<1>2. QED
  BY <1>1, Invariance, PTL

\* sdlc_recut.py: when no workflow runs, the branch is absent only if the operator
\* was told so or the runner died.
THEOREM AbsencesTold == Spec => []AbsenceTold
<1>1. IInv => AbsenceTold
  BY DEF IInv, AbsenceKnown, AbsenceTold, Running
<1>2. QED
  BY <1>1, Invariance, PTL

=============================================================================
