--------------------------- MODULE ReleasePipeline ---------------------------
(* The release workflows together: publications, promotions and recuts,    *)
(* one at a time under the promotion lock, while maintainers merge pull    *)
(* requests and squash releases.                                           *)
EXTENDS Recut

pipelineVars == <<refs, surfaces, lock, failed, faults, publicationVars, outcome>>

Init == InitRefs /\ InitPublication /\ outcome = "none"

Next ==
    \/ Maintaining /\ UNCHANGED <<faults, publicationVars, outcome>>
    \/ (PublicationNext \/ PromotionNext) /\ UNCHANGED outcome
    \/ RecutNext

Spec == Init /\ [][Next]_pipelineVars

-----------------------------------------------------------------------------
\* rc-publish-stage.yml: "a published candidate release always means a complete
\* publication".  A candidate release that is not a draft has every asset of one
\* build, and PyPI, the image, the tag and the attestation are of that build.
PublishedComplete ==
    \A x \in releases : x.v.number > 0 /\ ~x.draft =>
        \E b \in attested :
            LET r == [h |-> b[1], build |-> b[2]]
            IN  /\ Candidate(r.h) = x.v
                /\ x.assets = Assets(r.h, r.build)
                /\ Listed(x.v) = Dists(r.h, r.build)
                /\ ImageOf(x.v) = {Digest(r.h, r.build)}
                /\ \E t \in TagOf(x.v) : t.at = r.h /\ t.binds = x.assets

\* rc_verify_and_publish.py:341-351: the tag's message "is what binds the bytes
\* PyPI and GHCR receive to the reservation", also for jobs that see no drafts.
TagBindsBytes ==
    \A v \in {x.v : x \in pypi} \cup {x.v : x \in images} :
        v.number > 0 =>
            \E t \in TagOf(v) :
                /\ {x.bytes : x \in {y \in pypi : y.v = v}} \subseteq t.binds
                /\ \A d \in ImageOf(v) : \E bytes \in t.binds : bytes[1] = "provenance"
                       /\ bytes[2] = d[2] /\ bytes[3] = d[3]

\* A published stable release is whole, whatever was re-run or resumed.
StableComplete ==
    \A x \in releases : x.v.number = 0 /\ ~x.draft =>
        \E h \in ToSet(mainline), b \in Builds :
            /\ Target(h) = x.v
            /\ x.assets = Assets(h, b)
            /\ Listed(x.v) = Dists(h, b)

\* branch-recut.md: no head release/new ever had is lost by a recut, whoever
\* merges meanwhile and whatever push or read fails.
HeadKept ==
    \A x \in merged : x.commits # <<>> =>
        \E y \in preserved \cup ({branch} \ {Nil}) :
            y.cut = x.cut /\ IsPrefix(x.commits, y.commits)

\* sdlc_recut.py: "a branch that should be recreated is never left absent",
\* unless the operator was told so or the runner died.
AbsenceTold ==
    lock = Nil /\ branch = Nil => outcome \in {"told", "died"}
=============================================================================
